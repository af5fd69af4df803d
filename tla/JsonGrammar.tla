----------------------------- MODULE JsonGrammar ----------------------------
(***************************************************************************)
(* The grammar of JSON texts (RFC 8259, which json/json.h says it parses), *)
(* as a reference for the parser: a text is looked at as a whole, and      *)
(* split where the grammar says.  It has no state and no position.         *)
(***************************************************************************)
EXTENDS JsonLexer

From(s, i, j) == SubSeq(s, i, j)

\* s without blanks around it.
Trimmed(s) ==
  LET first == SelectInSeq(s, LAMBDA c : c \notin Blank)
      last == SelectLastInSeq(s, LAMBDA c : c \notin Blank)
  IN IF first = 0 THEN <<>> ELSE From(s, first, last)

AreDigits(s) == s # <<>> /\ \A i \in DOMAIN s : s[i] \in Digits
IsInteger(s) == AreDigits(s) /\ (s[1] = 48 => Len(s) = 1)

IsFraction(s) == s = <<>> \/ (s[1] = 46 /\ AreDigits(Tail(s)))
IsExponent(s) ==
  \/ s = <<>>
  \/ Len(s) > 1 /\ s[1] \in {69, 101}
       /\ AreDigits(IF s[2] \in {43, 45} THEN From(s, 3, Len(s)) ELSE Tail(s))

IsNumber(s) ==
  LET u == IF s # <<>> /\ s[1] = 45 THEN Tail(s) ELSE s
  IN \E i \in 1 .. Len(u) : \E j \in i .. Len(u) :
       IsInteger(From(u, 1, i)) /\ IsFraction(From(u, i + 1, j)) /\ IsExponent(From(u, j + 1, Len(u)))

\* One character in UTF-8: the shortest form of a code point that is no surrogate.
Lead(n) == CASE n = 2 -> 192 [] n = 3 -> 224 [] n = 4 -> 240 [] OTHER -> 0
CodePoint(s) == FoldLeft(LAMBDA n, c : n * 64 + (c % 64), s[1] - Lead(Len(s)), Tail(s))

IsUtf8(s) ==
  /\ Len(s) \in 1 .. 4 /\ s[1] \in Lead(Len(s)) .. 255
  /\ CodePoint(s) \in 0 .. 1114111 /\ CodePoint(s) \notin 55296 .. 57343
  /\ Utf8(CodePoint(s)) = s

IsEscape(s) ==
  \/ Len(s) = 2 /\ s[1] = Backslash /\ s[2] \in DOMAIN Escapes
  \/ Len(s) = 6 /\ From(s, 1, 2) = <<Backslash, 117>> /\ get_codepoint(s, 2) \notin (55296 .. 57343) \cup {-1}
  \/ /\ Len(s) = 12 /\ From(s, 1, 2) = <<Backslash, 117>> /\ From(s, 7, 8) = <<Backslash, 117>>
     /\ get_codepoint(s, 2) \in 55296 .. 56319 /\ get_codepoint(s, 8) \in 56320 .. 57343

RECURSIVE AreUtf8(_)
AreUtf8(s) ==
  \/ s = <<>>
  \/ \E n \in 1 .. 4 : /\ n <= Len(s) /\ IsUtf8(From(s, 1, n))
                       /\ AreUtf8(From(s, n + 1, Len(s)))

IsUnescaped(s) == IsUtf8(s) /\ s[1] \notin Control \cup {Quote, Backslash}

RECURSIVE AreCharacters(_)
AreCharacters(s) ==
  \/ s = <<>>
  \/ \E n \in {1, 2, 3, 4, 6, 12} : /\ n <= Len(s)
                                    /\ IsUnescaped(From(s, 1, n)) \/ IsEscape(From(s, 1, n))
                                    /\ AreCharacters(From(s, n + 1, Len(s)))

IsString(s) ==
  Len(s) > 1 /\ s[1] = Quote /\ s[Len(s)] = Quote /\ AreCharacters(From(s, 2, Len(s) - 1))

IsLiteral(s) == s \in {<<116, 114, 117, 101>>, <<102, 97, 108, 115, 101>>, <<110, 117, 108, 108>>}

RECURSIVE IsValue(_), AreElements(_), AreMembers(_)

IsValue(s) ==
  LET t == Trimmed(s)
      inner == From(t, 2, Len(t) - 1)
      within(open, close) == Len(t) > 1 /\ t[1] = open /\ t[Len(t)] = close
  IN \/ IsLiteral(t) \/ IsNumber(t) \/ IsString(t)
     \/ within(91, 93) /\ (Trimmed(inner) = <<>> \/ AreElements(inner))
     \/ within(123, 125) /\ (Trimmed(inner) = <<>> \/ AreMembers(inner))

AreElements(s) ==
  \/ IsValue(s)
  \/ \E i \in DOMAIN s : s[i] = 44 /\ IsValue(From(s, 1, i - 1)) /\ AreElements(From(s, i + 1, Len(s)))

AreMembers(s) ==
  \E i \in DOMAIN s :
    /\ s[i] = 58 /\ IsString(Trimmed(From(s, 1, i - 1)))
    /\ \/ IsValue(From(s, i + 1, Len(s)))
       \/ \E j \in i + 1 .. Len(s) : /\ s[j] = 44 /\ IsValue(From(s, i + 1, j - 1))
                                     /\ AreMembers(From(s, j + 1, Len(s)))

-----------------------------------------------------------------------------
(* What the parser takes beyond the grammar: a byte order mark in front, a zero byte  *)
(* for the end of the text, and, if it is told to ignore them, comments.              *)

WithoutMark(s) ==
  IF Len(s) > 2 /\ From(s, 1, 3) = <<239, 187, 191>> THEN From(s, 4, Len(s)) ELSE s

UpToZero(s) ==
  LET zero == SelectInSeq(s, LAMBDA c : c = 0) IN IF zero = 0 THEN s ELSE From(s, 1, zero - 1)

\* The least of a set, or an index behind the end of s.
Earliest(s, at) == IF at = {} THEN Len(s) + 1 ELSE CHOOSE i \in at : \A j \in at : i <= j

\* s with a blank for each comment; strings, which hold no escapes here, are skipped.
RECURSIVE Uncommented(_)
Uncommented(s) ==
  LET n == Len(s)
      second == IF n > 1 THEN s[2] ELSE EOF
      quote == Earliest(s, {i \in 2 .. n : s[i] = Quote})
      line == Earliest(s, {i \in 3 .. n : s[i] \in {10, 13}})
      close == Earliest(s, {i \in 4 .. n : s[i - 1] = Star /\ s[i] = Slash})
  IN CASE s = <<>> -> <<>>
       [] s # <<>> /\ s[1] = Quote /\ quote <= n ->
            From(s, 1, quote) \o Uncommented(From(s, quote + 1, n))
       [] s # <<>> /\ s[1] = Slash /\ second = Slash -> <<32>> \o Uncommented(From(s, line, n))
       [] s # <<>> /\ s[1] = Slash /\ second = Star /\ close <= n ->
            <<32>> \o Uncommented(From(s, close + 1, n))
       [] OTHER -> <<s[1]>> \o Uncommented(Tail(s))

IsText(s) == IsValue(UpToZero(WithoutMark(s)))
IsCommentedText(s) == IsValue(Uncommented(UpToZero(WithoutMark(s))))
=============================================================================
