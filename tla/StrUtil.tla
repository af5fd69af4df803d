------------------------------ MODULE StrUtil -------------------------------
(***************************************************************************)
(* Functions of utils/strutil.{h,cc} for which there is something to say:  *)
(* hexadecimal text, the tokenizer and its inverse, replacing, prefixes    *)
(* and suffixes.  Strings are sequences of character codes; positions are  *)
(* counted from 0, as in std::string.                                      *)
(***************************************************************************)
EXTENDS Integers, Sequences, FiniteSetsExt

CONSTANT
  HexLimit        \* 1024: the longest text Str2Hex accepts, twice its buffer

ASSUME StrUtilAssumption == HexLimit \in Nat /\ HexLimit % 2 = 0

NPos == -1

-----------------------------------------------------------------------------
(* Hexadecimal text. *)

HexDigit(v) == IF v < 10 THEN 48 + v ELSE 87 + v

IsHex(ch) == ch \in 48 .. 57 \/ ch \in 65 .. 70 \/ ch \in 97 .. 102

HexValue(ch) ==
  CASE ch \in 48 .. 57  -> ch - 48
    [] ch \in 65 .. 70  -> ch - 55
    [] ch \in 97 .. 102 -> ch - 87

\* (Altered: the digits in the wrong order.)
Hex2StrSwapped(bytes) ==
  [i \in 1 .. 2 * Len(bytes) |->
     LET t == bytes[(i + 1) \div 2]
     IN HexDigit(IF i % 2 = 0 THEN t \div 16 ELSE t % 16)]

Hex2Str(bytes) ==
  [i \in 1 .. 2 * Len(bytes) |->
     LET t == bytes[(i + 1) \div 2]
     IN HexDigit(IF i % 2 = 1 THEN t \div 16 ELSE t % 16)]

DigestToBase16(digest) ==
  [j \in 1 .. 2 * Len(digest) |->
     LET a == digest[(j + 1) \div 2]
     IN HexDigit(IF j % 2 = 1 THEN (a \div 16) % 16 ELSE a % 16)]

\* strtol of the two characters x and y in base 16, as a char.
StrTol(x, y) ==
  CASE IsHex(x) /\ IsHex(y)              -> HexValue(x) * 16 + HexValue(y)
    [] IsHex(x) /\ ~IsHex(y)             -> HexValue(x)
    [] x \in {9, 10, 11, 12, 13, 32, 43} /\ IsHex(y) -> HexValue(y)
    [] x = 45 /\ IsHex(y)                -> (256 - HexValue(y)) % 256
    [] OTHER                             -> 0

Str2Hex(text) ==
  IF Len(text) > HexLimit THEN <<>>
  ELSE [i \in 1 .. Len(text) \div 2 |-> StrTol(text[2 * i - 1], text[2 * i])]

-----------------------------------------------------------------------------
(* Searching. *)

Occurs(s, sub, p) ==
  p + Len(sub) <= Len(s) /\ SubSeq(s, p + 1, p + Len(sub)) = sub

\* std::string's find from a position, and rfind.
Find(s, sub, from) ==
  LET at == {p \in from .. Len(s) : Occurs(s, sub, p)}
  IN IF at = {} THEN NPos ELSE Min(at)

RFind(s, sub) ==
  LET at == {p \in 0 .. Len(s) : Occurs(s, sub, p)}
  IN IF at = {} THEN NPos ELSE Max(at)

StartsWith(s, sub) == Find(s, sub, 0) = 0

EndsWith(s, sub) == RFind(s, sub) # NPos /\ RFind(s, sub) = Len(s) - Len(sub)

ReplaceChar(s, be_replaced, replace_with) ==
  [i \in 1 .. Len(s) |-> IF s[i] = be_replaced THEN replace_with ELSE s[i]]

\* What StringReplace appends to *res.
StringReplace(s, oldsub, newsub, replace_all) ==
  LET From(p) == SubSeq(s, p + 1, Len(s))
      rest[start \in 0 .. Len(s)] ==
        LET pos == Find(s, oldsub, start)
            next == pos + Len(oldsub)
        IN IF pos = NPos THEN From(start)
           ELSE SubSeq(s, start + 1, pos) \o newsub
                  \o (IF replace_all THEN rest[next] ELSE From(next))
  IN IF oldsub = <<>> THEN s ELSE rest[0]

-----------------------------------------------------------------------------
(* Tokens.  The state of a Tokenizer is offset_. *)

\* find_first_not_of and find_first_of.
FirstNotOf(s, D, from) ==
  LET at == {p \in from .. Len(s) - 1 : s[p + 1] \notin D}
  IN IF at = {} THEN NPos ELSE Min(at)

FirstOf(s, D, from) ==
  LET at == {p \in from .. Len(s) - 1 : s[p + 1] \in D}
  IN IF at = {} THEN NPos ELSE Min(at)

\* (Altered: the token ends behind the delimiter.)
NextTokenLong(s, D, offset) ==
  LET i == FirstNotOf(s, D, offset)
      j == FirstOf(s, D, i)
      end == IF j = NPos THEN Len(s) ELSE j + 1
  IN IF i = NPos THEN [found |-> FALSE, token |-> <<>>, offset |-> Len(s)]
     ELSE [found |-> TRUE, token |-> SubSeq(s, i + 1, end), offset |-> end]

\* NextToken: whether there is one, token_ and the new offset_.
NextToken(s, D, offset) ==
  LET i == FirstNotOf(s, D, offset)
      j == FirstOf(s, D, i)
      end == IF j = NPos THEN Len(s) ELSE j
  IN IF i = NPos THEN [found |-> FALSE, token |-> <<>>, offset |-> Len(s)]
     ELSE [found |-> TRUE, token |-> SubSeq(s, i + 1, end), offset |-> end]

SplitToken(s, D) ==
  LET from[offset \in 0 .. Len(s)] ==
        LET n == NextToken(s, D, offset)
        IN IF n.found THEN <<n.token>> \o from[n.offset] ELSE <<>>
  IN from[0]

\* What MergeToken leaves in an empty result.
MergeToken(tokens, delimiter) ==
  LET upTo[i \in 1 .. Len(tokens)] ==
        IF i = 1 THEN tokens[1] ELSE upTo[i - 1] \o delimiter \o tokens[i]
  IN IF tokens = <<>> \/ delimiter = <<>> THEN <<>> ELSE upTo[Len(tokens)]
=============================================================================
