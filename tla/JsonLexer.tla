----------------------------- MODULE JsonLexer ------------------------------
(***************************************************************************)
(* The input adapters and the lexer of json/json.h.  A text is a sequence  *)
(* of bytes.  Where the class has a position and reads ahead and back, an  *)
(* operator here has p, the number of bytes read.  What the lexer keeps    *)
(* for error messages is left out.                                         *)
(*                                                                         *)
(* A floating-point number is its value in decimal: a sign, digits without *)
(* leading or trailing zeros, and the exponent of 0.digits.  A double      *)
(* holds those of up to 15 digits and of moderate exponents exactly; texts *)
(* with others are looked at for the type of the number only.              *)
(***************************************************************************)
EXTENDS JsonWords, TLC

CONSTANT
  MaxExponent     \* numbers of 10^MaxExponent or more are infinite as a double

EOF == -1
Quote == 34
Slash == 47
Star == 42
Backslash == 92
Digits == 48 .. 57

At(s, i) == IF i \in DOMAIN s THEN s[i] ELSE EOF

-----------------------------------------------------------------------------
(* Input adapters for wide characters. *)

\* The bytes of a code point: what fill_buffer puts in its buffer, and the lexer in
\* its token, for a \u escape.
Utf8(cp) ==
  CASE cp < 128    -> <<cp>>
    [] cp \in 128 .. 2047 -> <<192 + cp \div 64, 128 + (cp % 64)>>
    [] cp \in 2048 .. 65535 ->
         <<224 + cp \div 4096, 128 + ((cp \div 64) % 64), 128 + (cp % 64)>>
    [] OTHER ->
         <<240 + cp \div 262144, 128 + ((cp \div 4096) % 64),
           128 + ((cp \div 64) % 64), 128 + (cp % 64)>>

\* UTF-32: an unknown character is handed on as it is, for the lexer to refuse.
fill_buffer32(wc) == IF wc <= 1114111 THEN Utf8(wc) ELSE <<wc>>

\* UTF-16: a surrogate takes the next unit, whatever that is, for its second half.
RECURSIVE fill_buffer16(_)
fill_buffer16(s) ==
  IF s = <<>> THEN <<>>
  ELSE LET wc == Head(s)
       IN CASE wc \notin 55296 .. 57343 -> Utf8(wc) \o fill_buffer16(Tail(s))
            [] wc \in 55296 .. 57343 /\ Len(s) > 1 ->
                 Utf8(65536 + (wc % 1024) * 1024 + (s[2] % 1024))
                   \o fill_buffer16(SubSeq(s, 3, Len(s)))
            [] OTHER -> <<wc>>

-----------------------------------------------------------------------------
(* Strings. *)

Failure == [token |-> "parse_error", value |-> <<>>, pos |-> 0]
Token(t, v, p) == [token |-> t, value |-> v, pos |-> p]

HexDigits == Digits \cup 65 .. 70 \cup 97 .. 102
HexDigitOf(c) ==
  CASE c \in Digits    -> c - 48
    [] c \in 65 .. 70  -> c - 55
    [] c \in 97 .. 102 -> c - 87

\* The code point in the four characters from p on, or -1.
get_codepoint(s, p) ==
  LET d(i) == HexDigitOf(s[p + i])
  IN IF \A i \in 1 .. 4 : At(s, p + i) \in HexDigits
     THEN ((d(1) * 16 + d(2)) * 16 + d(3)) * 16 + d(4) ELSE -1

High == 55296 .. 56319
Surrogate == 56320 .. 57343

\* What \u at p - 1 and p stands for, and how far it goes.  c2 is that of a second one.
escaped_point(s, p, c1, c2) ==
  CASE c1 \in High /\ At(s, p + 5) = Backslash /\ At(s, p + 6) = 117 /\ c2 \in Surrogate ->
         Token("part", Utf8(65536 + (c1 - 55296) * 1024 + c2 - 56320), p + 10)
    [] c1 # -1 /\ c1 \notin High \cup Surrogate -> Token("part", Utf8(c1), p + 4)
    [] OTHER -> Failure
unicode_escape(s, p) ==
  escaped_point(s, p, get_codepoint(s, p), get_codepoint(s, p + 6))

Escapes == (34 :> 34) @@ (92 :> 92) @@ (47 :> 47) @@ (98 :> 8) @@ (102 :> 12)
             @@ (110 :> 10) @@ (114 :> 13) @@ (116 :> 9)

escape_sequence(s, p) ==
  LET c == At(s, p + 1)
  IN CASE c \in DOMAIN Escapes -> Token("part", <<Escapes[c]>>, p + 1)
       [] c = 117              -> unicode_escape(s, p + 1)
       [] OTHER                -> Failure

\* Characters that must be escaped, and those that stand for themselves.
Control == 0 .. 31
Plain == 32 .. 127 \ {Quote, Backslash}

\* (Altered: E0 and ED are like E1, F0 and F4 like F1.)
Utf8RangesLax(c) ==
  LET follow == 128 .. 191
  IN CASE c \in Plain      -> <<>>
       [] c \in 194 .. 223 -> <<follow>>
       [] c \in 224 .. 239 -> <<follow, follow>>
       [] c \in 240 .. 244 -> <<follow, follow, follow>>
       [] OTHER            -> <<{}>>

\* The bytes that next_byte_in_range accepts after c; none after what is refused.
Utf8Ranges(c) ==
  LET follow == 128 .. 191
  IN CASE c \in Plain                  -> <<>>
       [] c \in Control \cup {EOF}      -> <<{}>>
       [] c \in 194 .. 223             -> <<follow>>
       [] c = 224                      -> <<160 .. 191, follow>>
       [] c \in 225 .. 239 \ {237}     -> <<follow, follow>>
       [] c = 237                      -> <<128 .. 159, follow>>
       [] c = 240                      -> <<144 .. 191, follow, follow>>
       [] c \in 241 .. 243             -> <<follow, follow, follow>>
       [] c = 244                      -> <<128 .. 143, follow, follow>>
       [] OTHER                        -> <<{}>>

followed_by(s, p, ranges) ==
  IF \A i \in DOMAIN ranges : At(s, p + i) \in ranges[i]
  THEN Token("part", SubSeq(s, p, p + Len(ranges)), p + Len(ranges)) ELSE Failure
next_byte_in_range(s, p) == followed_by(s, p + 1, Utf8Ranges(At(s, p + 1)))

\* From p on, after the opening quote and the bytes in buffer.
RECURSIVE scan_string(_, _, _), string_after(_, _, _)
scan_string(s, p, buffer) ==
  CASE At(s, p + 1) = Quote     -> Token("value_string", buffer, p + 1)
    [] At(s, p + 1) = Backslash -> string_after(s, escape_sequence(s, p + 1), buffer)
    [] OTHER                    -> string_after(s, next_byte_in_range(s, p), buffer)
string_after(s, part, buffer) ==
  IF part = Failure THEN Failure ELSE scan_string(s, part.pos, buffer \o part.value)

-----------------------------------------------------------------------------
(* Numbers. *)

\* The labels of scan_number with their switches: what follows a character of a
\* class, and what follows any other.
Class(c) ==
  CASE c = 48         -> "0"
    [] c \in 49 .. 57 -> "1-9"
    [] c = 46         -> "."
    [] c \in {69, 101} -> "e"
    [] c = 43         -> "+"
    [] c = 45         -> "-"
    [] OTHER          -> "anything"

Switch(cases, default) ==
  [k \in {"0", "1-9", ".", "e", "+", "-", "anything"} |->
     IF k \in DOMAIN cases THEN cases[k] ELSE default]
Digit(label) == ("0" :> label) @@ ("1-9" :> label)
NotWhole == ("." :> "decimal1") @@ ("e" :> "exponent")
Whole == ("0" :> "zero") @@ ("1-9" :> "any1")

IntegerLabels ==
  [init  |-> Switch(Whole @@ ("-" :> "minus"), "error"),
   minus |-> Switch(Whole, "error"),
   zero  |-> Switch(NotWhole, "done"),
   any1  |-> Switch(Digit("any1") @@ NotWhole, "done")]

FractionLabels ==
  [decimal1 |-> Switch(Digit("decimal2"), "error"),
   decimal2 |-> Switch(Digit("decimal2") @@ ("e" :> "exponent"), "done"),
   exponent |-> Switch(Digit("any2") @@ ("+" :> "sign") @@ ("-" :> "sign"), "error"),
   sign     |-> Switch(Digit("any2"), "error"),
   any2     |-> Switch(Digit("any2"), "done")]

\* The value of a number's text.
Stripped(neg, ds, e, first) ==
  IF first = 0 THEN <<neg, <<>>, 0>>
  ELSE <<neg, SubSeq(ds, first, SelectLastInSeq(ds, LAMBDA d : d # 0)), e - first + 1>>
Normal(neg, ds, e) == Stripped(neg, ds, e, SelectInSeq(ds, LAMBDA d : d # 0))

\* Infinity and NaN have a digit of their own.
Infinity(neg) == <<neg, <<10>>, 0>>
NotANumber == <<FALSE, <<11>>, 0>>
IsInfinite(x) == x[2] = <<10>>
IsNaN(x) == x[2] = <<11>>

DigitsOf(s) == [i \in 1 .. Len(s) |-> s[i] - 48]

\* As an integer, up to some size: the exponents of all numbers are smaller.
Small(ds) == FoldLeft(LAMBDA n, d : IF n > 9999 THEN n ELSE n * 10 + d, 0, ds)

\* The number in a text after e, which may be none.
Power(s) ==
  LET magnitude == Small(DigitsOf(SelectSeq(s, LAMBDA c : c \in Digits)))
  IN IF s # <<>> /\ s[1] = 45 THEN -magnitude ELSE magnitude

\* The number before it, with its point.
WithPower(neg, mantissa, power) ==
  Normal(neg, DigitsOf(SelectSeq(mantissa, LAMBDA c : c # 46)),
         power + SelectInSeq(Append(mantissa, 46), LAMBDA c : c = 46) - 1)

AtExponent(neg, u, e) == WithPower(neg, SubSeq(u, 1, e - 1), Power(SubSeq(u, e + 1, Len(u))))
Limited(v) == IF v[3] > MaxExponent THEN Infinity(v[1]) ELSE v

\* strtod.  t matches the grammar of numbers.
strtof(t) ==
  Limited(AtExponent(t[1] = 45, IF t[1] = 45 THEN <<48>> \o Tail(t) ELSE t,
                     SelectInSeq(Append(t, 101), LAMBDA c : c \in {69, 101})))

\* The token of a text that the state machine has gone through.
IntegerToken(type, x, t, p) ==
  IF (\E i \in DOMAIN t : t[i] \notin Digits \cup {45}) \/ x.over
  THEN Token("value_float", strtof(t), p) ELSE Token(type, x.word, p)
ConvertedNumber(t, p) ==
  IntegerToken(IF t[1] = 45 THEN "value_integer" ELSE "value_unsigned",
               IF t[1] = 45 THEN strtoll(DigitsOf(Tail(t))) ELSE strtoull(DigitsOf(t)), t, p)

\* The number began after start; in state at p.
RECURSIVE number_from(_, _, _, _), number_goto(_, _, _, _)
number_from(s, start, p, state) ==
  number_goto(s, start, p, (IntegerLabels @@ FractionLabels)[state][Class(At(s, p + 1))])
number_goto(s, start, p, label) ==
  CASE label = "done"  -> ConvertedNumber(SubSeq(s, start + 1, p), p)
    [] label = "error" -> Failure
    [] OTHER           -> number_from(s, start, p + 1, label)

scan_number(s, p) == number_from(s, p, p, "init")

-----------------------------------------------------------------------------
(* The scanner. *)

Follows(s, p, text) == \A i \in DOMAIN text : At(s, p + i) = text[i]

scan_literal(s, p, text, t) ==
  IF Follows(s, p, text) THEN Token(t, <<>>, p + Len(text)) ELSE Failure

Blank == {9, 10, 13, 32}

RECURSIVE skip_whitespace(_, _)
skip_whitespace(s, p) ==
  IF p # -1 /\ At(s, p + 1) \in Blank THEN skip_whitespace(s, p + 1) ELSE p

\* The first position from p on where one of C was read.
ReadUntil(s, p, C) ==
  LET at == {q \in p + 1 .. Len(s) + 1 : At(s, q) \in C}
  IN CHOOSE q \in at : \A r \in at : q <= r

\* The position behind the comment whose first slash is at p + 1, or -1.
scan_comment(s, p) ==
  LET close == {q \in p + 3 .. ReadUntil(s, p + 2, {EOF, 0}) - 2 : s[q] = Star /\ s[q + 1] = Slash}
  IN CASE At(s, p + 2) = Slash -> ReadUntil(s, p + 2, {10, 13, EOF, 0})
       [] At(s, p + 2) = Star /\ close # {} -> 1 + CHOOSE q \in close : \A r \in close : q <= r
       [] OTHER -> -1

RECURSIVE skip_comments(_, _, _)
skip_comments(s, p, ignore_comments) ==
  IF p # -1 /\ ignore_comments /\ At(s, p + 1) = Slash
  THEN skip_comments(s, skip_whitespace(s, scan_comment(s, p)), ignore_comments)
  ELSE p

\* The position behind the byte order mark, or -1 for a part of one.
skip_bom(s) ==
  CASE At(s, 1) # 239            -> 0
    [] Follows(s, 0, <<239, 187, 191>>) -> 3
    [] OTHER                     -> -1

Structural == (91 :> "begin_array") @@ (93 :> "end_array") @@ (123 :> "begin_object")
                @@ (125 :> "end_object") @@ (58 :> "name_separator")
                @@ (44 :> "value_separator")

\* The token that begins after q bytes, or nowhere.
token_after(s, q) ==
  LET c == At(s, q + 1)
  IN CASE q = -1                   -> Failure
       [] q # -1 /\ c \in DOMAIN Structural -> Token(Structural[c], <<>>, q + 1)
       [] q # -1 /\ c = 116        -> scan_literal(s, q, <<116, 114, 117, 101>>, "literal_true")
       [] q # -1 /\ c = 102        -> scan_literal(s, q, <<102, 97, 108, 115, 101>>, "literal_false")
       [] q # -1 /\ c = 110        -> scan_literal(s, q, <<110, 117, 108, 108>>, "literal_null")
       [] q # -1 /\ c = Quote      -> scan_string(s, q + 1, <<>>)
       [] q # -1 /\ c \in Digits \cup {45} -> scan_number(s, q)
       [] q # -1 /\ c \in {0, EOF} -> Token("end_of_input", <<>>, q + 1)
       [] OTHER                    -> Failure

\* The next token of s after p bytes.
scan(s, p, ignore_comments) ==
  token_after(s, skip_comments(s, skip_whitespace(s, IF p = 0 THEN skip_bom(s) ELSE p),
                               ignore_comments))
=============================================================================
