--------------------------- MODULE JsonSerializer ---------------------------
(***************************************************************************)
(* The serializer of json/json.h, and the layout of the numbers it writes. *)
(* A text is a sequence of bytes, a value as in module JsonValue.  The     *)
(* buffers are left out: what is written is what they hold.  The digits of *)
(* a floating-point number, which the code finds with Grisu2, are given    *)
(* with the number (see JsonLexer).                                        *)
(***************************************************************************)
EXTENDS JsonValue

CONSTANT
  IndentSize      \* 512: the length of indent_string before it is resized

-----------------------------------------------------------------------------
(* Numbers. *)

remove_sign(w) == Negated(w)

Characters(digits) == [i \in 1 .. Len(digits) |-> digits[i] + 48]

dump_integer(w) == Characters(Decimal(w))

dump_signed(w) ==
  IF IsNegative(w) THEN <<45>> \o dump_integer(remove_sign(w)) ELSE dump_integer(w)

append_exponent(e) ==
  LET k == IF e < 0 THEN -e ELSE e
  IN <<IF e < 0 THEN 45 ELSE 43>>
       \o Characters(IF k < 100 THEN <<k \div 10, k % 10>>
                     ELSE <<k \div 100, (k \div 10) % 10, k % 10>>)

MinExp == -4
MaxExp == 15

\* digits stands for 0.digits * 10^n.
format_buffer(digits, n) ==
  LET k == Len(digits)
      zeros(m) == [i \in 1 .. m |-> 48]
      d == Characters(digits)
  IN CASE k <= n /\ n <= MaxExp -> d \o zeros(n - k) \o <<46, 48>>
       [] 0 < n /\ n < k /\ n <= MaxExp ->
            SubSeq(d, 1, n) \o <<46>> \o SubSeq(d, n + 1, k)
       [] MinExp < n /\ n <= 0  -> <<48, 46>> \o zeros(-n) \o d
       [] OTHER ->
            <<d[1]>> \o (IF k = 1 THEN <<>> ELSE <<46>> \o Tail(d))
              \o <<101>> \o append_exponent(n - 1)

to_chars(x) ==
  (IF x[1] THEN <<45>> ELSE <<>>)
    \o (IF x[2] = <<>> THEN <<48, 46, 48>> ELSE format_buffer(x[2], x[3]))

Text(name) ==
  CASE name = "null"  -> <<110, 117, 108, 108>>
    [] name = "true"  -> <<116, 114, 117, 101>>
    [] name = "false" -> <<102, 97, 108, 115, 101>>
    [] name = "bytes" -> <<98, 121, 116, 101, 115>>
    [] name = "subtype" -> <<115, 117, 98, 116, 121, 112, 101>>
    [] name = "discarded" -> <<60, 100, 105, 115, 99, 97, 114, 100, 101, 100, 62>>

dump_float(x) == IF IsFinite(x) THEN to_chars(x) ELSE Text("null")

-----------------------------------------------------------------------------
(* Strings. *)

\* The table utf8d: the type of a byte, and the state after a byte of a type.
Utf8Type(b) ==
  CASE b \in 0 .. 127   -> 0
    [] b \in 128 .. 143 -> 1
    [] b \in 144 .. 159 -> 9
    [] b \in 160 .. 191 -> 7
    [] b \in (192 .. 193) \cup (245 .. 255) -> 8
    [] b \in 194 .. 223 -> 2
    [] b = 224          -> 10
    [] b \in 225 .. 239 \ {237} -> 3
    [] b = 237          -> 4
    [] b = 240          -> 11
    [] b \in 241 .. 243 -> 6
    [] b = 244          -> 5

Accept == 0
Reject == 1
Incomplete == 2 .. 8

Utf8States ==
  LET row(r) == [t \in 0 .. 11 |-> IF t \in DOMAIN r THEN r[t] ELSE Reject]
  IN <<row((1 :> Reject)),
       row((1 :> Accept) @@ (7 :> Accept) @@ (9 :> Accept)),
       row((1 :> 2) @@ (7 :> 2) @@ (9 :> 2)),
       row((7 :> 2)),
       row((1 :> 2) @@ (9 :> 2)),
       row((7 :> 3) @@ (9 :> 3)),
       row((1 :> 3) @@ (7 :> 3) @@ (9 :> 3)),
       row((1 :> 3))>>
Utf8Start ==
  (0 :> Accept) @@ (2 :> 2) @@ (3 :> 3) @@ (4 :> 5) @@ (5 :> 8) @@ (6 :> 7) @@ (10 :> 4)
    @@ (11 :> 6) @@ [t \in {1, 7, 8, 9} |-> Reject]

\* The new state and code point.
decode(state, codep, byte) ==
  IF state = Accept
  THEN <<Utf8Start[Utf8Type(byte)], byte % (IF Utf8Type(byte) < 8 THEN 2 ^ (8 - Utf8Type(byte)) ELSE 1)>>
  ELSE <<Utf8States[state][Utf8Type(byte)], codep * 64 + (byte % 64)>>

HexText(n) ==
  [i \in 1 .. 4 |-> LET d == (n \div (16 ^ (4 - i))) % 16
                    IN IF d < 10 THEN 48 + d ELSE 87 + d]
U(n) == <<92, 117>> \o HexText(n)

ShortEscapes == (8 :> 98) @@ (9 :> 116) @@ (10 :> 110) @@ (12 :> 102) @@ (13 :> 114)
                  @@ (34 :> 34) @@ (92 :> 92)

\* What is written for a code point, the last byte of which is b.
EscapedPoint(cp, b, ensure_ascii) ==
  CASE cp \in DOMAIN ShortEscapes -> <<92, ShortEscapes[cp]>>
    [] cp \notin DOMAIN ShortEscapes /\ (cp <= 31 \/ (ensure_ascii /\ cp >= 127)) ->
         IF cp <= 65535 THEN U(cp)
         ELSE U(55232 + cp \div 1024) \o U(56320 + (cp % 1024))
    [] OTHER -> <<b>>

Replacement(ensure_ascii) == IF ensure_ascii THEN U(65533) ELSE <<239, 191, 189>>

\* (Altered: the byte that ends an incomplete sequence is skipped with it.)
RereadNever(undumped) == 0

\* How far the loop goes back to read a byte again that is wrong after undumped
\* bytes of a sequence, but may be right for itself.
Reread(undumped) == IF undumped > 0 THEN 1 ELSE 0

\* From byte i on; out is written, the first accepted bytes of it for good.
RECURSIVE escaped_from(_, _, _, _, _, _, _, _, _), escaped_byte(_, _, _, _, _, _, _, _)
escaped_from(s, i, state, codep, out, accepted, undumped, ascii, handler) ==
  IF i > Len(s)
  THEN [ok |-> state = Accept \/ handler # "strict",
        text |-> IF state = Accept THEN out
                 ELSE SubSeq(out, 1, accepted)
                        \o (IF handler = "replace" THEN Replacement(ascii) ELSE <<>>)]
  ELSE escaped_byte(s, i, decode(state, codep, s[i]), out, accepted, undumped, ascii, handler)
escaped_byte(s, i, d, out, accepted, undumped, ascii, handler) ==
  LET good == out \o EscapedPoint(d[2], s[i], ascii)
      kept == SubSeq(out, 1, accepted)
                \o (IF handler = "replace" THEN Replacement(ascii) ELSE <<>>)
  IN CASE d[1] = Accept ->
            escaped_from(s, i + 1, Accept, 0, good, Len(good), 0, ascii, handler)
       [] d[1] = Reject /\ handler = "strict" -> [ok |-> FALSE, text |-> <<>>]
       [] d[1] = Reject /\ handler # "strict" ->
            escaped_from(s, i + 1 - Reread(undumped), Accept, 0, kept, Len(kept), 0, ascii, handler)
       [] d[1] \in Incomplete ->
            escaped_from(s, i + 1, d[1], d[2], IF ascii THEN out ELSE Append(out, s[i]),
                         accepted, undumped + 1, ascii, handler)

dump_escaped(s, ensure_ascii, handler) ==
  escaped_from(s, 1, Accept, 0, <<>>, 0, 0, ensure_ascii, handler)

-----------------------------------------------------------------------------
(* Elements.  f has the parameters that do not change: pretty, ascii, step, char *)
(* and handler.                                                                *)

\* Where indent_string was resized, it goes on with blanks.
Indentation(f, n) == [i \in 1 .. n |-> IF i <= IndentSize THEN f.char ELSE 32]

Joined(parts, separator) ==
  FoldLeft(LAMBDA t, i : t \o (IF i = 1 THEN <<>> ELSE separator) \o parts[i],
           <<>>, [i \in 1 .. Len(parts) |-> i])

Quoted(f, s) == <<34>> \o dump_escaped(s, f.ascii, f.handler).text \o <<34>>

\* Parts between brackets, each on a line of its own if the text is pretty.
Bracketed(f, indent, open, parts, close) ==
  LET inner == indent + f.step
      line == <<10>> \o Indentation(f, inner)
  IN IF f.pretty
     THEN open \o line \o Joined(parts, <<44>> \o line) \o <<10>>
            \o Indentation(f, indent) \o close
     ELSE open \o Joined(parts, <<44>>) \o close

Colon(f) == IF f.pretty THEN <<58, 32>> ELSE <<58>>

\* Bytes stay on one line.
dump_binary(f, indent, b) ==
  LET numbers == [i \in 1 .. Len(b[1]) |-> dump_integer(Word(b[1][i]))]
      comma == IF f.pretty THEN <<44, 32>> ELSE <<44>>
  IN Bracketed(f, indent, <<123>>,
       <<<<34>> \o Text("bytes") \o <<34>> \o Colon(f) \o <<91>> \o Joined(numbers, comma) \o <<93>>,
         <<34>> \o Text("subtype") \o <<34>> \o Colon(f)
           \o (IF b[2] = NoSubtype THEN Text("null") ELSE dump_integer(Word(b[2])))>>,
       <<125>>)

RECURSIVE dump_at(_, _, _)
dump_at(f, val, indent) ==
  LET elements(s) == [i \in 1 .. Len(s) |-> dump_at(f, s[i], indent + (IF f.pretty THEN f.step ELSE 0))]
      pairs == elements(Elements(val))
      v == Payload(val)
  IN CASE Type(val) = "object" ->
            IF v = <<>> THEN <<123, 125>>
            ELSE Bracketed(f, indent, <<123>>,
                   [i \in 1 .. Len(v) |-> Quoted(f, v[i][1]) \o Colon(f) \o pairs[i]], <<125>>)
       [] Type(val) = "array" ->
            IF v = <<>> THEN <<91, 93>>
            ELSE Bracketed(f, indent, <<91>>, elements(v), <<93>>)
       [] Type(val) = "string"  -> Quoted(f, v)
       [] Type(val) = "binary"  -> dump_binary(f, indent, v)
       [] Type(val) = "boolean" -> Text(IF v THEN "true" ELSE "false")
       [] Type(val) = "number_integer"  -> dump_signed(v)
       [] Type(val) = "number_unsigned" -> dump_integer(v)
       [] Type(val) = "number_float"    -> dump_float(v)
       [] Type(val) = "discarded"       -> Text("discarded")
       [] Type(val) = "null"            -> Text("null")

\* The strings of val, keys included, are all UTF-8, or none of them throws.
RECURSIVE Dumpable(_, _)
Dumpable(f, val) ==
  CASE Type(val) = "string" -> dump_escaped(Payload(val), f.ascii, f.handler).ok
    [] Type(val) \in {"array", "object"} ->
         /\ \A i \in DOMAIN Elements(val) : Dumpable(f, Elements(val)[i])
         /\ \A i \in DOMAIN Keys(val) : dump_escaped(Keys(val)[i], f.ascii, f.handler).ok
    [] OTHER -> TRUE

\* basic_json::dump: pretty-printed if indent is not negative.
dump(val, indent, indent_char, ensure_ascii, handler) ==
  LET f == [pretty |-> indent >= 0, step |-> IF indent >= 0 THEN indent ELSE 0,
            char |-> indent_char, ascii |-> ensure_ascii, handler |-> handler]
  IN IF Dumpable(f, val) THEN dump_at(f, val, 0) ELSE Throw(316)
=============================================================================
