-------------------------- MODULE JsonBinaryWriter --------------------------
(***************************************************************************)
(* binary_writer of json/json.h: CBOR, MessagePack, UBJSON and BSON.  What *)
(* is written is a sequence of bytes; the output adapters are left out.    *)
(***************************************************************************)
EXTENDS JsonSerializer, JsonFloats

Letter(name) ==
  CASE name = "Z" -> 90 [] name = "T" -> 84 [] name = "F" -> 70 [] name = "i" -> 105
    [] name = "U" -> 85 [] name = "I" -> 73 [] name = "l" -> 108 [] name = "L" -> 76
    [] name = "d" -> 100 [] name = "D" -> 68 [] name = "H" -> 72 [] name = "C" -> 67
    [] name = "S" -> 83 [] name = "[" -> 91 [] name = "]" -> 93 [] name = "{" -> 123
    [] name = "}" -> 125 [] name = "$" -> 36 [] name = "#" -> 35 [] name = "N" -> 78

\* The fewest of some numbers of bytes that hold w, without or with its sign.
FewestUnsigned(w, sizes) ==
  CHOOSE n \in sizes : FitsUnsigned(w, n) /\ \A m \in sizes : FitsUnsigned(w, m) => n <= m
FewestSigned(w, sizes) ==
  CHOOSE n \in sizes : FitsSigned(w, n) /\ \A m \in sizes : FitsSigned(w, m) => n <= m

\* A double that is a float is written as one.
WrittenFloat(x, compact, single, double) ==
  <<IF compact THEN single ELSE double>> \o FloatBytes(x, IF compact THEN Single ELSE Double)
write_compact_float(x, single, double) ==
  WrittenFloat(x, Representable(x, Single), single, double)

-----------------------------------------------------------------------------
(* CBOR. *)

\* The initial byte of a major type, and the number after it.
CborHead(major, w) ==
  LET n == FewestUnsigned(w, {1, 2, 4, 8})
  IN IF ~BytesLess(Word(23), w) THEN <<major + w[8]>>
     ELSE <<major + (CASE n = 1 -> 24 [] n = 2 -> 25 [] n = 4 -> 26 [] n = 8 -> 27)>> \o Low(w, n)

\* -1 - w.
MinusOneMinus(w) == [i \in 1 .. 8 |-> 255 - w[i]]

RECURSIVE to_cbor(_)
to_cbor(val) ==
  LET v == Payload(val)
      element(x) == to_cbor(x)
  IN CASE Type(val) = "null"    -> <<246>>
       [] Type(val) = "boolean" -> <<IF v THEN 245 ELSE 244>>
       [] Type(val) = "number_unsigned" \/ (Type(val) = "number_integer" /\ ~IsNegative(v)) ->
            CborHead(0, v)
       [] Type(val) = "number_integer" /\ IsNegative(v) -> CborHead(32, MinusOneMinus(v))
       [] Type(val) = "number_float" ->
            CASE IsNaN(v)      -> <<249, 126, 0>>
              [] IsInfinite(v) -> <<249, IF v[1] THEN 252 ELSE 124, 0>>
              [] OTHER         -> write_compact_float(v, 250, 251)
       [] Type(val) = "string"  -> CborHead(96, Word(Len(v))) \o v
       [] Type(val) = "binary"  ->
            (IF v[2] = NoSubtype THEN <<>> ELSE <<216, v[2]>>)
              \o CborHead(64, Word(Len(v[1]))) \o v[1]
       [] Type(val) = "array"   ->
            CborHead(128, Word(Len(v))) \o FlattenSeq([i \in DOMAIN v |-> to_cbor(v[i])])
       [] Type(val) = "object"  ->
            CborHead(160, Word(Len(v)))
              \o FlattenSeq([i \in DOMAIN v |-> to_cbor(Str(v[i][1])) \o to_cbor(v[i][2])])

-----------------------------------------------------------------------------
(* MessagePack. *)

MsgpackNegative(w) ==
  LET n == FewestSigned(w, {1, 2, 4, 8})
  IN IF ~SignedLess(w, Negated(Word(32))) THEN Low(w, 1)
     ELSE <<CASE n = 1 -> 208 [] n = 2 -> 209 [] n = 4 -> 210 [] n = 8 -> 211>> \o Low(w, n)

MsgpackUnsigned(w) ==
  LET n == FewestUnsigned(w, {1, 2, 4, 8})
  IN IF BytesLess(w, Word(128)) THEN Low(w, 1)
     ELSE <<CASE n = 1 -> 204 [] n = 2 -> 205 [] n = 4 -> 206 [] n = 8 -> 207>> \o Low(w, n)

\* A length of up to most in the first byte, else after one of codes, from size to bytes.
MsgpackLength(first, most, codes, len) ==
  LET n == FewestUnsigned(Word(len), DOMAIN codes)
  IN IF len <= most THEN <<first + len>> ELSE <<codes[n]>> \o Low(Word(len), n)

\* Bytes with a subtype are an extension, of a fixed length if there is one.
FixedExtension == (1 :> 212) @@ (2 :> 213) @@ (4 :> 214) @@ (8 :> 215) @@ (16 :> 216)
MsgpackBinary(b) ==
  LET len == Len(b[1])
      n == FewestUnsigned(Word(len), {1, 2, 4})
      ext == (1 :> 199) @@ (2 :> 200) @@ (4 :> 201)
      bin == (1 :> 196) @@ (2 :> 197) @@ (4 :> 198)
  IN CASE b[2] = NoSubtype -> <<bin[n]>> \o Low(Word(len), n) \o b[1]
       [] b[2] # NoSubtype /\ len \in DOMAIN FixedExtension ->
            <<FixedExtension[len], b[2]>> \o b[1]
       [] OTHER -> <<ext[n]>> \o Low(Word(len), n) \o <<b[2]>> \o b[1]

RECURSIVE to_msgpack(_)
to_msgpack(val) ==
  LET v == Payload(val)
  IN CASE Type(val) = "null"    -> <<192>>
       [] Type(val) = "boolean" -> <<IF v THEN 195 ELSE 194>>
       [] Type(val) = "number_unsigned" \/ (Type(val) = "number_integer" /\ ~IsNegative(v)) ->
            MsgpackUnsigned(v)
       [] Type(val) = "number_integer" /\ IsNegative(v) -> MsgpackNegative(v)
       [] Type(val) = "number_float" -> write_compact_float(v, 202, 203)
       [] Type(val) = "string"  ->
            MsgpackLength(160, 31, (1 :> 217) @@ (2 :> 218) @@ (4 :> 219), Len(v)) \o v
       [] Type(val) = "binary"  -> MsgpackBinary(v)
       [] Type(val) = "array"   ->
            MsgpackLength(144, 15, (2 :> 220) @@ (4 :> 221), Len(v))
              \o FlattenSeq([i \in DOMAIN v |-> to_msgpack(v[i])])
       [] Type(val) = "object"  ->
            MsgpackLength(128, 15, (2 :> 222) @@ (4 :> 223), Len(v))
              \o FlattenSeq([i \in DOMAIN v |-> to_msgpack(Str(v[i][1])) \o to_msgpack(v[i][2])])

-----------------------------------------------------------------------------
(* UBJSON. *)

\* (Altered: the boundary of int8 is that of uint8.)
IntegerPrefixLax(unsigned, w) ==
  CASE FitsUnsigned(w, 1)               -> "i"
    [] ~FitsUnsigned(w, 1) /\ FitsSigned(w, 2) -> "I"
    [] ~FitsSigned(w, 2) /\ FitsSigned(w, 4)   -> "l"
    [] ~FitsSigned(w, 4) /\ ~(unsigned /\ IsNegative(w)) -> "L"
    [] OTHER -> "H"

\* The prefix of an integer: the smallest type that holds it.
IntegerPrefix(unsigned, w) ==
  LET large == unsigned /\ IsNegative(w)
  IN CASE large                                       -> "H"
       [] ~large /\ FitsSigned(w, 1)                  -> "i"
       [] ~FitsSigned(w, 1) /\ FitsUnsigned(w, 1)     -> "U"
       [] ~FitsUnsigned(w, 1) /\ FitsSigned(w, 2)     -> "I"
       [] ~large /\ ~FitsSigned(w, 2) /\ FitsSigned(w, 4) -> "l"
       [] OTHER                                       -> "L"

PrefixBytes == [i |-> 1, U |-> 1, I |-> 2, l |-> 4, L |-> 8]

\* write_number_with_ubjson_prefix for an integer and for a length.
RECURSIVE UbjsonInteger(_, _, _)
UbjsonInteger(unsigned, w, add_prefix) ==
  LET t == IntegerPrefix(unsigned, w)
      text == dump_integer(w)
  IN (IF add_prefix THEN <<Letter(t)>> ELSE <<>>)
       \o (IF t = "H" THEN UbjsonInteger(TRUE, Word(Len(text)), TRUE) \o text
           ELSE Low(w, PrefixBytes[t]))
UbjsonLength(n) == UbjsonInteger(TRUE, Word(n), TRUE)

ubjson_prefix(val) ==
  CASE Type(val) = "null"         -> "Z"
    [] Type(val) = "boolean"      -> IF Payload(val) THEN "T" ELSE "F"
    [] Type(val) \in Integral     -> IntegerPrefix(Type(val) = "number_unsigned", Payload(val))
    [] Type(val) = "number_float" -> "D"
    [] Type(val) = "string"       -> "S"
    [] Type(val) \in {"array", "binary"} -> "["
    [] Type(val) = "object"       -> "{"
    [] OTHER                      -> "N"

\* The elements have one prefix, which is written once.
SamePrefix(vals, use_type) ==
  use_type /\ vals # <<>> /\ \A i \in DOMAIN vals : ubjson_prefix(vals[i]) = ubjson_prefix(vals[1])

\* The type and the number of elements, where they are written.
ContainerHead(len, type, use_count) ==
  (IF type = "" THEN <<>> ELSE <<Letter("$"), Letter(type)>>)
    \o (IF use_count THEN <<Letter("#")>> \o UbjsonLength(len) ELSE <<>>)

RECURSIVE write_ubjson(_, _, _, _)
write_ubjson(val, use_count, use_type, add_prefix) ==
  LET v == Payload(val)
      vals == Elements(val)
      same == SamePrefix(vals, use_type)
      prefix == IF add_prefix THEN <<Letter(ubjson_prefix(val))>> ELSE <<>>
      head == ContainerHead(Len(vals), IF same THEN ubjson_prefix(vals[1]) ELSE "", use_count)
      close(c) == IF use_count THEN <<>> ELSE <<Letter(c)>>
      element(i) == write_ubjson(vals[i], use_count, use_type, ~same)
  IN CASE Type(val) \in {"null", "boolean"} -> prefix
       [] Type(val) \in Integral -> UbjsonInteger(Type(val) = "number_unsigned", v, add_prefix)
       [] Type(val) = "number_float" -> prefix \o FloatBytes(v, Double)
       [] Type(val) = "string" -> prefix \o UbjsonLength(Len(v)) \o v
       [] Type(val) = "array"  ->
            prefix \o head \o FlattenSeq([i \in DOMAIN vals |-> element(i)]) \o close("]")
       [] Type(val) = "object" ->
            prefix \o head
              \o FlattenSeq([i \in DOMAIN vals |-> UbjsonLength(Len(v[i][1])) \o v[i][1] \o element(i)])
              \o close("}")
       [] Type(val) = "binary" ->
            prefix \o ContainerHead(Len(v[1]), IF use_type /\ v[1] # <<>> THEN "U" ELSE "", use_count)
              \o (IF use_type THEN v[1]
                  ELSE FlattenSeq([i \in DOMAIN v[1] |-> <<Letter("U"), v[1][i]>>]))
              \o close("]")

to_ubjson(val, use_size, use_type) == write_ubjson(val, use_size, use_type, TRUE)

-----------------------------------------------------------------------------
(* BSON.  Numbers are little endian. *)

Int32(n) == Reverse(Low(Word(n), 4))
Header(type, name) == <<type>> \o name \o <<0>>
ArrayNames(n) == [i \in 1 .. n |-> dump_integer(Word(i - 1))]

\* The names and the elements of an object or an array.
Names(val) == IF Type(val) = "object" THEN Keys(val) ELSE ArrayNames(size(val))

Small32(type, w) ==
  IF type = "number_unsigned" THEN FitsUnsigned(w, 4) /\ w[5] < 128 ELSE FitsSigned(w, 4)

calc_bson_scalar_size(val) ==
  CASE Type(val) = "null"         -> 0
    [] Type(val) = "boolean"      -> 1
    [] Type(val) = "number_float" -> 8
    [] Type(val) \in Integral     -> IF Small32(Type(val), Payload(val)) THEN 4 ELSE 8
    [] Type(val) = "string"       -> 4 + Len(Payload(val)) + 1
    [] Type(val) = "binary"       -> 4 + Len(Payload(val)[1]) + 1

\* calc_bson_object_size, calc_bson_array_size and calc_bson_element_size.
RECURSIVE calc_bson_size(_)
calc_bson_size(val) ==
  LET names == Names(val)
      vals == Elements(val)
      of(x) == IF Type(x) \in Structured THEN calc_bson_size(x) ELSE calc_bson_scalar_size(x)
  IN 4 + FoldLeft(LAMBDA n, i : n + 1 + Len(names[i]) + 1 + of(vals[i]), 0,
                  [i \in DOMAIN vals |-> i]) + 1

RECURSIVE write_bson(_)
write_bson(val) ==
  LET names == Names(val)
      vals == Elements(val)
      element(name, x) ==
        LET v == Payload(x)
        IN CASE Type(x) = "object"  -> Header(3, name) \o write_bson(x)
             [] Type(x) = "array"   -> Header(4, name) \o write_bson(x)
             [] Type(x) = "binary"  ->
                  Header(5, name) \o Int32(Len(v[1]))
                    \o <<IF v[2] = NoSubtype THEN 0 ELSE v[2]>> \o v[1]
             [] Type(x) = "boolean" -> Header(8, name) \o <<IF v THEN 1 ELSE 0>>
             [] Type(x) = "number_float" -> Header(1, name) \o Reverse(FloatBytes(v, Double))
             [] Type(x) \in Integral ->
                  IF Small32(Type(x), v) THEN Header(16, name) \o Reverse(Low(v, 4))
                  ELSE Header(18, name) \o Reverse(v)
             [] Type(x) = "string"  -> Header(2, name) \o Int32(Len(v) + 1) \o v \o <<0>>
             [] Type(x) = "null"    -> Header(10, name)
  IN Int32(calc_bson_size(val))
       \o FlattenSeq([i \in DOMAIN vals |-> element(names[i], vals[i])]) \o <<0>>

\* A key with a zero in it, and an integer that int64 does not hold, somewhere in val.
RECURSIVE HasZeroKey(_), HasLargeInteger(_)
HasZeroKey(val) ==
  \/ \E i \in DOMAIN Keys(val) : \E j \in DOMAIN Keys(val)[i] : Keys(val)[i][j] = 0
  \/ \E i \in DOMAIN Elements(val) : HasZeroKey(Elements(val)[i])
HasLargeInteger(val) ==
  \/ Type(val) = "number_unsigned" /\ IsNegative(Payload(val))
  \/ \E i \in DOMAIN Elements(val) : HasLargeInteger(Elements(val)[i])

\* The sizes are calculated, and the keys looked at, before anything is written.
to_bson(val) ==
  CASE Type(val) # "object" -> Throw(317)
    [] Type(val) = "object" /\ HasZeroKey(val) -> Throw(409)
    [] Type(val) = "object" /\ ~HasZeroKey(val) /\ HasLargeInteger(val) -> Throw(407)
    [] OTHER -> <<"bytes", write_bson(val)>>
=============================================================================
