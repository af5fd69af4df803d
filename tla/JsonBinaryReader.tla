-------------------------- MODULE JsonBinaryReader --------------------------
(***************************************************************************)
(* binary_reader of json/json.h: CBOR, MessagePack, UBJSON and BSON.  Like *)
(* the parser, a reader is what it makes of an input: the events that it   *)
(* sends, the number of the error that ends them, and p, how far it has    *)
(* read; current is byte p.  A string or bytes are read as the sequence of *)
(* their bytes.                                                            *)
(***************************************************************************)
EXTENDS JsonParser, JsonFloats

\* The reader gives up without an error of its own.
Silent == -1

Read(x, p) == Outcome(<<x>>, 0, p)
Nothing(p) == Outcome(<<>>, 0, p)
Error(id, p) == Outcome(<<>>, id, p)
Scalar(type, payload, p) == Read(Event("value", <<type, payload>>), p)

\* What More reads after r.
Then(r, More(_)) ==
  LET q == More(r.pos)
  IN IF r.error # 0 THEN r ELSE Outcome(r.events \o q.events, q.error, q.pos)

\* The bytes of r as one value, and as a key.
AsValue(r, type, val) ==
  IF r.error # 0 THEN Error(r.error, r.pos) ELSE Scalar(type, val, r.pos)
AsString(r) == AsValue(r, "string", r.events)
AsKey(r) == IF r.error # 0 THEN Error(r.error, r.pos) ELSE Read(Event("key", r.events), r.pos)

\* get_number for n bytes, and what Use makes of them.
get_number(s, p, n, Use(_)) ==
  IF p + n > Len(s) THEN Error(110, Len(s) + 1) ELSE Use(SubSeq(s, p + 1, p + n))

\* Lengths are words.  One of more than two bytes goes beyond any input, and ends with it.
Times(len) == IF FitsUnsigned(len, 2) THEN Value(len) ELSE 65536

\* get_string and get_binary.
get_string(s, p, len) ==
  IF p + Times(len) > Len(s) THEN Error(110, Len(s) + 1)
  ELSE Outcome(SubSeq(s, p + 1, p + Times(len)), 0, p + Times(len))

\* One after p, len times.
Repeat(p, len, One(_)) ==
  FoldLeft(LAMBDA r, i : Then(r, One), Nothing(p), [i \in 1 .. Times(len) |-> i])

\* std::size_t(-1) as the length of a container: it is not known.
NoLength == Negated(Word(1))
Length(len) == IF len = NoLength THEN Unknown ELSE len

\* A container with what Contents reads.
Container(type, len, p, Contents(_)) ==
  LET start(q) == Read(Event("start_" \o type, Length(len)), q)
      stop(q) == Read(Event("end_" \o type, <<>>), q)
  IN Then(Then(start(p), Contents), stop)

\* Numbers of n bytes that follow.
UnsignedNumber(s, p, n) ==
  get_number(s, p, n, LAMBDA b : Scalar("number_unsigned", Extended(b), p + n))
SignedNumber(s, p, n) ==
  get_number(s, p, n, LAMBDA b : Scalar("number_integer", SignExtended(b), p + n))
FloatNumber(s, p, n) ==
  get_number(s, p, n,
    LAMBDA b : Scalar("number_float",
                      FloatOf(b, CASE n = 2 -> Half [] n = 4 -> Single [] n = 8 -> Double), p + n))

\* The low bytes of a two's complement number are those after n bytes.
Sized(s, p, n, Use(_, _)) == get_number(s, p, n, LAMBDA b : Use(Extended(b), p + n))

-----------------------------------------------------------------------------
(* CBOR.  The initial byte is a major type and 5 bits, of which 0 to 23 are a *)
(* number and 24 to 27 say how many bytes of one follow.                      *)

Major(c) == (c \div 32) * 32
Indefinite == 31
Break == 255

CborNumber(s, p, Use(_, _)) ==
  LET info == s[p] % 32
  IN IF info < 24 THEN Use(Word(info), p) ELSE Sized(s, p, 2 ^ (info - 24), Use)

\* get_cbor_string and get_cbor_binary, by their major types.
RECURSIVE get_cbor_bytes(_, _, _), get_cbor_chunks(_, _, _)
get_cbor_bytes(s, p, major) ==
  LET c == At(s, p)
  IN CASE c = EOF -> Error(110, p)
       [] c # EOF /\ Major(c) = major /\ c % 32 <= 27 ->
            CborNumber(s, p, LAMBDA len, q : get_string(s, q, len))
       [] c = major + Indefinite -> get_cbor_chunks(s, p + 1, major)
       [] OTHER -> Error(113, p)
get_cbor_chunks(s, p, major) ==
  IF At(s, p) = Break THEN Nothing(p)
  ELSE Then(get_cbor_bytes(s, p, major), LAMBDA q : get_cbor_chunks(s, q + 1, major))

\* With ignore, the tags with nothing after them and those with a number are skipped.
Tags == (198 .. 212) \cup (216 .. 219)

RECURSIVE parse_cbor(_, _, _), cbor_member(_, _, _), cbor_rest(_, _, _, _)

parse_cbor(s, p, ignore) ==
  LET c == At(s, p)
      sized == c % 32 <= 27
      element(q) == parse_cbor(s, q + 1, ignore)
      member(q) == cbor_member(s, q + 1, ignore)
      elements(len, q) ==
        Container("array", len, q, LAMBDA r : IF len = NoLength THEN cbor_rest(s, r + 1, ignore, FALSE)
                                              ELSE Repeat(r, len, element))
      members(len, q) ==
        Container("object", len, q, LAMBDA r : IF len = NoLength THEN cbor_rest(s, r + 1, ignore, TRUE)
                                               ELSE Repeat(r, len, member))
      bytes == get_cbor_bytes(s, p, 64)
  IN CASE c = EOF -> Error(110, p)
       [] c \in 0 .. 27 ->
            CborNumber(s, p, LAMBDA w, q : Scalar("number_unsigned", w, q))
       [] c \in 32 .. 59 ->
            CborNumber(s, p, LAMBDA w, q :
              Scalar("number_integer", [i \in 1 .. 8 |-> 255 - w[i]], q))
       [] c \in 64 .. 91 \cup {95} -> AsValue(bytes, "binary", <<bytes.events, NoSubtype>>)
       [] c \in 96 .. 123 \cup {127} -> AsString(get_cbor_bytes(s, p, 96))
       [] c \in 128 .. 155 -> CborNumber(s, p, elements)
       [] c = 159          -> elements(NoLength, p)
       [] c \in 160 .. 187 -> CborNumber(s, p, members)
       [] c = 191          -> members(NoLength, p)
       [] c \in Tags /\ ignore ->
            LET number == IF c < 216 THEN 0 ELSE 2 ^ (c - 216)
            IN get_number(s, p, number, LAMBDA b : parse_cbor(s, p + number + 1, ignore))
       [] c \in {244, 245} -> Scalar("boolean", c = 245, p)
       [] c = 246          -> Scalar("null", <<>>, p)
       [] c \in 249 .. 251 -> FloatNumber(s, p, 2 ^ (c - 248))
       [] OTHER -> Error(112, p)

cbor_member(s, p, ignore) ==
  Then(AsKey(get_cbor_bytes(s, p, 96)), LAMBDA q : parse_cbor(s, q + 1, ignore))

\* To the end of a container of indefinite length.
cbor_rest(s, p, ignore, object) ==
  IF At(s, p) = Break THEN Nothing(p)
  ELSE Then(IF object THEN cbor_member(s, p, ignore) ELSE parse_cbor(s, p, ignore),
            LAMBDA q : cbor_rest(s, q + 1, ignore, object))

-----------------------------------------------------------------------------
(* MessagePack. *)

get_msgpack_string(s, p) ==
  LET c == At(s, p)
      bytes(len, q) == get_string(s, q, len)
  IN CASE c = EOF           -> Error(110, p)
       [] c \in 160 .. 191  -> bytes(Word(c % 32), p)
       [] c \in 217 .. 219  -> Sized(s, p, 2 ^ (c - 217), bytes)
       [] OTHER             -> Error(113, p)

\* The length comes before the subtype.
get_msgpack_binary(s, p) ==
  LET c == At(s, p)
      Bytes(len, q, subtype) ==
        LET r == get_string(s, q, len) IN AsValue(r, "binary", <<r.events, subtype>>)
      Extension(len, q) == get_number(s, q, 1, LAMBDA b : Bytes(len, q + 1, b[1]))
  IN CASE c \in 196 .. 198 -> Sized(s, p, 2 ^ (c - 196), LAMBDA len, q : Bytes(len, q, NoSubtype))
       [] c \in 199 .. 201 -> Sized(s, p, 2 ^ (c - 199), Extension)
       [] c \in 212 .. 216 -> Extension(Word(2 ^ (c - 212)), p)

RECURSIVE parse_msgpack(_, _)
parse_msgpack(s, p) ==
  LET c == At(s, p)
      element(q) == parse_msgpack(s, q + 1)
      member(q) == Then(AsKey(get_msgpack_string(s, q + 1)), element)
      elements(len, q) == Container("array", len, q, LAMBDA r : Repeat(r, len, element))
      members(len, q) == Container("object", len, q, LAMBDA r : Repeat(r, len, member))
  IN CASE c = EOF           -> Error(110, p)
       [] c \in 0 .. 127    -> Scalar("number_unsigned", Word(c), p)
       [] c \in 128 .. 143  -> members(Word(c % 16), p)
       [] c \in 144 .. 159  -> elements(Word(c % 16), p)
       [] c \in 160 .. 191 \cup 217 .. 219 -> AsString(get_msgpack_string(s, p))
       [] c = 192           -> Scalar("null", <<>>, p)
       [] c \in {194, 195}  -> Scalar("boolean", c = 195, p)
       [] c \in 196 .. 201 \cup 212 .. 216 -> get_msgpack_binary(s, p)
       [] c \in {202, 203}  -> FloatNumber(s, p, 4 * (c - 201))
       [] c \in 204 .. 207  -> UnsignedNumber(s, p, 2 ^ (c - 204))
       [] c \in 208 .. 211  -> SignedNumber(s, p, 2 ^ (c - 208))
       [] c \in {220, 221}  -> Sized(s, p, 2 * (c - 219), elements)
       [] c \in {222, 223}  -> Sized(s, p, 2 * (c - 221), members)
       [] c \in 224 .. 255  -> Scalar("number_integer", SignExtended(<<c>>), p)
       [] OTHER             -> Error(112, p)

-----------------------------------------------------------------------------
(* UBJSON. *)

\* Integer types: prefix, bytes and sign.
UbjsonBytes == (85 :> 1) @@ (105 :> 1) @@ (73 :> 2) @@ (108 :> 4) @@ (76 :> 8)
UbjsonWord(c, b) == IF c = 85 THEN Extended(b) ELSE SignExtended(b)

\* The number after p of the type that current is.
UbjsonSized(s, p, Use(_, _)) ==
  LET c == At(s, p)
      n == UbjsonBytes[c]
  IN IF c \in DOMAIN UbjsonBytes
     THEN get_number(s, p, n, LAMBDA b : Use(UbjsonWord(c, b), p + n))
     ELSE Error(113, p)

RECURSIVE get_ignore_noop(_, _)
get_ignore_noop(s, p) == IF At(s, p + 1) = 78 THEN get_ignore_noop(s, p + 1) ELSE p + 1

\* A negative length is that of an empty string.
get_ubjson_string(s, p) ==
  IF At(s, p) = EOF THEN Error(110, p)
  ELSE UbjsonSized(s, p, LAMBDA len, q :
         IF IsNegative(len) THEN Nothing(q) ELSE get_string(s, q, len))

\* The type of a container or 0, then its length.  Use has the length, the type and p.
get_ubjson_size_type(s, p, Use(_, _, _)) ==
  LET at == get_ignore_noop(s, p)
      type == At(s, at + 1)
      hash == get_ignore_noop(s, at + 1)
      sized(q, t) == UbjsonSized(s, get_ignore_noop(s, q), LAMBDA len, r : Use(len, t, r))
  IN CASE At(s, at) = 36 /\ type = EOF            -> Error(110, at + 1)
       [] At(s, at) = 36 /\ type # EOF /\ At(s, hash) = EOF -> Error(110, hash)
       [] At(s, at) = 36 /\ type # EOF /\ At(s, hash) \notin {35, EOF} -> Error(112, hash)
       [] At(s, at) = 36 /\ At(s, hash) = 35      -> sized(hash, type)
       [] At(s, at) = 35                          -> sized(at, 0)
       [] OTHER                                   -> Use(NoLength, 0, at)

\* A text that is one number.
NumberIn(r, t) ==
  CASE r.error # 0 -> Error(r.error, r.pos)
    [] r.error = 0 /\ t.token \in {"value_integer", "value_unsigned", "value_float"}
         /\ scan(r.events, t.pos, FALSE).token = "end_of_input" ->
         AsValue(r, ValueOf(t)[1], t.value)
    [] OTHER -> Error(115, r.pos)
HighPrecision(r) == NumberIn(r, scan(r.events, 0, FALSE))

RECURSIVE get_ubjson_value(_, _, _), ubjson_elements(_, _), ubjson_members(_, _)

\* A value with a prefix, which is at or before p.
get_ubjson_value(s, p, prefix) ==
  LET value(q) == LET r == get_ignore_noop(s, q) IN get_ubjson_value(s, r, At(s, r))
      key(q) == AsKey(get_ubjson_string(s, q + 1))
      array(len, t, q) ==
        Container("array", len, q, LAMBDA r :
          CASE len = NoLength            -> ubjson_elements(s, r)
            [] len # NoLength /\ t = 78  -> Nothing(r)
            [] len # NoLength /\ t = 0   -> Repeat(r, len, value)
            [] OTHER                 -> Repeat(r, len, LAMBDA i : get_ubjson_value(s, i, t)))
      object(len, t, q) ==
        Container("object", len, q, LAMBDA r :
          CASE len = NoLength            -> ubjson_members(s, r)
            [] len # NoLength /\ t = 0   -> Repeat(r, len, LAMBDA i : Then(key(i), value))
            [] OTHER                 ->
                 Repeat(r, len, LAMBDA i : Then(key(i), LAMBDA j : get_ubjson_value(s, j, t))))
  IN CASE prefix = EOF        -> Error(110, p)
       [] prefix \in {84, 70} -> Scalar("boolean", prefix = 84, p)
       [] prefix = 90         -> Scalar("null", <<>>, p)
       [] prefix = 85         -> UnsignedNumber(s, p, 1)
       [] prefix \in DOMAIN UbjsonBytes \ {85} -> SignedNumber(s, p, UbjsonBytes[prefix])
       [] prefix = 100        -> FloatNumber(s, p, 4)
       [] prefix = 68         -> FloatNumber(s, p, 8)
       [] prefix = 72         ->
            HighPrecision(UbjsonSized(s, get_ignore_noop(s, p), LAMBDA len, q : get_string(s, q, len)))
       [] prefix = 67         ->
            get_number(s, p, 1, LAMBDA b : IF b[1] > 127 THEN Error(113, p + 1)
                                           ELSE Scalar("string", b, p + 1))
       [] prefix = 83         -> AsString(get_ubjson_string(s, p + 1))
       [] prefix = 91         -> get_ubjson_size_type(s, p, array)
       [] prefix = 123        -> get_ubjson_size_type(s, p, object)
       [] OTHER               -> Error(112, p)

\* Containers of unknown length: current begins the next element, or ends them.
ubjson_elements(s, p) ==
  IF At(s, p) = 93 THEN Nothing(p)
  ELSE Then(get_ubjson_value(s, p, At(s, p)), LAMBDA q : ubjson_elements(s, get_ignore_noop(s, q)))
ubjson_members(s, p) ==
  LET value(q) == LET r == get_ignore_noop(s, q) IN get_ubjson_value(s, r, At(s, r))
  IN IF At(s, p) = 125 THEN Nothing(p)
     ELSE Then(Then(AsKey(get_ubjson_string(s, p)), value),
               LAMBDA q : ubjson_members(s, get_ignore_noop(s, q)))

parse_ubjson(s, p) ==
  LET q == get_ignore_noop(s, p) IN get_ubjson_value(s, q, At(s, q))

-----------------------------------------------------------------------------
(* BSON.  Numbers are little endian; the sizes of documents are not looked at. *)

Little(b) == Reverse(b)

RECURSIVE get_bson_cstr(_, _)
get_bson_cstr(s, p) ==
  CASE At(s, p + 1) = EOF -> Error(110, p + 1)
    [] At(s, p + 1) = 0   -> Nothing(p + 1)
    [] OTHER -> Then(Read(s[p + 1], p + 1), LAMBDA q : get_bson_cstr(s, q))

\* A signed number of n bytes after p.
BsonNumber(s, p, n, Use(_, _)) ==
  get_number(s, p, n, LAMBDA b : Use(SignExtended(Little(b)), p + n))

\* The end of the input in place of the terminator is no error of its own.
get_bson_string(s, p, len) ==
  IF IsNegative(len) \/ len = ZeroWord THEN Error(112, p)
  ELSE Then(get_string(s, p, Word(Times(len) - 1)),
            LAMBDA q : IF At(s, q + 1) = EOF THEN Error(Silent, q + 1) ELSE Nothing(q + 1))

get_bson_binary(s, p, len) ==
  LET bytes(subtype) ==
        LET r == get_string(s, p + 1, len) IN AsValue(r, "binary", <<r.events, subtype>>)
  IN IF IsNegative(len) THEN Error(112, p) ELSE get_number(s, p, 1, LAMBDA b : bytes(b[1]))

RECURSIVE parse_bson_document(_, _, _), parse_bson_element_list(_, _, _)

\* An object or an array after p.
parse_bson_document(s, p, type) ==
  BsonNumber(s, p, 4, LAMBDA document_size, q :
    Container(type, NoLength, q, LAMBDA r : parse_bson_element_list(s, r, type = "array")))

parse_bson_element(s, p, element_type) ==
  CASE element_type = 1  ->
         get_number(s, p, 8, LAMBDA b : Scalar("number_float", FloatOf(Little(b), Double), p + 8))
    [] element_type = 2  -> BsonNumber(s, p, 4, LAMBDA len, q : AsString(get_bson_string(s, q, len)))
    [] element_type = 3  -> parse_bson_document(s, p, "object")
    [] element_type = 4  -> parse_bson_document(s, p, "array")
    [] element_type = 5  -> BsonNumber(s, p, 4, LAMBDA len, q : get_bson_binary(s, q, len))
    [] element_type = 8  -> Scalar("boolean", At(s, p + 1) # 0, p + 1)
    [] element_type = 10 -> Scalar("null", <<>>, p)
    [] element_type = 16 -> BsonNumber(s, p, 4, LAMBDA w, q : Scalar("number_integer", w, q))
    [] element_type = 18 -> BsonNumber(s, p, 8, LAMBDA w, q : Scalar("number_integer", w, q))
    [] OTHER             -> Error(114, p)

\* Until a zero in place of a type.
parse_bson_element_list(s, p, is_array) ==
  LET type == At(s, p + 1)
      name == get_bson_cstr(s, p + 1)
      key == IF is_array /\ name.error = 0 THEN Nothing(name.pos) ELSE AsKey(name)
  IN CASE type = 0   -> Nothing(p + 1)
       [] type = EOF -> Error(110, p + 1)
       [] OTHER ->
            Then(Then(key, LAMBDA q : parse_bson_element(s, q, type)),
                 LAMBDA q : parse_bson_element_list(s, q, is_array))

-----------------------------------------------------------------------------
(* sax_parse and from_cbor, from_msgpack, from_ubjson and from_bson. *)

\* With strict, nothing may follow, but what UBJSON skips.
BinaryEnd(s, r, strict, noop) ==
  LET q == IF noop THEN get_ignore_noop(s, r.pos) ELSE r.pos + 1
  IN IF r.error = 0 /\ strict /\ At(s, q) # EOF THEN Outcome(r.events, 110, q) ELSE r

FromBinary(r, allow_exceptions) ==
  DomValue(r, allow_exceptions /\ r.error # Silent)

from_cbor(s, strict, allow_exceptions, ignore_tags) ==
  FromBinary(BinaryEnd(s, parse_cbor(s, 1, ignore_tags), strict, FALSE), allow_exceptions)
from_msgpack(s, strict, allow_exceptions) ==
  FromBinary(BinaryEnd(s, parse_msgpack(s, 1), strict, FALSE), allow_exceptions)
from_ubjson(s, strict, allow_exceptions) ==
  FromBinary(BinaryEnd(s, parse_ubjson(s, 0), strict, TRUE), allow_exceptions)
from_bson(s, strict, allow_exceptions) ==
  FromBinary(BinaryEnd(s, parse_bson_document(s, 0, "object"), strict, FALSE), allow_exceptions)
=============================================================================
