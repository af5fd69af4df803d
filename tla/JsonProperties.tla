--------------------------- MODULE JsonProperties ---------------------------
(***************************************************************************)
(* What json/json.h and DataParseUtil promise of the values and the texts  *)
(* of JsonDocument.  Each property relates two or more operations that are *)
(* written independently of each other.                                    *)
(***************************************************************************)
EXTENDS JsonDocument, JsonGrammar

CONSTANTS
  Compared,       \* values that are compared with doc and with each other
  Rejected        \* events and depths at which a parser callback returns false

Document == doc # NoDocument
Composing == more # NoMore

Same(x, y) == Equal(x, y)

Unsigned(n) == <<"number_unsigned", Word(n)>>

\* What becomes of bytes in a format: in text an object, in UBJSON an array; CBOR
\* keeps no subtype, BSON always has one.
StoredBytes(b, format) ==
  LET octets == Array([i \in DOMAIN b[1] |-> Unsigned(b[1][i])])
  IN CASE format = "text"   ->
            Object(<<<<Text("bytes"), octets>>,
                     <<Text("subtype"), IF b[2] = NoSubtype THEN Null ELSE Unsigned(b[2])>>>>)
       [] format = "ubjson" -> octets
       [] format = "cbor"   -> <<"binary", <<b[1], NoSubtype>>>>
       [] format = "bson"   -> <<"binary", <<b[1], IF b[2] = NoSubtype THEN 0 ELSE b[2]>>>>
       [] OTHER             -> <<"binary", b>>

\* What is expected back.  A text has null for infinity.
RECURSIVE Stored(_, _)
Stored(val, format) ==
  CASE Type(val) = "array"  -> Array([i \in DOMAIN Payload(val) |-> Stored(Payload(val)[i], format)])
    [] Type(val) = "object" ->
         Object([i \in DOMAIN Payload(val) |-> <<Keys(val)[i], Stored(Elements(val)[i], format)>>])
    [] Type(val) = "binary" -> StoredBytes(Payload(val), format)
    [] Type(val) = "number_float" /\ format = "text" /\ ~IsFinite(Payload(val)) -> Null
    [] OTHER -> val

RECURSIVE Leaves(_)
Leaves(val) ==
  IF Type(val) \in Structured
  THEN UNION {Leaves(Elements(val)[i]) : i \in DOMAIN Elements(val)} ELSE {val}

RECURSIVE Strings(_)
Strings(val) ==
  UNION {Strings(Elements(val)[i]) : i \in DOMAIN Elements(val)} \cup ToSet(Keys(val))
    \cup (IF Type(val) = "string" THEN {Payload(val)} ELSE {})

-----------------------------------------------------------------------------
(* Writing and reading. *)

Layouts == {<<-1, 32, FALSE>>, <<-1, 32, TRUE>>, <<0, 32, FALSE>>, <<1, 9, TRUE>>}

\* The bytes of s that are characters by themselves.
Ascii(s) == SelectSeq(s, LAMBDA b : b < 128)

\* The code points of UTF-8, and the units of UTF-16.
RECURSIVE CodePoints(_)
CodePoints(s) ==
  LET n == CHOOSE k \in 1 .. 4 : k <= Len(s) /\ IsUtf8(From(s, 1, k))
  IN IF s = <<>> THEN <<>> ELSE <<CodePoint(From(s, 1, n))>> \o CodePoints(From(s, n + 1, Len(s)))
Units(cp) ==
  IF cp < 65536 THEN <<cp>> ELSE <<55232 + cp \div 1024, 56320 + (cp % 1024)>>

\* A wide string is read as the same bytes.
ReadWide(s) ==
  LET cps == CodePoints(s)
  IN /\ FlattenSeq([i \in DOMAIN cps |-> fill_buffer32(cps[i])]) = s
     /\ fill_buffer16(FlattenSeq([i \in DOMAIN cps |-> Units(cps[i])])) = s

AllUtf8(val) == \A s \in Strings(val) : AreUtf8(s)
WithoutMarks(val) == \A s \in Strings(val) : \A i \in DOMAIN s : s[i] \notin Open \cup Close \cup {44}

\* t is what dump wrote, or threw.
Written(val, t, ascii) ==
  IF AllUtf8(val)
  THEN /\ Same(parse(t, TRUE, FALSE), Stored(val, "text"))
       /\ ascii => t = Ascii(t)
       /\ WithoutMarks(val) => Same(parseData(formatJson(t)), Stored(val, "text"))
  ELSE t = Throw(316)

\* new is what was read of it, when errors were ignored.
Repaired(val, new) ==
  IF AllUtf8(val) THEN Same(new, Stored(val, "text"))
  ELSE /\ AllUtf8(new)
       /\ Type(val) = "string" => Ascii(Payload(new)) = Ascii(Payload(val))

\* Text that dump writes in any layout is accepted, and parse makes the same value of
\* it, and formatJson changes nothing of that unless it meets a bracket or comma in a
\* string, and an input adapter for UTF-16 or UTF-32 nothing either.  Invalid UTF-8 throws, or
\* is replaced or left out, in the second and third case without a valid byte being lost
\* (serializer::dump, dump_escaped, parser).
TextRestored ==
  Document =>
    /\ \A l \in Layouts : Written(doc, dump(doc, l[1], l[2], l[3], "strict"), l[3])
    /\ \A handler \in {"replace", "ignore"} :
         Repaired(doc, parse(dump(doc, -1, 32, FALSE, handler), TRUE, FALSE))
    /\ AllUtf8(doc) => ReadWide(dump(doc, -1, 32, FALSE, "strict"))

\* Every binary format gives back the value that was written in it, whatever widths and
\* prefixes the writer chose for its numbers and lengths; a BSON document is as long as
\* its header says, which is calculated before anything is written.
BsonRestored(val, bson) ==
  Thrown(bson) \/ /\ Same(from_bson(bson[2], TRUE, TRUE), Stored(val, "bson"))
                  /\ Value(Reverse(SubSeq(bson[2], 1, 2))) = Len(bson[2])
BinaryRestored ==
  Document =>
    /\ Same(from_cbor(to_cbor(doc), TRUE, TRUE, TRUE), Stored(doc, "cbor"))
    /\ Same(from_msgpack(to_msgpack(doc), TRUE, TRUE), doc)
    /\ \A c \in {<<FALSE, FALSE>>, <<TRUE, FALSE>>, <<TRUE, TRUE>>} :
         Same(from_ubjson(to_ubjson(doc, c[1], c[2]), TRUE, TRUE), Stored(doc, "ubjson"))
    /\ BsonRestored(doc, to_bson(doc))

-----------------------------------------------------------------------------
(* Patches and pointers. *)

\* The patch that diff gives makes one value of the other, in both directions; a merge
\* patch that is applied again changes nothing (basic_json::diff, patch, merge_patch).
PatchRestores ==
  Document =>
    \A other \in Others :
      /\ Same(patch(doc, Diff(doc, other)), other)
      /\ Same(patch(other, Diff(other, doc)), doc)
      /\ Same(merge_patch(merge_patch(doc, other), other), merge_patch(doc, other))

RECURSIVE Rebuildable(_)
Rebuildable(val) ==
  /\ Type(val) \in Structured => ~empty(val)
  /\ <<48>> \notin ToSet(Keys(val))
  /\ \A i \in DOMAIN Elements(val) : Rebuildable(Elements(val)[i])

\* The elements of val one level down by the iterators, forwards and backwards.
Walked(val) ==
  [i \in 1 .. Len(Elements(val)) |-> Dereferenced(val, Advanced(begin(val), i - 1))]
WalkedBack(val) ==
  [i \in 1 .. Len(Elements(val)) |-> Dereferenced(val, Reversed(Advanced(end(val), 1 - i)))]

\* ptr is that of a leaf in flat, here what it leads to.
Resolves(val, ptr, leaf, here) ==
  LET up == parent_pointer(ptr)
  IN /\ Same(here, leaf) \/ (Type(here) \in Structured /\ empty(here) /\ leaf = Null)
     /\ get_unchecked_const(val, ptr) = here /\ ContainsPointer(val, ptr)
     /\ ptr # <<>> => /\ PushToken(up, Last(ptr)) = ptr
                      /\ Same(get_checked(get_checked(val, up), <<Last(ptr)>>), here)
     /\ get_unchecked(val, ptr) = [val |-> val, ptr |-> ptr]
     /\ Type(val) = "object" => Same(PointerValueOr(val, ptr, Discarded), here)
LeafResolves(val, key, ptr, leaf) ==
  to_string(ptr) = key /\ Resolves(val, ptr, leaf, get_checked(val, ptr))
FlatResolves(val, flat) ==
  /\ \A i \in DOMAIN Payload(flat) :
       LeafResolves(val, Keys(flat)[i], split(Keys(flat)[i])[2], Elements(flat)[i])
  /\ Rebuildable(val) => Same(unflatten(flat), val)

\* All ways to an element lead to the same one: the pointers that flatten writes,
\* whatever characters are in the keys, resolve in doc to the leaves of doc, for at,
\* operator[], contains and value, and unflatten builds doc of them again; iterators
\* pass the elements that at and find give.  Values that flatten loses are left out:
\* empty arrays and objects, and objects with the key 0, which unflatten takes for arrays.
PointersResolve ==
  Document =>
    /\ FlatResolves(doc, flatten(doc))
    /\ Type(doc) \in Structured =>
         /\ Walked(doc) = Elements(doc) /\ WalkedBack(doc) = Reverse(Elements(doc))
         /\ size(doc) = end(doc).m_it - begin(doc).m_it
         /\ SameIterator(Advanced(begin(doc), size(doc)), end(doc))
    /\ Type(doc) = "array" =>
         \A i \in 1 .. size(doc) :
           LET it == Offset(doc, begin(doc), i - 1)
           IN /\ get_checked(doc, PushIndex(<<>>, i - 1)) = Subscript(doc, begin(doc), i - 1)
              /\ Distance(doc, it, begin(doc)) = i - 1
              /\ IteratorLess(doc, it, end(doc)) /\ Subscript(doc, it, 0) = AtIndex(doc, i - 1)
    /\ Type(doc) = "object" =>
         \A i \in DOMAIN Payload(doc) :
           LET it == find(doc, Keys(doc)[i])
           IN KeyOf(doc, it) = Keys(doc)[i]
              /\ Dereferenced(doc, it) = AtKey(doc, Keys(doc)[i])

-----------------------------------------------------------------------------
(* Comparison. *)

Wraps(val) == \E x \in Leaves(val) : Type(x) = "number_unsigned" /\ IsNegative(Payload(x))

\* The pairs of Compared in order, and what is below, beside and above a value there.
Ordered == {p \in Compared \X Compared : Less(p[1], p[2])}

Ranked(below, same, above) ==
  /\ below \cap above = {}
  /\ \A y \in below, z \in above : <<y, z>> \in Ordered
  /\ \A y, z \in Compared :
       /\ <<y, z>> \in Ordered => (y \in above => z \in above) /\ (z \in below => y \in below)
       /\ y \in same /\ <<y, z>> \notin Ordered /\ <<z, y>> \notin Ordered => z \in same

RankedAmong(below, above) == Ranked(below, Compared \ (below \cup above), above)

\* operator< is an order that sorting can rely on, across all types: it is asymmetric,
\* it is transitive and so is being neither less nor greater, and values that are equal
\* are neither.  Not a number and the unsigned integers that wrap are left out: the
\* largest equals -1, which is less than 1, which is less than the largest.
OrderIsTotal ==
  Document /\ ~Wraps(doc) =>
    /\ RankedAmong({y \in Compared : Less(y, doc)}, {y \in Compared : Less(doc, y)})
    /\ \A y \in Compared :
         /\ Equal(doc, y) <=> Equal(y, doc)
         /\ Equal(doc, y) => ~Less(doc, y) /\ LessEqual(doc, y) /\ GreaterEqual(doc, y)
         /\ Greater(doc, y) <=> Less(y, doc)

-----------------------------------------------------------------------------
(* Texts. *)

\* val, the elements of which are at depth d, without what a callback rejects.
RECURSIVE Filtered(_, _, _)
Filtered(val, d, rejects) ==
  LET starts(x) == IF Type(x) = "object" THEN "object_start" ELSE "array_start"
      ends(x) == IF Type(x) = "object" THEN "object_end" ELSE "array_end"
      kept(x) == IF Type(x) \in Structured
                 THEN {<<starts(x), d>>, <<ends(x), d>>} \cap rejects = {}
                 ELSE <<"value", d>> \notin rejects
      below(x) == Filtered(x, d + 1, rejects)
  IN CASE Type(val) = "array"  ->
            Array([i \in DOMAIN SelectSeq(Payload(val), kept) |-> below(SelectSeq(Payload(val), kept)[i])])
       [] Type(val) = "object" ->
            LET ms == IF <<"key", d>> \in rejects THEN <<>>
                      ELSE SelectSeq(Payload(val), LAMBDA m : kept(m[2]))
            IN Object([i \in DOMAIN ms |-> <<ms[i][1], below(ms[i][2])>>])
       [] OTHER -> val

\* val is what parse makes of s.
ReadAlike(s, val) ==
  /\ Same(parse(s, FALSE, FALSE), val) /\ Same(ParsePrefix(s), val) /\ Same(parseData(s), val)
  /\ \A rejects \in Rejected \cup {{}} :
       Same(ParseCallback(s, rejects), Filtered(val, 1, rejects))

\* The parser accepts exactly the texts of the grammar, with and without comments,
\* wherever a text is cut off.  accept, parse with and without exceptions, operator>>
\* and parseData agree on it; a callback that rejects members by their keys, or objects,
\* or nothing, gets the value without them (json::parser, parser_callback_t).
AcceptsGrammar ==
  Composing =>
    /\ accept(text, FALSE) = IsText(text)
    /\ accept(text, TRUE) = IsCommentedText(text)
    /\ IF IsText(text) THEN ReadAlike(text, parse(text, TRUE, FALSE))
       ELSE /\ parse(text, TRUE, FALSE) = Throw(101) /\ parse(text, FALSE, FALSE) = Discarded
            /\ ParseCallback(text, {}) = Throw(101)

-----------------------------------------------------------------------------
(* DataParseUtil. *)

\* get<T> for a T of each kind.
TypedGet(val) ==
  [nothing |-> GetNull(val), number |-> GetFloat(val), truth |-> GetBoolean(val),
   string |-> GetString(val), bytes |-> GetBinary(val), array |-> GetArray(val),
   object |-> GetObject(val)]

\* The getters for a key of obj, of which val is the member; sent is obj after a text.
MemberAgrees(obj, sent, key, val) ==
  LET integral == Type(val) \in Integral
  IN /\ integral => /\ getLongLong(obj, key) = Payload(val)
                    /\ getLong(obj, key) = getInt(obj, key)
                    /\ FitsSigned(Payload(val), 4) => SignExtended(getInt(obj, key)) = Payload(val)
     /\ getUnsignedInt(obj, key) # Zeros(4) =>
          Type(val) = "number_unsigned" /\ getInt(obj, key) = getUnsignedInt(obj, key)
     /\ ~integral => getInt(obj, key) = Zeros(4)
     /\ Type(val) \notin Numeric => getLongLong(obj, key) = Zeros(8)
     /\ getInt(sent, key) = getInt(obj, key)
     /\ getLongLong(sent, key) = getLongLong(obj, key)
     /\ ~IsNegative(getLongLong(obj, key)) \/ Type(val) = "number_unsigned" =>
          getUnsignedInt(sent, key) = getInt(obj, key)
     /\ getDouble(obj, key) # FloatZero => Type(val) = "number_float"
     /\ Thrown(getBool(obj, key, TRUE)) <=> Type(val) \notin {"null", "boolean"}
     /\ Thrown(getString(obj, key)) <=> Type(val) \notin {"null", "string"}
     /\ Same(parseData(getData(obj, key)), Stored(val, "text"))
     /\ Cardinality({t \in DOMAIN TypedGet(val) : ~Thrown(TypedGet(val)[t])}) = 1
     /\ {t \in Primitive \cup Structured : ~Thrown(GetRef(val, t))}
          = {Type(val)} \cup IF integral THEN {"number_integer"} ELSE {}

\* t is the text of obj.
SentAgrees(obj, t) ==
  /\ \A key \in KeyNames : MemberAgrees(obj, parseData(t), key, ValueOr(obj, key, Null))
  /\ convertMap(t) =
       IF \A i \in DOMAIN Payload(obj) : Type(Elements(obj)[i]) = "string"
       THEN <<"map", [i \in DOMAIN Payload(obj) |-> <<Keys(obj)[i], Payload(Elements(obj)[i])>>]>>
       ELSE Throw(302)

\* The getters never make up a number: what getInt, getUnsignedInt, getLong and
\* getLongLong return is the member when that fits, and 0 for what is no number; they
\* return the same for doc and for doc sent as a text, but that getUnsignedInt does not
\* see an integer with a sign before.  Only getBool and getString throw, for members of
\* another type.  getData and convertMap give members that can be parsed again; get<T>
\* converts a member to one kind of T only, and all numbers to all numbers.
GettersAgree ==
  Document /\ Type(doc) = "object" /\ AllUtf8(doc) =>
    SentAgrees(doc, dump(doc, -1, 32, FALSE, "strict"))
=============================================================================
