------------------------------ MODULE JsonValue -----------------------------
(***************************************************************************)
(* Class basic_json of json/json.h: a value is <<type, payload>>.          *)
(* An object's payload is its members <<key, value>> in the order of the   *)
(* keys, as std::map keeps them; a string is a sequence of bytes; integers *)
(* and floating-point numbers are those of JsonWords and JsonLexer; a      *)
(* binary value is <<bytes, subtype>>.  An operation gives the value that  *)
(* it leaves *this with, or reads, or what it throws.  Memory is left out. *)
(***************************************************************************)
EXTENDS JsonLexer

NoSubtype == -1

\* An exception, by the number in its message.
Throw(id) == <<"throws", id>>
Thrown(val) == val[1] = "throws"

Type(val) == val[1]
Payload(val) == val[2]

Null == <<"null", <<>>>>
Discarded == <<"discarded", <<>>>>
Str(s) == <<"string", s>>
Array(s) == <<"array", s>>
Object(members) == <<"object", members>>

FloatZero == <<FALSE, <<>>, 0>>
IsFinite(x) == ~IsInfinite(x) /\ ~IsNaN(x)

\* The default value of a type.
json_value(t) ==
  CASE t = "boolean"      -> <<t, FALSE>>
    [] t = "number_float" -> <<t, FloatZero>>
    [] t = "binary"       -> <<t, <<<<>>, NoSubtype>>>>
    [] t \in {"number_integer", "number_unsigned"} -> <<t, ZeroWord>>
    [] OTHER              -> <<t, <<>>>>

Integral == {"number_integer", "number_unsigned"}
Numeric == Integral \cup {"number_float"}
Primitive == Numeric \cup {"null", "string", "boolean", "binary"}
Structured == {"array", "object"}

-----------------------------------------------------------------------------
(* Members of objects. *)

\* std::string's operator<.
KeyLess(s, t) ==
  \E i \in 1 .. Len(t) : /\ \A j \in 1 .. i - 1 : j \in DOMAIN s /\ s[j] = t[j]
                         /\ i = Len(s) + 1 \/ (i \in DOMAIN s /\ s[i] < t[i])

Members(val) == IF Type(val) = "object" THEN Payload(val) ELSE <<>>
Keys(val) ==
  IF Type(val) = "object" THEN [i \in DOMAIN Payload(val) |-> Payload(val)[i][1]] ELSE <<>>
Elements(val) ==
  CASE Type(val) = "object" -> [i \in DOMAIN Payload(val) |-> Payload(val)[i][2]]
    [] Type(val) = "array"  -> Payload(val)
    [] OTHER                -> <<>>

\* The place of a key, or 0.
Place(members, key) == SelectInSeq(members, LAMBDA m : m[1] = key)

\* std::map's emplace and insert keep a member that is there; operator[] with an
\* assignment replaces its value.
Emplaced(members, key, val) ==
  IF Place(members, key) # 0 THEN members
  ELSE SelectSeq(members, LAMBDA m : KeyLess(m[1], key)) \o <<<<key, val>>>>
         \o SelectSeq(members, LAMBDA m : KeyLess(key, m[1]))

Assigned(members, key, val) ==
  IF Place(members, key) = 0 THEN Emplaced(members, key, val)
  ELSE [members EXCEPT ![Place(members, key)] = <<key, val>>]

-----------------------------------------------------------------------------
(* Iterators: the container, "this" or another, and a place. *)

PrimitiveBegin == 0
PrimitiveEnd == 1

set_begin(val) == IF Type(val) = "null" THEN PrimitiveEnd ELSE PrimitiveBegin
set_end(val) == IF Type(val) \in Structured THEN Len(Payload(val)) ELSE PrimitiveEnd
Iterator(object, it) == [m_object |-> object, m_it |-> it]
begin(val) == Iterator("this", set_begin(val))
end(val) == Iterator("this", set_end(val))

Advanced(it, n) == [it EXCEPT !.m_it = @ + n]
Offset(val, it, n) == IF Type(val) = "object" THEN Throw(209) ELSE Advanced(it, n)
Distance(val, it, other) == IF Type(val) = "object" THEN Throw(209) ELSE it.m_it - other.m_it

Dereferenced(val, it) ==
  CASE Type(val) \in Structured -> Elements(val)[it.m_it + 1]
    [] Type(val) \notin Structured \cup {"null"} /\ it.m_it = PrimitiveBegin -> val
    [] OTHER -> Throw(214)
Subscript(val, it, n) ==
  CASE Type(val) = "object" -> Throw(208)
    [] Type(val) = "array"  -> Payload(val)[it.m_it + n + 1]
    [] Type(val) \notin Structured \cup {"null"} /\ it.m_it = -n -> val
    [] OTHER                -> Throw(214)
KeyOf(val, it) == IF Type(val) = "object" THEN Keys(val)[it.m_it + 1] ELSE Throw(207)

SameIterator(it, other) ==
  IF it.m_object # other.m_object THEN Throw(212) ELSE it.m_it = other.m_it
IteratorLess(val, it, other) ==
  CASE it.m_object # other.m_object -> Throw(212)
    [] it.m_object = other.m_object /\ Type(val) = "object" -> Throw(213)
    [] OTHER -> it.m_it < other.m_it

\* A reverse iterator stands behind what it refers to.
Reversed(it) == Advanced(it, -1)

-----------------------------------------------------------------------------
(* Constructors. *)

\* Every element is an array of a key and a value.
LikeObject(init) ==
  \A i \in DOMAIN init : /\ Type(init[i]) = "array"
                         /\ Len(Payload(init[i])) = 2
                         /\ Type(Payload(init[i])[1]) = "string"

FromPairs(init) ==
  Object(FoldLeft(LAMBDA ms, e : Emplaced(ms, Payload(e[2][1]), e[2][2]), <<>>, init))

\* basic_json(init), array(init) and object(init).
FromList(init) == IF LikeObject(init) THEN FromPairs(init) ELSE Array(init)
ArrayOf(init) == Array(init)
ObjectOf(init) == IF LikeObject(init) THEN FromPairs(init) ELSE Throw(301)

Copies(cnt, val) == Array([i \in 1 .. cnt |-> val])

\* From the elements of val between two iterators.
FromRange(val, first, last) ==
  CASE first.m_object # last.m_object -> Throw(201)
    [] first.m_object = last.m_object /\ Type(val) \in Numeric \cup {"boolean", "string"} ->
         IF first.m_it = PrimitiveBegin /\ last.m_it = PrimitiveEnd THEN val ELSE Throw(204)
    [] first.m_object = last.m_object /\ Type(val) \in Structured ->
         <<Type(val), SubSeq(Payload(val), first.m_it + 1, last.m_it)>>
    [] first.m_object = last.m_object /\ Type(val) = "binary" -> val
    [] OTHER -> Throw(206)

-----------------------------------------------------------------------------
(* Capacity and element access. *)

size(val) ==
  CASE Type(val) = "null"       -> 0
    [] Type(val) \in Structured -> Len(Payload(val))
    [] OTHER                    -> 1
empty(val) ==
  CASE Type(val) = "null"       -> TRUE
    [] Type(val) \in Structured -> Payload(val) = <<>>
    [] OTHER                    -> FALSE

contains(val, key) == Type(val) = "object" /\ Place(Payload(val), key) # 0
find(val, key) ==
  IF contains(val, key) THEN Iterator("this", Place(Payload(val), key) - 1) ELSE end(val)
count(val, key) == IF contains(val, key) THEN 1 ELSE 0

\* at(idx) and at(key).
AtIndex(val, idx) ==
  CASE Type(val) # "array" -> Throw(304)
    [] Type(val) = "array" /\ idx >= size(val) -> Throw(401)
    [] OTHER -> Payload(val)[idx + 1]
AtKey(val, key) ==
  CASE Type(val) # "object" -> Throw(304)
    [] Type(val) = "object" /\ ~contains(val, key) -> Throw(403)
    [] OTHER -> Payload(val)[Place(Payload(val), key)][2]

\* What operator[] makes of *this before it refers to an element of it.
WithIndex(val, idx) ==
  LET items == Elements(val)
  IN CASE Type(val) \notin {"null", "array"} -> Throw(305)
       [] Type(val) \in {"null", "array"} /\ idx < Len(items) -> Array(items)
       [] OTHER -> Array(items \o [i \in 1 .. idx + 1 - Len(items) |-> Null])
WithKey(val, key) ==
  CASE Type(val) = "null"   -> Object(<<<<key, Null>>>>)
    [] Type(val) = "object" -> Object(Emplaced(Payload(val), key, Null))
    [] OTHER                -> Throw(305)

\* An assignment through the reference.
SetIndex(val, idx, x) ==
  IF Type(val) \in {"null", "array"} THEN Array([WithIndex(val, idx)[2] EXCEPT ![idx + 1] = x])
  ELSE Throw(305)
SetKey(val, key, x) ==
  IF Type(val) \in {"null", "object"} THEN Object(Assigned(Members(val), key, x)) ELSE Throw(305)

\* value(key, default_value).
ValueOr(val, key, default) ==
  CASE Type(val) # "object" -> Throw(306)
    [] Type(val) = "object" /\ contains(val, key) -> AtKey(val, key)
    [] OTHER -> default

front(val) == Dereferenced(val, begin(val))
back(val) == Dereferenced(val, Advanced(end(val), -1))

-----------------------------------------------------------------------------
(* Modifiers. *)

\* The sequence without the elements between two places.
Cut(s, first, last) == SubSeq(s, 1, first) \o SubSeq(s, last + 1, Len(s))

Erase(val, pos) ==
  CASE pos.m_object # "this" -> Throw(202)
    [] pos.m_object = "this" /\ Type(val) \in Structured ->
         <<Type(val), Cut(Payload(val), pos.m_it, pos.m_it + 1)>>
    [] pos.m_object = "this" /\ Type(val) \in Primitive \ {"null"} ->
         IF pos.m_it = PrimitiveBegin THEN Null ELSE Throw(205)
    [] OTHER -> Throw(307)

EraseRange(val, first, last) ==
  CASE first.m_object # "this" \/ last.m_object # "this" -> Throw(203)
    [] first.m_object = "this" /\ last.m_object = "this" /\ Type(val) \in Structured ->
         <<Type(val), Cut(Payload(val), first.m_it, last.m_it)>>
    [] first.m_object = "this" /\ last.m_object = "this"
         /\ Type(val) \in Primitive \ {"null"} ->
         IF first.m_it = PrimitiveBegin /\ last.m_it = PrimitiveEnd THEN Null ELSE Throw(204)
    [] OTHER -> Throw(307)

EraseKey(val, key) ==
  CASE Type(val) # "object" -> Throw(307)
    [] contains(val, key)   -> Erase(val, find(val, key))
    [] OTHER                -> val

EraseIndex(val, idx) ==
  CASE Type(val) # "array" -> Throw(307)
    [] Type(val) = "array" /\ idx >= size(val) -> Throw(401)
    [] OTHER -> Array(Cut(Payload(val), idx, idx + 1))

\* Bytes lose their contents and keep their subtype.
clear(val) ==
  IF Type(val) = "binary" THEN <<"binary", <<<<>>, Payload(val)[2]>>>> ELSE json_value(Type(val))

PushBack(val, x) ==
  IF Type(val) \in {"null", "array"} THEN Array(Append(Elements(val), x)) ELSE Throw(308)
EmplaceBack(val, x) ==
  IF Type(val) \in {"null", "array"} THEN Array(Append(Elements(val), x)) ELSE Throw(311)

PushPair(val, key, x) ==
  IF Type(val) \in {"null", "object"} THEN Object(Emplaced(Members(val), key, x)) ELSE Throw(308)
Emplace(val, key, x) ==
  IF Type(val) \in {"null", "object"} THEN Object(Emplaced(Members(val), key, x)) ELSE Throw(311)
PushList(val, init) ==
  IF Type(val) = "object" /\ Len(init) = 2 /\ Type(init[1]) = "string"
  THEN PushPair(val, Payload(init[1]), init[2]) ELSE PushBack(val, FromList(init))

\* insert of a value, of copies of it, of an initializer list.
InsertAll(val, pos, items) ==
  CASE Type(val) # "array" -> Throw(309)
    [] Type(val) = "array" /\ pos.m_object # "this" -> Throw(202)
    [] OTHER -> Array(SubSeq(Payload(val), 1, pos.m_it) \o items
                        \o SubSeq(Payload(val), pos.m_it + 1, size(val)))
Insert(val, pos, x) == InsertAll(val, pos, <<x>>)
InsertCopies(val, pos, cnt, x) == InsertAll(val, pos, Payload(Copies(cnt, x)))
InsertList(val, pos, ilist) == InsertAll(val, pos, ilist)

\* Of the elements of other between two of its iterators.
InsertRange(val, pos, other, first, last) ==
  CASE Type(val) # "array" -> Throw(309)
    [] Type(val) = "array" /\ pos.m_object # "this" -> Throw(202)
    [] Type(val) = "array" /\ pos.m_object = "this" /\ first.m_object # last.m_object -> Throw(210)
    [] Type(val) = "array" /\ pos.m_object = "this" /\ first.m_object = last.m_object
         /\ first.m_object = "this" -> Throw(211)
    [] OTHER -> InsertAll(val, pos, SubSeq(Payload(other), first.m_it + 1, last.m_it))

MergedInto(members, more, Put(_, _, _)) ==
  FoldLeft(LAMBDA ms, m : Put(ms, m[1], m[2]), members, more)

InsertMembers(val, other, first, last) ==
  CASE Type(val) # "object" -> Throw(309)
    [] Type(val) = "object" /\ first.m_object # last.m_object -> Throw(210)
    [] Type(val) = "object" /\ first.m_object = last.m_object /\ Type(other) # "object" -> Throw(202)
    [] OTHER -> Object(MergedInto(Payload(val), SubSeq(Payload(other), first.m_it + 1, last.m_it),
                                  Emplaced))

\* update(j) and update(first, last): a null becomes an object before j is looked at.
Updated(val) == IF Type(val) = "null" THEN Object(<<>>) ELSE val
Update(val, j) ==
  IF Type(Updated(val)) = "object" /\ Type(j) = "object"
  THEN Object(MergedInto(Members(val), Payload(j), Assigned)) ELSE Throw(312)
UpdateRange(val, other, first, last) ==
  CASE Type(Updated(val)) # "object" -> Throw(312)
    [] Type(Updated(val)) = "object" /\ first.m_object # last.m_object -> Throw(210)
    [] Type(Updated(val)) = "object" /\ first.m_object = last.m_object
         /\ Type(other) # "object" -> Throw(202)
    [] OTHER -> Object(MergedInto(Members(val), SubSeq(Payload(other), first.m_it + 1, last.m_it),
                                  Assigned))

\* swap with a payload of type t; other is what it holds afterwards.
Swap(val, t, payload) ==
  IF Type(val) = t THEN [this |-> <<t, payload>>, other |-> Payload(val)]
  ELSE [this |-> Throw(310), other |-> payload]

-----------------------------------------------------------------------------
(* Comparison. *)

\* An integer as a double, exact up to 15 digits.
WholeFloat(neg, ds) == Normal(neg, ds, Len(ds))
AsFloat(val) ==
  CASE Type(val) = "number_float"   -> Payload(val)
    [] Type(val) = "number_integer" -> WholeFloat(IsNegative(Payload(val)), Decimal(Magnitude(Payload(val))))
    [] OTHER                        -> WholeFloat(FALSE, Decimal(Payload(val)))

\* Of two digit sequences, the one that stands for less as 0.digits.
DigitsLess(s, t) == KeyLess(s, t)

IsZero(x) == x[2] = <<>>
MagnitudeLess(x, y) ==
  CASE IsInfinite(x) \/ IsInfinite(y) -> ~IsInfinite(x)
    [] ~IsInfinite(x) /\ ~IsInfinite(y) /\ (IsZero(x) \/ IsZero(y)) -> ~IsZero(y)
    [] OTHER -> x[3] < y[3] \/ (x[3] = y[3] /\ DigitsLess(x[2], y[2]))

FloatEqual(x, y) == ~IsNaN(x) /\ ~IsNaN(y) /\ (x = y \/ (IsZero(x) /\ IsZero(y)))
FloatLess(x, y) ==
  /\ ~IsNaN(x) /\ ~IsNaN(y) /\ ~FloatEqual(x, y)
  /\ CASE x[1] /\ ~y[1]  -> TRUE
       [] ~x[1] /\ y[1]  -> FALSE
       [] x[1] /\ y[1]   -> MagnitudeLess(y, x)
       [] ~x[1] /\ ~y[1] -> MagnitudeLess(x, y)

RECURSIVE Equal(_, _)
Equal(lhs, rhs) ==
  CASE Type(lhs) = Type(rhs) /\ Type(lhs) \in Structured ->
         /\ Keys(lhs) = Keys(rhs) /\ Len(Payload(lhs)) = Len(Payload(rhs))
         /\ \A i \in DOMAIN Elements(lhs) : Equal(Elements(lhs)[i], Elements(rhs)[i])
    [] Type(lhs) = Type(rhs) /\ Type(lhs) \in Primitive \ {"number_float"} -> lhs = rhs
    [] {Type(lhs), Type(rhs)} = Integral -> Payload(lhs) = Payload(rhs)
    [] {Type(lhs), Type(rhs)} \subseteq Numeric /\ "number_float" \in {Type(lhs), Type(rhs)} ->
         FloatEqual(AsFloat(lhs), AsFloat(rhs))
    [] OTHER -> FALSE

TypeOrder ==
  ("null" :> 0) @@ ("boolean" :> 1) @@ ("object" :> 3) @@ ("array" :> 4) @@ ("string" :> 5)
    @@ ("binary" :> 6) @@ [t \in Numeric |-> 2]

\* (Altered: integers are compared without their signs.)
IntegerLessUnsigned(lhs, rhs) == BytesLess(Payload(lhs), Payload(rhs))
IntegerLess(lhs, rhs) ==
  IF Type(lhs) = "number_unsigned" /\ Type(rhs) = "number_unsigned"
  THEN BytesLess(Payload(lhs), Payload(rhs)) ELSE SignedLess(Payload(lhs), Payload(rhs))

\* The first of the places where two sequences differ, as their operator<.
LexicographicLess(s, t, Before(_, _)) ==
  \E i \in 1 .. Len(t) :
    /\ \A j \in 1 .. i - 1 : j \in DOMAIN s /\ ~Before(s[j], t[j]) /\ ~Before(t[j], s[j])
    /\ i = Len(s) + 1 \/ (i \in DOMAIN s /\ Before(s[i], t[i]))

RECURSIVE Less(_, _)
Less(lhs, rhs) ==
  LET member(m, n) == \/ KeyLess(m[1], n[1])
                      \/ m[1] = n[1] /\ Less(m[2], n[2])
      l == Type(lhs)
      r == Type(rhs)
  IN CASE l = "array" /\ r = "array"   -> LexicographicLess(Payload(lhs), Payload(rhs), Less)
       [] l = "object" /\ r = "object" -> LexicographicLess(Payload(lhs), Payload(rhs), member)
       [] l = "string" /\ r = "string" -> KeyLess(Payload(lhs), Payload(rhs))
       [] l = "binary" /\ r = "binary" -> KeyLess(Payload(lhs)[1], Payload(rhs)[1])
       [] l = "boolean" /\ r = "boolean" -> ~Payload(lhs) /\ Payload(rhs)
       [] l \in Integral /\ r \in Integral -> IntegerLess(lhs, rhs)
       [] {l, r} \subseteq Numeric /\ "number_float" \in {l, r} ->
            FloatLess(AsFloat(lhs), AsFloat(rhs))
       [] OTHER -> "discarded" \notin {l, r} /\ TypeOrder[l] < TypeOrder[r]

LessEqual(lhs, rhs) == ~Less(rhs, lhs)
Greater(lhs, rhs) == ~LessEqual(lhs, rhs)
GreaterEqual(lhs, rhs) == ~Less(lhs, rhs)

-----------------------------------------------------------------------------
(* get<T>. *)

GetNull(val) == IF Type(val) = "null" THEN val ELSE Throw(302)
GetBoolean(val) == IF Type(val) = "boolean" THEN val ELSE Throw(302)
GetString(val) == IF Type(val) = "string" THEN val ELSE Throw(302)
GetBinary(val) == IF Type(val) = "binary" THEN val ELSE Throw(302)
GetArray(val) == IF Type(val) = "array" THEN val ELSE Throw(302)
GetObject(val) == IF Type(val) = "object" THEN val ELSE Throw(302)
GetRef(val, t) == IF Type(val) = t \/ (t = "number_integer" /\ Type(val) \in Integral)
                  THEN val ELSE Throw(303)

\* The integer part of a floating-point number of n digits or fewer before the point.
Truncated(x) ==
  LET whole == [i \in 1 .. x[3] |-> IF i <= Len(x[2]) THEN x[2][i] ELSE 0]
      w == strtoull(whole).word
  IN IF x[1] THEN Negated(w) ELSE w

\* As an integer of so many bytes, of which the conversion keeps the low ones.
GetInteger(val, bytes) ==
  CASE Type(val) \in Integral     -> Low(Payload(val), bytes)
    [] Type(val) = "number_float" -> Low(Truncated(Payload(val)), bytes)
    [] OTHER                      -> Throw(302)
GetFloat(val) ==
  IF Type(val) \in Numeric THEN <<"number_float", AsFloat(val)>> ELSE Throw(302)
=============================================================================
