---------------------------- MODULE JsonDocument ----------------------------
(***************************************************************************)
(* A program that uses json/json.h: it changes a basic_json with the       *)
(* operations of the class, and puts a text together that it has parsed.   *)
(* An operation that throws leaves the value as it was, but for update,    *)
(* which makes an object of a null first.                                  *)
(*                                                                         *)
(* What the library promises of a value is said for every value that the   *)
(* operations lead to, and of a text for every text.                       *)
(***************************************************************************)
EXTENDS JsonBinaryReader, JsonBinaryWriter, JsonPointer, DataParse

CONSTANTS
  Scalars,        \* values of primitive types
  Inserted,       \* values that operations put into others
  Others,         \* arrays and objects that are merged into doc, or compared with it
  Patches,        \* JSON patches
  KeyNames,       \* keys of objects
  Paths,          \* pointers
  MaxNodes,       \* bound on the values in doc
  MaxKey,         \* bound on the keys that flatten makes
  Languages       \* records of the texts to begin with, the pieces that may follow, and how many

VARIABLES
  doc,            \* *this, or NoDocument
  text,           \* a text that is put together
  more            \* the pieces that may follow it, and how many

docVars == <<doc, text, more>>

NoDocument == <<"no document", <<>>>>
NoMore == [pieces |-> {}, left |-> 0]

RECURSIVE Nodes(_)
Nodes(val) == 1 + FoldLeft(LAMBDA n, x : n + Nodes(x), 0, Elements(val))

Positions == 0 .. MaxNodes

\* doc becomes what an operation gives, or stays.
Becomes(val) ==
  /\ more = NoMore
  /\ IF Thrown(val) THEN UNCHANGED doc ELSE Nodes(val) <= MaxNodes /\ doc' = val
  /\ UNCHANGED <<text, more>>

\* An iterator of doc, and one of another container.
Iterators == {Iterator(o, i) : o \in {"this", "other"}, i \in 0 .. set_end(doc)}
Bounds == {p \in Iterators \X Iterators : p[1].m_it <= p[2].m_it}
OtherBounds(val) ==
  {<<Iterator("other", i), Iterator(o, set_end(val))>> :
     i \in set_begin(val) .. set_end(val), o \in {"other", "third"}}

DocInit == doc = NoDocument /\ text = <<>> /\ more = NoMore

-----------------------------------------------------------------------------
(* Operations. *)

Construct ==
  /\ doc = NoDocument
  /\ \/ \E x \in Scalars : Becomes(x)
     \/ \E t \in DOMAIN TypeOrder : Becomes(json_value(t))
     \/ \E x, y \in Inserted, key \in KeyNames :
          LET init == <<Array(<<Str(key), x>>), y>>
          IN Becomes(FromList(init)) \/ Becomes(ArrayOf(init)) \/ Becomes(ObjectOf(init))
     \/ \E x \in Inserted, cnt \in 0 .. 2 : Becomes(Copies(cnt, x))

Slice == \E p \in Bounds : Becomes(FromRange(doc, p[1], p[2]))

\* doc becomes a copy of one of its elements.
Descend ==
  \/ \E i \in Positions : Becomes(AtIndex(doc, i))
  \/ \E key \in KeyNames : Becomes(AtKey(doc, key)) \/ Becomes(ValueOr(doc, key, Null))
  \/ ~empty(doc) /\ (Becomes(front(doc)) \/ Becomes(back(doc)))

AssignElement ==
  \E x \in Inserted :
    \/ \E i \in Positions : Becomes(SetIndex(doc, i, x))
    \/ \E key \in KeyNames : Becomes(SetKey(doc, key, x))
    \/ \E ptr \in Paths : LET assign(old) == x IN Becomes(CreatedAt(doc, ptr, assign))

EraseElement ==
  \/ \E pos \in {it \in Iterators : it.m_it < set_end(doc)} : Becomes(Erase(doc, pos))
  \/ \E p \in Bounds : Becomes(EraseRange(doc, p[1], p[2]))
  \/ \E i \in Positions : Becomes(EraseIndex(doc, i))
  \/ \E key \in KeyNames : Becomes(EraseKey(doc, key))
  \/ Becomes(clear(doc))

Push ==
  \E x \in Inserted :
    \/ Becomes(PushBack(doc, x)) \/ Becomes(EmplaceBack(doc, x))
    \/ \E key \in KeyNames : \/ Becomes(PushPair(doc, key, x)) \/ Becomes(Emplace(doc, key, x))
                             \/ Becomes(PushList(doc, <<Str(key), x>>))

InsertElements ==
  \/ \E pos \in Iterators, x \in Inserted :
       \/ Becomes(Insert(doc, pos, x))
       \/ Becomes(InsertCopies(doc, pos, 2, x))
       \/ Becomes(InsertList(doc, pos, <<x, Null>>))
  \/ \E other \in Others : \E p \in OtherBounds(other) :
       \/ Type(other) = "array" /\ \E pos \in Iterators :
            Becomes(InsertRange(doc, pos, other, p[1], p[2]))
       \/ Becomes(InsertMembers(doc, other, p[1], p[2]))

UpdateMembers ==
  \E other \in Others :
    \/ Becomes(IF Thrown(Update(doc, other)) THEN Updated(doc) ELSE Update(doc, other))
    \/ \E p \in OtherBounds(other) :
         LET v == UpdateRange(doc, other, p[1], p[2])
         IN Becomes(IF Thrown(v) THEN Updated(doc) ELSE v)

SwapPayload ==
  \E x \in Others \cup Scalars :
    /\ Type(x) \in Structured \cup {"string", "binary"}
    /\ Becomes(Swap(doc, Type(x), Payload(x)).this)

Rearrange ==
  \/ (\A key \in ToSet(Keys(flatten(doc))) : Len(key) <= MaxKey) /\ Becomes(flatten(doc))
  \/ Becomes(unflatten(doc))

Merge ==
  \/ \E other \in Others : Becomes(merge_patch(doc, other))
  \/ \E p \in Patches : Becomes(patch(doc, p))

\* The program puts a text together, and lets it go.
Compose ==
  /\ doc = NoDocument
  /\ \/ \E l \in Languages : \E s \in l.first :
          /\ more = NoMore
          /\ text' = s
          /\ more' = [pieces |-> l.pieces, left |-> l.left]
     \/ \E s \in more.pieces :
          /\ more.left > 0
          /\ text' = text \o s
          /\ more' = [more EXCEPT !.left = @ - 1]
     \/ more # NoMore /\ text' = <<>> /\ more' = NoMore
  /\ UNCHANGED doc

Change ==
  /\ doc # NoDocument
  /\ \/ Slice \/ Descend \/ AssignElement \/ EraseElement \/ Push \/ InsertElements
     \/ UpdateMembers \/ SwapPayload \/ Rearrange \/ Merge

DocNext == Construct \/ Change \/ Compose
=============================================================================
