----------------------------- MODULE JsonPointer ----------------------------
(***************************************************************************)
(* Class json_pointer of json/json.h, flatten and unflatten, JSON Patch    *)
(* and JSON Merge Patch.  A pointer is the sequence of its reference       *)
(* tokens.  Where the code changes an element through a reference, an      *)
(* operator here gives the whole value with the element changed.           *)
(***************************************************************************)
EXTENDS JsonValue

Tilde == 126
Minus == <<45>>

\* The names of the operations of a patch and of their members.
Word4(name) ==
  CASE name = "op"      -> <<111, 112>>
    [] name = "path"    -> <<112, 97, 116, 104>>
    [] name = "from"    -> <<102, 114, 111, 109>>
    [] name = "value"   -> <<118, 97, 108, 117, 101>>
    [] name = "add"     -> <<97, 100, 100>>
    [] name = "remove"  -> <<114, 101, 109, 111, 118, 101>>
    [] name = "replace" -> <<114, 101, 112, 108, 97, 99, 101>>
    [] name = "move"    -> <<109, 111, 118, 101>>
    [] name = "copy"    -> <<99, 111, 112, 121>>
    [] name = "test"    -> <<116, 101, 115, 116>>

\* (Altered: the slash is replaced first.)
escape_slash_first(s) ==
  FlattenSeq([i \in DOMAIN s |-> CASE s[i] \in {Tilde, Slash} -> <<Tilde, 48>>
                                   [] OTHER -> <<s[i]>>])

\* Each ~ becomes ~0, then each / becomes ~1.
escape(s) ==
  FlattenSeq([i \in DOMAIN s |-> CASE s[i] = Tilde -> <<Tilde, 48>>
                                   [] s[i] = Slash -> <<Tilde, 49>>
                                   [] OTHER        -> <<s[i]>>])

\* Each occurrence of f, two characters, by t, from left to right.
RECURSIVE replace_substring(_, _, _)
replace_substring(s, f, t) ==
  CASE Len(s) < 2 -> s
    [] Len(s) >= 2 /\ SubSeq(s, 1, 2) = f -> <<t>> \o replace_substring(SubSeq(s, 3, Len(s)), f, t)
    [] OTHER -> <<Head(s)>> \o replace_substring(Tail(s), f, t)

\* Each ~1 becomes /, then each ~0 becomes ~.
unescape(s) ==
  replace_substring(replace_substring(s, <<Tilde, 49>>, Slash), <<Tilde, 48>>, Tilde)

to_string(ptr) ==
  FoldLeft(LAMBDA t, token : t \o <<Slash>> \o escape(token), <<>>, ptr)

\* The parts between slashes.
TokenTexts(s) ==
  FoldLeft(LAMBDA ps, c : IF c = Slash THEN Append(ps, <<>>)
                          ELSE Append(Front(ps), Append(Last(ps), c)),
           <<<<>>>>, s)

WellEscaped(s) == \A i \in DOMAIN s : s[i] = Tilde => At(s, i + 1) \in {48, 49}

\* A pointer as a result that may be an exception instead.
Pointer(ptr) == <<"pointer", ptr>>

PointerOf(tokens) ==
  IF \E i \in DOMAIN tokens : ~WellEscaped(tokens[i]) THEN Throw(108)
  ELSE Pointer([i \in DOMAIN tokens |-> unescape(tokens[i])])
split(s) ==
  CASE s = <<>>                 -> Pointer(<<>>)
    [] s # <<>> /\ s[1] # Slash -> Throw(107)
    [] s # <<>> /\ s[1] = Slash -> PointerOf(TokenTexts(Tail(s)))

\* operator/= with a pointer, a token and an index.
Join(lhs, rhs) == lhs \o rhs
PushToken(ptr, token) == Append(ptr, token)
Index(i) == [k \in 1 .. Len(Decimal(Word(i))) |-> Decimal(Word(i))[k] + 48]
PushIndex(ptr, i) == Append(ptr, Index(i))
parent_pointer(ptr) == IF ptr = <<>> THEN ptr ELSE Front(ptr)

\* std::stoull throws what nobody catches when no digits come first: 0.  Else the index,
\* or what array_index throws.
StdInvalid == 0
MaxIndex == 99999999
IndexRead(s, x) ==
  LET digits == \A i \in DOMAIN s : s[i] \in Digits
  IN CASE Len(s) > 1 /\ s[1] = 48 -> Throw(106)
       [] Len(s) > 1 /\ s[1] \notin Digits -> Throw(109)
       [] Len(s) <= 1 /\ ~(digits /\ s # <<>>) -> Throw(StdInvalid)
       [] Len(s) > 1 /\ s[1] \in 49 .. 57 /\ (~digits \/ x.over) -> Throw(404)
       [] Len(s) > 1 /\ s[1] \in 49 .. 57 /\ digits /\ ~x.over /\ x.word = Negated(Word(1)) -> Throw(410)
       [] OTHER -> <<"index", IF FitsUnsigned(x.word, 3) THEN Value(x.word) ELSE MaxIndex>>
array_index(s) == IndexRead(s, strtoull(DigitsOf(s)))

-----------------------------------------------------------------------------
(* Resolving. *)

\* at for one token, or for an index that an array's token stands for.
AtArray(val, i) == IF Thrown(i) THEN i ELSE AtIndex(val, i[2])
ElementAt(val, token) ==
  CASE Type(val) = "object" -> AtKey(val, token)
    [] Type(val) = "array" /\ token = Minus -> Throw(402)
    [] Type(val) = "array" /\ token # Minus -> AtArray(val, array_index(token))
    [] OTHER -> Throw(404)

\* get_checked: at for each token.
get_checked(val, ptr) ==
  FoldLeft(LAMBDA v, token : IF Thrown(v) THEN v ELSE ElementAt(v, token), val, ptr)

\* operator[] on a const value with an index or key that is there: as at.
get_unchecked_const(val, ptr) == get_checked(val, ptr)

LikeIndex(token) ==
  CASE token = Minus    -> FALSE
    [] Len(token) = 1   -> token[1] \in Digits
    [] Len(token) > 1   -> token[1] \in 49 .. 57 /\ \A i \in DOMAIN token : token[i] \in Digits
    [] OTHER            -> TRUE

RECURSIVE ContainsPointer(_, _)
ContainsPointer(val, ptr) ==
  CASE ptr = <<>> -> TRUE
    [] ptr # <<>> /\ Type(val) = "object" ->
         contains(val, ptr[1]) /\ ContainsPointer(AtKey(val, ptr[1]), Tail(ptr))
    [] ptr # <<>> /\ Type(val) = "array" ->
         /\ LikeIndex(ptr[1])
         /\ array_index(ptr[1])[2] < size(val)
         /\ ContainsPointer(AtIndex(val, array_index(ptr[1])[2]), Tail(ptr))
    [] OTHER -> FALSE

\* value(ptr, default_value): only exceptions of class out_of_range give the default.
OutOfRange == 401 .. 410
OutOfRangeOr(v, default) == IF Thrown(v) /\ v[2] \in OutOfRange THEN default ELSE v
PointerValueOr(val, ptr, default) ==
  IF Type(val) # "object" THEN Throw(306) ELSE OutOfRangeOr(get_checked(val, ptr), default)

\* The value with the element that ptr resolves to replaced.
RECURSIVE Replaced(_, _, _)
Replaced(val, ptr, x) ==
  CASE ptr = <<>> -> x
    [] ptr # <<>> /\ Type(val) = "object" ->
         SetKey(val, ptr[1], Replaced(ElementAt(val, ptr[1]), Tail(ptr), x))
    [] ptr # <<>> /\ Type(val) = "array" ->
         SetIndex(val, array_index(ptr[1])[2], Replaced(ElementAt(val, ptr[1]), Tail(ptr), x))

\* F done to that element, old.
ChangedTo(val, ptr, old, new) ==
  CASE Thrown(old) -> old
    [] ~Thrown(old) /\ Thrown(new) -> new
    [] OTHER -> Replaced(val, ptr, new)
ChangedIn(val, ptr, old, F(_)) == ChangedTo(val, ptr, old, F(old))
Changed(val, ptr, F(_)) == ChangedIn(val, ptr, get_checked(val, ptr), F)

\* get_unchecked: operator[] for each token; a null becomes what the token fits, and
\* the token - is the next index.  What is made, and the pointer without -.
Made(val, ptr) == [val |-> val, ptr |-> ptr]
Vivified(val, token) ==
  CASE Type(val) # "null" -> val
    [] Type(val) = "null" /\ (token = Minus \/ \A i \in DOMAIN token : token[i] \in Digits) -> Array(<<>>)
    [] OTHER -> Object(<<>>)
Rejoined(in, step, below) ==
  Made(IF Thrown(below.val) THEN below.val ELSE Replaced(in, <<step>>, below.val), <<step>> \o below.ptr)

RECURSIVE get_unchecked(_, _), unchecked_token(_, _), unchecked_below(_, _, _)
get_unchecked(val, ptr) ==
  IF ptr = <<>> THEN Made(val, <<>>) ELSE unchecked_token(Vivified(val, ptr[1]), ptr)
unchecked_token(v, ptr) ==
  LET i == IF ptr[1] = Minus THEN <<"index", size(v)>> ELSE array_index(ptr[1])
      object == Type(v) = "object"
  IN CASE Type(v) \notin Structured -> Made(Throw(404), <<>>)
       [] Type(v) = "array" /\ Thrown(i) -> Made(i, <<>>)
       [] OTHER -> unchecked_below(IF object THEN WithKey(v, ptr[1]) ELSE WithIndex(v, i[2]),
                                   IF object THEN ptr[1] ELSE Index(i[2]), Tail(ptr))
unchecked_below(in, step, rest) == Rejoined(in, step, get_unchecked(ElementAt(in, step), rest))

CreatedIn(made, F(_)) == IF Thrown(made.val) THEN made.val ELSE Changed(made.val, made.ptr, F)
CreatedAt(val, ptr, F(_)) == CreatedIn(get_unchecked(val, ptr), F)

\* get_and_create: only the token 0 makes an array of a null.
BeginsArray(token) == token = <<48>>
Begun(val, token) ==
  CASE Type(val) # "null" -> val
    [] Type(val) = "null" /\ BeginsArray(token) -> Array(<<>>)
    [] OTHER -> Object(<<>>)
WithElement(v, i, new) ==
  CASE Thrown(new) -> new
    [] ~Thrown(new) /\ Type(v) = "object" -> SetKey(v, i, new)
    [] ~Thrown(new) /\ Type(v) = "array"  -> SetIndex(v, i, new)

RECURSIVE get_and_create(_, _, _), create_in(_, _, _), create_index(_, _, _, _)
get_and_create(val, ptr, x) ==
  IF ptr = <<>> THEN x ELSE create_in(Begun(val, ptr[1]), ptr, x)
create_in(v, ptr, x) ==
  CASE Type(v) = "object" ->
         WithElement(v, ptr[1], get_and_create(ValueOr(v, ptr[1], Null), Tail(ptr), x))
    [] Type(v) = "array" -> create_index(v, array_index(ptr[1]), Tail(ptr), x)
    [] OTHER -> Throw(313)
create_index(v, i, rest, x) ==
  IF Thrown(i) THEN i
  ELSE WithElement(v, i[2], get_and_create(AtIndex(WithIndex(v, i[2]), i[2]), rest, x))

-----------------------------------------------------------------------------
(* flatten and unflatten. *)

RECURSIVE FlattenInto(_, _, _)
FlattenInto(result, reference_string, value) ==
  LET step(r, i) ==
        FlattenInto(r, reference_string \o <<Slash>>
                         \o (IF Type(value) = "array" THEN Index(i - 1) ELSE escape(Keys(value)[i])),
                    Elements(value)[i])
  IN CASE Type(value) \in Structured /\ empty(value) -> SetKey(result, reference_string, Null)
       [] Type(value) \in Structured /\ ~empty(value) ->
            FoldLeft(step, result, [i \in DOMAIN Payload(value) |-> i])
       [] OTHER -> SetKey(result, reference_string, value)

flatten(val) == FlattenInto(Object(<<>>), <<>>, val)

UnflattenInto(r, ptr, x) ==
  CASE Thrown(r) -> r
    [] ~Thrown(r) /\ Type(x) \notin Primitive -> Throw(315)
    [] ~Thrown(r) /\ Type(x) \in Primitive /\ Thrown(ptr) -> ptr
    [] OTHER -> get_and_create(r, ptr[2], x)
unflatten(val) ==
  IF Type(val) # "object" THEN Throw(314)
  ELSE FoldLeft(LAMBDA r, m : UnflattenInto(r, split(m[1]), m[2]), Null, Payload(val))

-----------------------------------------------------------------------------
(* JSON Patch. *)

\* operation_add: an element that is there for a member is replaced, one of an array
\* moves up.
AddAtIndex(parent, i, val) ==
  CASE Thrown(i) -> i
    [] ~Thrown(i) /\ i[2] > size(parent) -> Throw(401)
    [] OTHER -> Insert(parent, Iterator("this", i[2]), val)
AddTo(parent, last_path, val) ==
  CASE Type(parent) \in {"null", "object"} -> SetKey(parent, last_path, val)
    [] Type(parent) = "array" /\ last_path = Minus -> PushBack(parent, val)
    [] Type(parent) = "array" /\ last_path # Minus -> AddAtIndex(parent, array_index(last_path), val)
    [] OTHER -> parent

Needs(v, result) == IF Thrown(v) THEN v ELSE result

operation_add(result, ptr, val) ==
  CASE ptr = <<>>   -> val
    [] Len(ptr) = 1 -> AddTo(result, ptr[1], val)
    [] OTHER        -> Needs(get_checked(result, <<ptr[1]>>),
                             CreatedAt(result, Front(ptr), LAMBDA parent : AddTo(parent, Last(ptr), val)))

RemoveAtIndex(parent, i) == IF Thrown(i) THEN i ELSE EraseIndex(parent, i[2])
RemoveFrom(parent, last_path) ==
  CASE Type(parent) = "object" ->
         IF contains(parent, last_path) THEN EraseKey(parent, last_path) ELSE Throw(403)
    [] Type(parent) = "array" -> RemoveAtIndex(parent, array_index(last_path))
    [] OTHER -> parent
operation_remove(result, ptr) ==
  IF ptr = <<>> THEN Throw(405)
  ELSE Changed(result, Front(ptr), LAMBDA parent : RemoveFrom(parent, Last(ptr)))

\* A member of an operation.
MemberOf(v, string_type) ==
  IF Thrown(v) \/ (string_type /\ Type(v) # "string") THEN Throw(105) ELSE v
get_value(val, member, string_type) == MemberOf(AtKey(val, Word4(member)), string_type)

\* The pointer in a member of an operation.
PointerIn(s) == IF Thrown(s) THEN s ELSE split(Payload(s))
get_pointer(val, member) == PointerIn(get_value(val, member, TRUE))

Operations == {"add", "remove", "replace", "move", "copy", "test"}
OperationIn(op) ==
  CASE Thrown(op) -> op
    [] ~Thrown(op) /\ (\E o \in Operations : Payload(op) = Word4(o)) ->
         <<"op", CHOOSE o \in Operations : Payload(op) = Word4(o)>>
    [] OTHER -> <<"op", "invalid">>

Added(result, ptr, source) == Needs(source, Needs(result, operation_add(result, ptr, source)))
Tested(result, old, x) ==
  CASE Thrown(old) /\ old[2] \in OutOfRange -> Throw(501)
    [] Thrown(old) /\ old[2] \notin OutOfRange -> old
    [] ~Thrown(old) /\ Thrown(x) -> x
    [] OTHER -> IF Equal(old, x) THEN result ELSE Throw(501)

\* An operation with its pointers and its value, and what the pointers refer to.
Performed(result, op, path, old, from, source, x) ==
  CASE op = "remove"  -> operation_remove(result, path)
    [] op = "replace" -> Needs(old, Needs(x, Replaced(result, path, x)))
    [] op \in {"add", "copy", "move"} ->
         Added(IF op = "move" THEN operation_remove(result, from[2]) ELSE result, path,
               IF op = "add" THEN x ELSE Needs(from, source))
    [] op = "test"    -> Tested(result, old, x)
    [] op = "invalid" -> Throw(105)

\* One operation of a patch.
OperationWith(result, val, op, path, from) ==
  Needs(op, Needs(path,
    Performed(result, op[2], path[2], get_checked(result, path[2]), from, get_checked(result, from[2]),
              get_value(val, "value", FALSE))))
Applied(result, val) ==
  IF Type(val) # "object" THEN Throw(104)
  ELSE OperationWith(result, val, OperationIn(get_value(val, "op", TRUE)), get_pointer(val, "path"),
                     get_pointer(val, "from"))

patch(val, json_patch) ==
  IF Type(json_patch) # "array" THEN Throw(104)
  ELSE FoldLeft(LAMBDA r, o : IF Thrown(r) THEN r ELSE Applied(r, o), val, Payload(json_patch))

PatchOperation(op, path, more) ==
  FromPairs(<<Array(<<Str(Word4("op")), Str(Word4(op))>>), Array(<<Str(Word4("path")), Str(path)>>)>>
              \o more)
ValueMember(x) == <<Array(<<Str(Word4("value")), x>>)>>

\* (Altered: the elements that the target has not are removed from the front.)
RemovedFirstToLast(path, n, m) ==
  [k \in 1 .. n - m |-> PatchOperation("remove", path \o <<Slash>> \o Index(m + k - 1), <<>>)]

\* The elements m .. n - 1 of an array are removed from the last on.
RemovedElements(path, n, m) ==
  [k \in 1 .. n - m |-> PatchOperation("remove", path \o <<Slash>> \o Index(n - k), <<>>)]

RECURSIVE diff(_, _, _)
diff(source, target, path) ==
  LET n == Len(Payload(source))
      m == Len(Payload(target))
      both == IF n < m THEN n ELSE m
      key(k) == path \o <<Slash>> \o escape(k)
      element(i) == diff(Payload(source)[i], Payload(target)[i], path \o <<Slash>> \o Index(i - 1))
      member(i) ==
        LET k == Keys(source)[i]
        IN IF contains(target, k) THEN diff(Elements(source)[i], AtKey(target, k), key(k))
           ELSE <<PatchOperation("remove", key(k), <<>>)>>
      added == SelectSeq(Members(target), LAMBDA t : ~contains(source, t[1]))
  IN CASE Equal(source, target) -> <<>>
       [] ~Equal(source, target) /\ Type(source) = "array" /\ Type(target) = "array" ->
            FlattenSeq([i \in 1 .. both |-> element(i)])
              \o RemovedElements(path, n, both)
              \o [i \in 1 .. m - both |->
                    PatchOperation("add", path \o <<Slash>> \o Minus,
                                   ValueMember(Payload(target)[both + i]))]
       [] ~Equal(source, target) /\ Type(source) = "object" /\ Type(target) = "object" ->
            FlattenSeq([i \in 1 .. n |-> member(i)])
              \o [i \in DOMAIN added |->
                    PatchOperation("add", key(added[i][1]), ValueMember(added[i][2]))]
       [] OTHER -> <<PatchOperation("replace", path, ValueMember(target))>>

Diff(source, target) == Array(diff(source, target, <<>>))

-----------------------------------------------------------------------------
(* JSON Merge Patch. *)

RECURSIVE merge_patch(_, _)
merge_patch(val, apply_patch) ==
  LET this == IF Type(val) = "object" THEN val ELSE Object(<<>>)
      member(v, m) ==
        IF Type(m[2]) = "null" THEN EraseKey(v, m[1])
        ELSE SetKey(v, m[1], merge_patch(AtKey(WithKey(v, m[1]), m[1]), m[2]))
  IN IF Type(apply_patch) = "object" THEN FoldLeft(member, this, Payload(apply_patch))
     ELSE apply_patch
=============================================================================
