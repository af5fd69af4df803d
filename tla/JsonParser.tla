------------------------------ MODULE JsonParser ----------------------------
(***************************************************************************)
(* The parser of json/json.h and its SAX consumers.  The parser is what it *)
(* makes of a text: the events that it sends, and the number of the error  *)
(* that ends them, or 0.  The consumers go through the events.             *)
(*                                                                         *)
(* A consumer holds pointers into the value that it builds.  Here it has   *)
(* the open values themselves, and a value is put into the one around it   *)
(* again when it is closed.                                                *)
(***************************************************************************)
EXTENDS JsonValue

CONSTANT
  MaxSize         \* the word max_size() of arrays and objects

-----------------------------------------------------------------------------
(* sax_parse_internal.  states is what is open around the next token, label the    *)
(* place in the loop where the token is looked at.                                *)

Unknown == <<>>
Event(name, val) == <<name, val>>
Outcome(events, error, pos) == [events |-> events, error |-> error, pos |-> pos]

\* The value of a token that is one.
TokenValue ==
  [literal_true   |-> "boolean",         literal_false  |-> "boolean",
   literal_null   |-> "null",            value_integer  |-> "number_integer",
   value_unsigned |-> "number_unsigned", value_string   |-> "string",
   value_float    |-> "number_float"]
ValueOf(t) ==
  <<TokenValue[t.token], IF TokenValue[t.token] = "boolean" THEN t.token = "literal_true"
                         ELSE t.value>>

\* The parser r goes on with the label that is named, and with other events or states.
Continue(r, label) == [r EXCEPT !.label = label]
Send(r, name, val) == [r EXCEPT !.events = Append(@, Event(name, val))]
Enter(r, kind) == [r EXCEPT !.states = Append(@, kind)]
Leave(r) == [r EXCEPT !.states = Front(@)]
Fail(r, id) == [r EXCEPT !.error = id]

\* The switch over a token with which a value begins.
sax_value(r, t) ==
  CASE t.token = "begin_object" -> Continue(Enter(Send(r, "start_object", Unknown), "object"), "first key")
    [] t.token = "begin_array"  -> Continue(Enter(Send(r, "start_array", Unknown), "array"), "first element")
    [] t.token = "value_float" /\ ~IsFinite(t.value) -> Fail(r, 406)
    [] t.token \in DOMAIN TokenValue /\ (t.token = "value_float" => IsFinite(t.value)) ->
         Continue(Send(r, "value", ValueOf(t)), "evaluate")
    [] OTHER -> Fail(r, 101)

sax_key(r, t) ==
  IF t.token = "value_string" THEN Continue(Send(r, "key", t.value), "separator") ELSE Fail(r, 101)

sax_end(r, name) == Continue(Leave(Send(r, name, <<>>)), "evaluate")

\* What the next token t does, by what was read before.
sax_token(r, t) ==
  LET inside(kind) == r.label = "evaluate" /\ Last(r.states) = kind
  IN CASE r.label = "value"     -> sax_value(r, t)
       [] r.label = "key"       -> sax_key(r, t)
       [] r.label = "separator" -> IF t.token = "name_separator" THEN Continue(r, "value") ELSE Fail(r, 101)
       [] r.label = "first element" ->
            IF t.token = "end_array" THEN sax_end(r, "end_array") ELSE sax_value(r, t)
       [] r.label = "first key" ->
            IF t.token = "end_object" THEN sax_end(r, "end_object") ELSE sax_key(r, t)
       [] inside("array") /\ t.token = "value_separator"  -> Continue(r, "value")
       [] inside("array") /\ t.token = "end_array"        -> sax_end(r, "end_array")
       [] inside("object") /\ t.token = "value_separator" -> Continue(r, "key")
       [] inside("object") /\ t.token = "end_object"      -> sax_end(r, "end_object")
       [] OTHER -> Fail(r, 101)

\* The loop, until a value is complete with nothing open around it.
RECURSIVE sax_loop(_, _, _), sax_next(_, _, _, _)
sax_loop(s, ic, r) ==
  IF r.error # 0 \/ (r.label = "evaluate" /\ r.states = <<>>) THEN Outcome(r.events, r.error, r.pos)
  ELSE sax_next(s, ic, r, scan(s, r.pos, ic))
sax_next(s, ic, r, t) == sax_loop(s, ic, [sax_token(r, t) EXCEPT !.pos = t.pos])

sax_parse_internal(s, ic) ==
  sax_loop(s, ic, [label |-> "value", states |-> <<>>, events |-> <<>>, error |-> 0, pos |-> 0])

\* sax_parse.  With strict, nothing but the end of the input may follow.
sax_strict(s, ic, r) ==
  IF r.error = 0 /\ scan(s, r.pos, ic).token # "end_of_input"
  THEN Outcome(r.events, 101, r.pos) ELSE r
sax_parse_strict(s, ic) == sax_strict(s, ic, sax_parse_internal(s, ic))

-----------------------------------------------------------------------------
(* json_sax_dom_parser: the open values, innermost last, and their keys. *)

Excessive(len) == len # Unknown /\ BytesLess(MaxSize, len)

DomStart == [root |-> Null, stack |-> <<>>, keys |-> <<>>, error |-> 0]

\* handle_value for a value that is complete.
Put(d, val) ==
  LET top == Last(d.stack)
  IN CASE d.stack = <<>> -> [d EXCEPT !.root = val]
       [] d.stack # <<>> /\ Type(top) = "array" ->
            [d EXCEPT !.stack = Append(Front(@), PushBack(top, val))]
       [] d.stack # <<>> /\ Type(top) = "object" ->
            [d EXCEPT !.stack = Append(Front(@), SetKey(top, Last(d.keys), val)),
                      !.keys = Front(@)]

Opened(d, val, len) ==
  [d EXCEPT !.stack = Append(@, val), !.error = IF Excessive(len) THEN 408 ELSE @]

\* What one event does; after an exception nothing does anything.
DomStep(d, e) ==
  CASE d.error # 0 -> d
    [] d.error = 0 /\ e[1] = "value"        -> Put(d, e[2])
    [] d.error = 0 /\ e[1] = "start_object" -> Opened(d, Object(<<>>), e[2])
    [] d.error = 0 /\ e[1] = "start_array"  -> Opened(d, Array(<<>>), e[2])
    [] d.error = 0 /\ e[1] = "key" ->
         [d EXCEPT !.stack = Append(Front(@), WithKey(Last(@), e[2])),
                   !.keys = Append(@, e[2])]
    [] d.error = 0 /\ e[1] \in {"end_object", "end_array"} ->
         Put([d EXCEPT !.stack = Front(@)], Last(d.stack))

\* The value, or the error; without exceptions an error leaves a discarded value.
DomResult(root, error, allow_exceptions) ==
  CASE error = 0 -> root
    [] error = 408 \/ (error # 0 /\ allow_exceptions) -> Throw(error)
    [] OTHER -> Discarded
DomRead(d, error, allow_exceptions) ==
  DomResult(d.root, IF d.error # 0 THEN d.error ELSE error, allow_exceptions)
DomValue(r, allow_exceptions) ==
  DomRead(FoldLeft(DomStep, DomStart, r.events), r.error, allow_exceptions)

parse(s, allow_exceptions, ignore_comments) ==
  DomValue(sax_parse_strict(s, ignore_comments), allow_exceptions)

\* json_sax_acceptor.
accept(s, ignore_comments) == sax_parse_strict(s, ignore_comments).error = 0

\* operator>> leaves what follows the value.
ParsePrefix(s) == DomValue(sax_parse_internal(s, FALSE), TRUE)

-----------------------------------------------------------------------------
(* json_sax_dom_callback_parser.  rejects is the set of the pairs of an event  *)
(* and a depth at which the callback returns false.  An open value that is     *)
(* not kept, a null pointer in the code, is Absent.                            *)

Absent == <<"absent", <<>>>>
CallbackStart ==
  [root |-> Null, stack |-> <<>>, slots |-> <<>>, keep |-> <<TRUE>>,
   key_keep |-> <<>>, element |-> <<>>]

\* handle_value: the consumer after it, and whether the value was stored.
HandleValue(c, val, asked) ==
  LET top == Last(c.stack)
      popped == [c EXCEPT !.key_keep = Front(@)]
  IN CASE ~Last(c.keep) \/ ~asked -> [c |-> c, stored |-> FALSE]
       [] Last(c.keep) /\ asked /\ c.stack = <<>> -> [c |-> [c EXCEPT !.root = val], stored |-> TRUE]
       [] Last(c.keep) /\ asked /\ c.stack # <<>> /\ top = Absent -> [c |-> c, stored |-> FALSE]
       [] Last(c.keep) /\ asked /\ c.stack # <<>> /\ Type(top) = "array" ->
            [c |-> [c EXCEPT !.stack = Append(Front(@), PushBack(top, val))], stored |-> TRUE]
       [] Last(c.keep) /\ asked /\ c.stack # <<>> /\ Type(top) = "object" ->
            IF Last(c.key_keep)
            THEN [c |-> [popped EXCEPT !.stack = Append(Front(@), SetKey(top, c.element, val))],
                  stored |-> TRUE]
            ELSE [c |-> popped, stored |-> FALSE]

OpenedIn(h, val, slot) ==
  [h.c EXCEPT !.stack = Append(@, IF h.stored THEN val ELSE Absent), !.slots = Append(@, slot)]
CallbackOpen(c, val, keep) ==
  OpenedIn(HandleValue([c EXCEPT !.keep = Append(@, keep)], val, TRUE), val, c.element)

\* The value on top of the stack becomes val, where it was stored.
Dropped(c) == [c EXCEPT !.stack = Front(@), !.slots = Front(@), !.keep = Front(@)]
ClosedIn(outer, slot, val) ==
  LET top == Last(outer.stack)
  IN CASE outer.stack = <<>> -> [outer EXCEPT !.root = val]
       [] outer.stack # <<>> /\ Type(top) = "array" ->
            [outer EXCEPT !.stack = Append(Front(@), SetIndex(top, size(top) - 1, val))]
       [] outer.stack # <<>> /\ Type(top) = "object" ->
            [outer EXCEPT !.stack = Append(Front(@), SetKey(top, slot, val))]
Closed(c, val) == ClosedIn(Dropped(c), Last(c.slots), val)

\* The loop of end_object over the value around.
WithoutDiscarded(val) ==
  LET i == SelectInSeq(Elements(val), LAMBDA v : v = Discarded)
  IN IF i = 0 THEN val ELSE <<Type(val), Cut(Payload(val), i - 1, i)>>

Ended(c, keep) ==
  IF Last(c.stack) = Absent THEN Dropped(c)
  ELSE Closed(c, IF keep THEN Last(c.stack) ELSE Discarded)

AroundObject(d) ==
  IF d.stack # <<>> /\ Last(d.stack) # Absent
  THEN [d EXCEPT !.stack = Append(Front(@), WithoutDiscarded(Last(@)))] ELSE d
EndObject(c, keep) == AroundObject(Ended(c, keep))

\* An array that is not kept is taken from the array around it again.
AroundArray(d, removed) ==
  IF removed /\ d.stack # <<>> /\ Type(Last(d.stack)) = "array"
  THEN [d EXCEPT !.stack = Append(Front(@), Array(Front(Payload(Last(@)))))] ELSE d
EndArray(c, keep) == AroundArray(Ended(c, keep), Last(c.stack) # Absent /\ ~keep)

CallbackKey(c, key, keep) ==
  LET d == [c EXCEPT !.key_keep = Append(@, keep)]
  IN IF keep /\ Last(c.stack) # Absent
     THEN [d EXCEPT !.stack = Append(Front(@), SetKey(Last(@), key, Discarded)), !.element = key]
     ELSE d

CallbackStep(c, e, rejects) ==
  LET depth == Len(c.stack)
      Keep(event, d) == <<event, d>> \notin rejects
  IN CASE e[1] = "value"        -> HandleValue(c, e[2], Keep("value", depth)).c
       [] e[1] = "start_object" -> CallbackOpen(c, Object(<<>>), Keep("object_start", depth))
       [] e[1] = "start_array"  -> CallbackOpen(c, Array(<<>>), Keep("array_start", depth))
       [] e[1] = "key"          -> CallbackKey(c, e[2], Keep("key", depth))
       [] e[1] = "end_object"   -> EndObject(c, Keep("object_end", depth - 1))
       [] e[1] = "end_array"    -> EndArray(c, Keep("array_end", depth - 1))

\* parse with a callback.  What is discarded at the top becomes null.
CallbackValue(r, c) ==
  CASE r.error # 0 -> Throw(r.error)
    [] r.error = 0 /\ c.root = Discarded -> Null
    [] OTHER -> c.root
CallbackRead(r, rejects) ==
  CallbackValue(r, FoldLeft(LAMBDA d, e : CallbackStep(d, e, rejects), CallbackStart, r.events))
ParseCallback(s, rejects) == CallbackRead(sax_parse_strict(s, FALSE), rejects)
=============================================================================
