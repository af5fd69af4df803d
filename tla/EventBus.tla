------------------------------ MODULE EventBus ------------------------------
(***************************************************************************)
(* basic_comm_eventbus::EventBus (EventBus/EventBus.hpp, EventBus.cpp):    *)
(* handlers register for a type of event, and SendEvent dispatches an      *)
(* event to all of its type, in the thread of the sender, with the one     *)
(* mutex of the bus held throughout.                                       *)
(*                                                                         *)
(* AddHandler and RemoveHandler are one step each: they are one section    *)
(* under the mutex.  SendEvent takes a step to lock, two for each handler  *)
(* (onEvent begins, onEvent returns) and one to unlock.  The objects that  *)
(* handle events come and go: as in app/widget.cpp each is created,        *)
(* registers, deregisters as often, and is destroyed by its own thread.    *)
(***************************************************************************)
EXTENDS Integers, Sequences, FiniteSets, SequencesExt

CONSTANTS
  Threads,
  Handlers,
  Types,          \* dynamic types of events
  MaxHolders,     \* bound: registrations that exist for one type
  NoOne,
  NoHandler,
  NoType,
  OwnerOf(_)      \* OwnerOf(h): the thread that creates and destroys h

ASSUME EventBusAssumption ==
  /\ IsFiniteSet(Threads) /\ MaxHolders \in Nat
  /\ NoOne \notin Threads /\ NoHandler \notin Handlers /\ NoType \notin Types
  /\ \A h \in Handlers : OwnerOf(h) \in Threads

VARIABLES
  handlers,       \* handlers[ty]: the registered handlers, oldest first
  mutex,          \* the thread in SendEvent that holds _mutex
  alive,          \* the handler objects that exist
  held,           \* held[h][ty]: AddHandlers less RemoveHandlers of h (bookkeeping)
  pc,             \* pc[c]: where c is in a method of the bus
  type, target,   \* type[c], target[c]: the arguments of its call
  next,           \* next[c]: position of c's loop over the holders
  running,        \* running[c]: the handler whose onEvent c executes
  seen            \* seen[c]: the handlers to which c dispatched (bookkeeping)

callVars == <<pc, type, target, next, running, seen>>
vars == <<handlers, mutex, alive, held, callVars>>

TypeOK ==
  /\ handlers \in [Types -> Seq(Handlers)]
  /\ mutex \in Threads \cup {NoOne}
  /\ \A c \in Threads : mutex = c <=> pc[c] \in {"loop", "onEvent"}
  /\ alive \subseteq Handlers
  /\ held \in [Handlers -> [Types -> 0 .. MaxHolders]]
  /\ pc \in [Threads -> {"idle", "add", "remove", "send", "loop", "onEvent"}]
  /\ type \in [Threads -> Types \cup {NoType}]
  /\ \A c \in Threads : type[c] = NoType <=> pc[c] = "idle"
  /\ target \in [Threads -> Handlers \cup {NoHandler}]
  /\ next \in [Threads -> 1 .. MaxHolders + 1]
  /\ running \in [Threads -> Handlers \cup {NoHandler}]
  /\ seen \in [Threads -> Seq(Handlers)]

Init ==
  /\ handlers = [ty \in Types |-> <<>>] /\ mutex = NoOne /\ alive = {}
  /\ held = [h \in Handlers |-> [ty \in Types |-> 0]]
  /\ pc = [c \in Threads |-> "idle"]
  /\ type = [c \in Threads |-> NoType] /\ target = [c \in Threads |-> NoHandler]
  /\ next = [c \in Threads |-> 1] /\ running = [c \in Threads |-> NoHandler]
  /\ seen = [c \in Threads |-> <<>>]

-----------------------------------------------------------------------------
Goto(c, p) == pc' = [pc EXCEPT ![c] = p]

Create(c, h) ==
  /\ pc[c] = "idle" /\ OwnerOf(h) = c /\ h \notin alive
  /\ alive' = alive \cup {h}
  /\ UNCHANGED <<handlers, mutex, held, callVars>>

\* An object deregisters what it registered before it is gone.
Destroy(c, h) ==
  /\ pc[c] = "idle" /\ OwnerOf(h) = c /\ h \in alive
  /\ \A ty \in Types : held[h][ty] = 0
  /\ alive' = alive \ {h}
  /\ UNCHANGED <<handlers, mutex, held, callVars>>

\* A thread calls the bus.  It does not do so from onEvent, where it would wait for
\* the mutex it holds.
Call(c, p, ty, h) ==
  /\ pc[c] = "idle"
  /\ Goto(c, p)
  /\ type' = [type EXCEPT ![c] = ty]
  /\ target' = [target EXCEPT ![c] = h]
  /\ UNCHANGED <<handlers, mutex, alive, held, next, running, seen>>

AddHandler(c, ty, h) ==
  /\ OwnerOf(h) = c /\ h \in alive
  /\ Len(handlers[ty]) + Cardinality({d \in Threads : pc[d] = "add"}) < MaxHolders
  /\ Call(c, "add", ty, h)

RemoveHandler(c, ty, h) ==
  /\ OwnerOf(h) = c /\ h \in alive
  /\ Call(c, "remove", ty, h)

SendEvent(c, ty) == Call(c, "send", ty, NoHandler)

-----------------------------------------------------------------------------
\* c's call returns.
Done(c) ==
  /\ Goto(c, "idle")
  /\ type' = [type EXCEPT ![c] = NoType]
  /\ target' = [target EXCEPT ![c] = NoHandler]

\* The list is created with its first holder; a type without a list is like one
\* with an empty list.
Register(c) ==
  /\ pc[c] = "add" /\ mutex = NoOne
  /\ handlers' = [handlers EXCEPT ![type[c]] = Append(@, target[c])]
  /\ held' = [held EXCEPT ![target[c]][type[c]] = @ + 1]
  /\ Done(c)
  /\ UNCHANGED <<mutex, alive, next, running, seen>>

\* The oldest holder of h is gone, if there is one.
Without(s, h) == RemoveFirst(s, h)

\* (Altered: the mutex is not taken.)
DeregisterUnlocked(c) ==
  /\ pc[c] = "remove"
  /\ handlers' = [handlers EXCEPT ![type[c]] = Without(@, target[c])]
  /\ held' = [held EXCEPT ![target[c]][type[c]] = IF @ > 0 THEN @ - 1 ELSE 0]
  /\ Done(c)
  /\ UNCHANGED <<mutex, alive, next, running, seen>>

Deregister(c) ==
  /\ pc[c] = "remove" /\ mutex = NoOne
  /\ handlers' = [handlers EXCEPT ![type[c]] = Without(@, target[c])]
  /\ held' = [held EXCEPT ![target[c]][type[c]] = IF @ > 0 THEN @ - 1 ELSE 0]
  /\ Done(c)
  /\ UNCHANGED <<mutex, alive, next, running, seen>>

LockSend(c) ==
  /\ pc[c] = "send" /\ mutex = NoOne
  /\ mutex' = c
  /\ next' = [next EXCEPT ![c] = 1]
  /\ seen' = [seen EXCEPT ![c] = <<>>]
  /\ Goto(c, "loop")
  /\ UNCHANGED <<handlers, alive, held, type, target, running>>

\* The next holder's handler is called.
Dispatch(c) ==
  /\ pc[c] = "loop" /\ next[c] \in DOMAIN handlers[type[c]]
  /\ running' = [running EXCEPT ![c] = handlers[type[c]][next[c]]]
  /\ seen' = [seen EXCEPT ![c] = Append(@, handlers[type[c]][next[c]])]
  /\ Goto(c, "onEvent")
  /\ UNCHANGED <<handlers, mutex, alive, held, type, target, next>>

Return(c) ==
  /\ pc[c] = "onEvent"
  /\ running' = [running EXCEPT ![c] = NoHandler]
  /\ next' = [next EXCEPT ![c] = @ + 1]
  /\ Goto(c, "loop")
  /\ UNCHANGED <<handlers, mutex, alive, held, type, target, seen>>

\* (Altered: the mutex is not given back when the list is empty.)
UnlockIfCalled(c) == mutex' = IF seen[c] = <<>> THEN c ELSE NoOne

Unlock(c) == mutex' = NoOne

EndSend(c) ==
  /\ pc[c] = "loop" /\ next[c] \notin DOMAIN handlers[type[c]]
  /\ Unlock(c)
  /\ seen' = [seen EXCEPT ![c] = <<>>]
  /\ next' = [next EXCEPT ![c] = 1]
  /\ Done(c)
  /\ UNCHANGED <<handlers, alive, held, running>>

-----------------------------------------------------------------------------
Begin(c) ==
  \/ \E h \in Handlers : Create(c, h) \/ Destroy(c, h)
  \/ \E ty \in Types, h \in Handlers : AddHandler(c, ty, h) \/ RemoveHandler(c, ty, h)
  \/ \E ty \in Types : SendEvent(c, ty)

Continue(c) ==
  Register(c) \/ Deregister(c) \/ LockSend(c) \/ Dispatch(c) \/ Return(c) \/ EndSend(c)

Next == \E c \in Threads : Begin(c) \/ Continue(c)

Spec == Init /\ [][Next]_vars

-----------------------------------------------------------------------------
\* No handler is called after it deregistered and was destroyed, and none is
\* destroyed while it handles an event, although it handles it in the thread of the
\* sender: RemoveHandler does not return during a dispatch.
CalledIsAlive ==
  \A c \in Threads : running[c] # NoHandler => running[c] \in alive

\* SendEvent calls every handler that is registered when it ends, once for each
\* registration, in the order of registration, and no other.
SentToAll ==
  [][\A c \in Threads :
       pc[c] = "loop" /\ pc'[c] = "idle" => seen[c] = handlers[type[c]]]_vars
=============================================================================
