----------------------------- MODULE BusThreads -----------------------------
(***************************************************************************)
(* EventBus composed with basic_comm::Thread: the threads that use the bus *)
(* are Threads, and call each other with BlockingCall, from their tasks    *)
(* and from the onEvent of a handler.  Then a thread waits for two things, *)
(* the mutex of the bus and the answer of another thread, in any nesting.  *)
(*                                                                         *)
(* The queue holds the functors of BlockingCalls only, and the threads     *)
(* live throughout: the queue, Stop and Join are those of module Thread.   *)
(***************************************************************************)
EXTENDS EventBus

CONSTANTS
  Users,          \* the threads that use the bus
  Rank(_)         \* the order in which threads may call each other

\* A thread that does not use the bus calls none that does.
ASSUME BusThreadsAssumption ==
  /\ Users \subseteq Threads
  /\ \A c \in Threads : Rank(c) \in Nat
  /\ \A c \in Users, d \in Threads \ Users : Rank(c) < Rank(d)

VARIABLES
  queue,          \* queue[c]: the callers whose functors are posted to c
  awaits,         \* awaits[c]: the thread for which c waits in BlockingCall
  serving         \* serving[c]: the caller whose functor c executes

threadVars == <<queue, awaits, serving>>
allVars == <<vars, threadVars>>

BTypeOK ==
  /\ TypeOK
  /\ queue \in [Threads -> Seq(Threads)]
  /\ awaits \in [Threads -> Threads \cup {NoOne}]
  /\ serving \in [Threads -> Threads \cup {NoOne}]
  \* A caller waits while its functor is in a queue or executed, and no longer: the
  \* functor uses the caller's stack.
  /\ \A c, d \in Threads :
       awaits[c] = d <=> \/ \E i \in DOMAIN queue[d] : queue[d][i] = c
                         \/ serving[d] = c

BInit ==
  /\ Init
  /\ queue = [c \in Threads |-> <<>>]
  /\ awaits = [c \in Threads |-> NoOne]
  /\ serving = [c \in Threads |-> NoOne]

-----------------------------------------------------------------------------
\* A thread calls threads that come after it only, and from onEvent, where it holds
\* the mutex, none that uses the bus: then neither do those that are called in turn.
MayAsk(c, d) == Rank(c) < Rank(d) /\ (pc[c] = "onEvent" => d \notin Users)

\* BlockingCall of d by c, from a task of c or from a handler.
BlockingCall(c, d) ==
  /\ awaits[c] = NoOne /\ pc[c] \in {"idle", "onEvent"} /\ MayAsk(c, d)
  /\ awaits' = [awaits EXCEPT ![c] = d]
  /\ queue' = [queue EXCEPT ![d] = Append(@, c)]
  /\ UNCHANGED <<vars, serving>>

\* Between two tasks d takes the next functor.
Serve(d) ==
  /\ awaits[d] = NoOne /\ serving[d] = NoOne /\ pc[d] = "idle" /\ queue[d] # <<>>
  /\ serving' = [serving EXCEPT ![d] = Head(queue[d])]
  /\ queue' = [queue EXCEPT ![d] = Tail(@)]
  /\ UNCHANGED <<vars, awaits>>

\* (Altered: the caller's event is set, and the message stays.)
AnswerEarly(d) ==
  /\ serving[d] # NoOne /\ awaits[d] = NoOne /\ pc[d] = "idle"
  /\ awaits' = [awaits EXCEPT ![serving[d]] = NoOne]
  /\ UNCHANGED <<vars, queue, serving>>

\* The functor has returned; with it goes the cleanup that sets the caller's event.
Answer(d) ==
  /\ serving[d] # NoOne /\ awaits[d] = NoOne /\ pc[d] = "idle"
  /\ awaits' = [awaits EXCEPT ![serving[d]] = NoOne]
  /\ serving' = [serving EXCEPT ![d] = NoOne]
  /\ UNCHANGED <<vars, queue>>

\* A thread goes on with the bus while it waits for nobody's answer.
UseBus(c) == awaits[c] = NoOne /\ c \in Users /\ Begin(c) /\ UNCHANGED threadVars

GoOn(c) == awaits[c] = NoOne /\ Continue(c) /\ UNCHANGED threadVars

BNext ==
  \E c \in Threads :
    \/ UseBus(c) \/ GoOn(c)
    \/ \E d \in Threads : BlockingCall(c, d)
    \/ Serve(c) \/ Answer(c)

BSpec == BInit /\ [][BNext]_allVars

\* The mutex is granted to every thread that goes on asking (SF, since others take it
\* meanwhile) and onEvent returns; a worker that is free looks at its queue, and
\* functors return.
BFairSpec ==
  BSpec /\ \A c \in Threads :
    SF_allVars(GoOn(c)) /\ SF_allVars(Serve(c)) /\ SF_allVars(Answer(c))

-----------------------------------------------------------------------------
\* c waits, for an answer or for the mutex, ...
Blocked(c) ==
  awaits[c] # NoOne \/ (pc[c] \in {"add", "remove", "send"} /\ mutex # NoOne)

\* ... until this thread has gone on.
WaitsFor(c) == IF awaits[c] # NoOne THEN awaits[c] ELSE mutex

\* c is in a method of the bus, or has a functor to execute.
AtWork(c) == pc[c] # "idle" \/ serving[c] # NoOne \/ queue[c] # <<>>

\* SendEvent holds the mutex while handlers wait in BlockingCall, but no threads ever
\* wait for each other in a circle, and a thread that is waited for has not forgotten
\* it: it waits itself, or has a step to take.
NoDeadlock ==
  /\ \A S \in SUBSET Threads :
       S # {} => \E c \in S : ~(Blocked(c) /\ WaitsFor(c) \in S)
  /\ \A c \in Threads : Blocked(c) => AtWork(WaitsFor(c))

\* Threads that call each other in one order, and none that uses the bus from onEvent,
\* never wait for each other in a circle, although SendEvent holds the mutex while
\* onEvent runs and BlockingCall waits for ever: every call returns, of the bus and of
\* BlockingCall.  No path through SendEvent or the others keeps the mutex either.
EveryCallReturns ==
  /\ \A c \in Users : pc[c] \in {"add", "remove", "send"} ~> pc[c] = "idle"
  /\ \A c \in Threads : awaits[c] # NoOne ~> awaits[c] = NoOne
=============================================================================
