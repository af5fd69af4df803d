----------------------------- MODULE ThreadPool -----------------------------
(***************************************************************************)
(* basic_comm::ThreadPool (thread/ThreadPool.h): a fixed set of workers    *)
(* that share a deque of tasks, one mutex and one condition variable.      *)
(*                                                                         *)
(* A step is one section under queue_mutex, one notification, or one       *)
(* access to stop outside the mutex.  Only the section that waits on the   *)
(* condition variable is split, between the test of the predicate and the  *)
(* blocking: stopPool takes no lock and can come in between.               *)
(***************************************************************************)
EXTENDS Integers, Sequences, FiniteSets

CONSTANTS
  Workers,   \* the threads of the pool
  Clients,   \* other threads that use the pool
  Owner,     \* the client that destroys it
  Tasks,     \* packaged tasks: each is enqueued at most once
  NoTask

Callers == Clients \cup Workers     \* a task may use the pool that runs it

ASSUME PoolAssumption ==
  /\ Owner \in Clients
  /\ Workers \cap Clients = {}
  /\ NoTask \notin Tasks
  /\ IsFiniteSet(Callers)

VARIABLES
  tasks,      \* the deque, front first
  stop,
  destroyed,  \* the destructor has returned
  wpc,        \* wpc[w]: where worker w is
  wtask,      \* wtask[w]: the task w executes
  pc,         \* pc[c]: where caller c is in a method of the pool
  arg,        \* arg[c]: the task c is enqueueing
  fate        \* fate[t]: where the packaged task is; its future is ready when it
              \* "ran", broken when it was "dropped", empty when it was "refused"

vars == <<tasks, stop, destroyed, wpc, wtask, pc, arg, fate>>

TypeOK ==
  /\ tasks \in Seq(Tasks)
  /\ stop \in BOOLEAN /\ destroyed \in BOOLEAN
  /\ wpc \in [Workers -> {"lock", "sleep", "waiting", "woken", "take", "run", "exited"}]
  /\ wtask \in [Workers -> Tasks \cup {NoTask}]
  /\ pc \in [Callers -> {"idle", "push", "pushFirst", "notify", "clear",
                         "stopNotify", "dtor", "notifyAll", "join"}]
  /\ arg \in [Callers -> Tasks \cup {NoTask}]
  /\ fate \in [Tasks -> {"fresh", "posting", "refused", "queued", "running", "ran",
                         "dropped"}]

Init ==
  /\ tasks = <<>> /\ stop = FALSE /\ destroyed = FALSE
  /\ wpc = [w \in Workers |-> "lock"] /\ wtask = [w \in Workers |-> NoTask]
  /\ pc = [c \in Callers |-> "idle"] /\ arg = [c \in Callers |-> NoTask]
  /\ fate = [t \in Tasks |-> "fresh"]

-----------------------------------------------------------------------------
Unlocked == \A w \in Workers : wpc[w] \notin {"sleep", "take"}

Waiting == {w \in Workers : wpc[w] = "waiting"}

\* Nobody uses the pool from outside once its destruction has begun.
MayCall(c) ==
  /\ pc[c] = "idle" /\ ~destroyed
  /\ IF c \in Workers THEN wpc[c] = "run"
                      ELSE pc[Owner] \notin {"dtor", "notifyAll", "join"}

Goto(c, p) == pc' = [pc EXCEPT ![c] = p]

\* tasks.clear(), and the end of the deque: the futures are broken.
DropTasks ==
  /\ tasks' = <<>>
  /\ fate' = [t \in Tasks |-> IF fate[t] = "queued" THEN "dropped" ELSE fate[t]]

-----------------------------------------------------------------------------
(* enqueue and enqueue_first (f), stopPool, clearTask. *)

Enqueue(c, t, f) ==
  /\ MayCall(c) /\ fate[t] = "fresh"
  /\ fate' = [fate EXCEPT ![t] = "posting"]
  /\ arg' = [arg EXCEPT ![c] = t]
  /\ Goto(c, IF f THEN "pushFirst" ELSE "push")
  /\ UNCHANGED <<tasks, stop, destroyed, wpc, wtask>>

\* (Altered: only the push that ends the emptiness of the deque is notified.)
NextStepIfEmpty == IF tasks = <<>> THEN "notify" ELSE "idle"

\* notify_one follows every push.
NextStep == "notify"

\* (Altered: enqueue_first is like enqueue.)
PushedBack(c) == Append(tasks, arg[c])

\* emplace_front, or emplace_back.
Pushed(c) ==
  IF pc[c] = "pushFirst" THEN <<arg[c]>> \o tasks ELSE Append(tasks, arg[c])

\* Under the mutex: refused after stop, else into the deque.
Push(c) ==
  /\ pc[c] \in {"push", "pushFirst"} /\ Unlocked
  /\ \/ /\ stop
        /\ fate' = [fate EXCEPT ![arg[c]] = "refused"]
        /\ Goto(c, "idle")
        /\ UNCHANGED tasks
     \/ /\ ~stop
        /\ tasks' = Pushed(c)
        /\ fate' = [fate EXCEPT ![arg[c]] = "queued"]
        /\ Goto(c, NextStep)
  /\ arg' = [arg EXCEPT ![c] = NoTask]
  /\ UNCHANGED <<stop, destroyed, wpc, wtask>>

\* notify_one wakes one of the waiting threads, if there is one.
Notify(c) ==
  /\ pc[c] \in {"notify", "stopNotify"}
  /\ \/ \E w \in Waiting : wpc' = [wpc EXCEPT ![w] = "woken"]
     \/ Waiting = {} /\ UNCHANGED wpc
  /\ Goto(c, "idle")
  /\ UNCHANGED <<tasks, stop, destroyed, wtask, arg, fate>>

StopPool(c) ==
  /\ MayCall(c)
  /\ stop' = TRUE
  /\ Goto(c, "stopNotify")
  /\ UNCHANGED <<tasks, destroyed, wpc, wtask, arg, fate>>

\* clearTask returns at once after stop; the test is outside the mutex.
ClearTask(c) ==
  /\ MayCall(c) /\ ~stop
  /\ Goto(c, "clear")
  /\ UNCHANGED <<tasks, stop, destroyed, wpc, wtask, arg, fate>>

Clear(c) ==
  /\ pc[c] = "clear" /\ Unlocked
  /\ DropTasks
  /\ Goto(c, "idle")
  /\ UNCHANGED <<stop, destroyed, wpc, wtask, arg>>

-----------------------------------------------------------------------------
(* The destructor. *)

Destroy ==
  /\ MayCall(Owner)
  /\ \A c \in Clients : pc[c] = "idle"
  /\ Goto(Owner, "dtor")
  /\ UNCHANGED <<tasks, stop, destroyed, wpc, wtask, arg, fate>>

\* (Altered: stop is set without the mutex.)
DtorStopUnlocked ==
  /\ pc[Owner] = "dtor"
  /\ stop' = TRUE
  /\ Goto(Owner, "notifyAll")
  /\ UNCHANGED <<tasks, destroyed, wpc, wtask, arg, fate>>

DtorStop ==
  /\ pc[Owner] = "dtor" /\ Unlocked
  /\ stop' = TRUE
  /\ Goto(Owner, "notifyAll")
  /\ UNCHANGED <<tasks, destroyed, wpc, wtask, arg, fate>>

NotifyAll ==
  /\ pc[Owner] = "notifyAll"
  /\ wpc' = [w \in Workers |-> IF w \in Waiting THEN "woken" ELSE wpc[w]]
  /\ Goto(Owner, "join")
  /\ UNCHANGED <<tasks, stop, destroyed, wtask, arg, fate>>

\* (Altered: a worker that is still in a task is not joined.)
JoinedIfFree == \A w \in Workers : wpc[w] \in {"run", "exited"}

\* worker.join() has returned for every worker.
Joined == \A w \in Workers : wpc[w] = "exited"

\* The members go after the last join, and with the deque the tasks left in it.
DtorReturn ==
  /\ pc[Owner] = "join" /\ Joined
  /\ destroyed' = TRUE
  /\ DropTasks
  /\ Goto(Owner, "idle")
  /\ UNCHANGED <<stop, wpc, wtask, arg>>

-----------------------------------------------------------------------------
(* A worker. *)

\* It has the mutex, for the first time or after a wake-up, and tests the predicate
\* of condition.wait.
Test(w) ==
  /\ wpc[w] \in {"lock", "woken"} /\ Unlocked
  /\ wpc' = [wpc EXCEPT ![w] = IF stop \/ tasks # <<>> THEN "take" ELSE "sleep"]
  /\ UNCHANGED <<tasks, stop, destroyed, wtask, pc, arg, fate>>

\* The wait releases the mutex and blocks, at once.
Sleep(w) ==
  /\ wpc[w] = "sleep"
  /\ wpc' = [wpc EXCEPT ![w] = "waiting"]
  /\ UNCHANGED <<tasks, stop, destroyed, wtask, pc, arg, fate>>

\* A condition variable may wake a thread for no reason.
WakeSpuriously(w) ==
  /\ wpc[w] = "waiting"
  /\ wpc' = [wpc EXCEPT ![w] = "woken"]
  /\ UNCHANGED <<tasks, stop, destroyed, wtask, pc, arg, fate>>

\* The wait is over: the worker ends, or takes the front task and unlocks.
Take(w) ==
  /\ wpc[w] = "take"
  /\ \/ /\ stop \/ tasks = <<>>
        /\ wpc' = [wpc EXCEPT ![w] = "exited"]
        /\ UNCHANGED <<tasks, wtask, fate>>
     \/ /\ ~stop /\ tasks # <<>>
        /\ wpc' = [wpc EXCEPT ![w] = "run"]
        /\ wtask' = [wtask EXCEPT ![w] = Head(tasks)]
        /\ fate' = [fate EXCEPT ![Head(tasks)] = "running"]
        /\ tasks' = Tail(tasks)
  /\ UNCHANGED <<stop, destroyed, pc, arg>>

\* task() returns, which makes the future ready; then the test of stop.
Finish(w) ==
  /\ wpc[w] = "run" /\ pc[w] = "idle"
  /\ fate' = [fate EXCEPT ![wtask[w]] = "ran"]
  /\ wtask' = [wtask EXCEPT ![w] = NoTask]
  /\ wpc' = [wpc EXCEPT ![w] = IF stop THEN "exited" ELSE "lock"]
  /\ UNCHANGED <<tasks, stop, destroyed, pc, arg>>

-----------------------------------------------------------------------------
Begin(c) ==
  \/ \E t \in Tasks, f \in BOOLEAN : Enqueue(c, t, f)
  \/ StopPool(c) \/ ClearTask(c)

Continue(c) == Push(c) \/ Notify(c) \/ Clear(c)

Destructor == DtorStop \/ NotifyAll \/ DtorReturn

Work(w) == Test(w) \/ Sleep(w) \/ Take(w) \/ Finish(w)

Next ==
  \/ \E c \in Callers : Begin(c) \/ Continue(c)
  \/ Destroy \/ Destructor
  \/ \E w \in Workers : Work(w) \/ WakeSpuriously(w)

Spec == Init /\ [][Next]_vars

\* Every thread that can go on goes on, and a thread that competes for the mutex
\* gets it in the end.  Tasks return.
FairSpec ==
  /\ Spec
  /\ SF_vars(Destructor)
  /\ \A c \in Callers : SF_vars(Continue(c))
  /\ \A w \in Workers : SF_vars(Work(w))

-----------------------------------------------------------------------------
\* While a worker sleeps, every task in the deque has its wake-up on the way: the
\* notification that follows its push is still to come, or has woken a worker that
\* has not taken a task yet.  So the pool works as wide as it can, although a worker
\* that was not asleep may take a task that another was woken for.
WakeUpPerTask ==
  ~stop /\ Waiting # {} =>
    Len(tasks) <= Cardinality({c \in Callers : pc[c] = "notify"})
                  + Cardinality({w \in Workers : wpc[w] \in {"woken", "take"}})

\* When the destructor returns no worker runs, and no future is left unresolved.
DestroyedIsResolved ==
  destroyed =>
    /\ \A w \in Workers : wpc[w] = "exited" /\ wtask[w] = NoTask
    /\ \A t \in Tasks : fate[t] \notin {"posting", "queued", "running"}

\* Until the pool stops, every task in the deque is executed or cleared; and the
\* destructor returns, whether or not stopPool was called before: stopPool wakes one
\* worker at most, and the others sleep until the destructor wakes them.
NothingHangs ==
  /\ \A t \in Tasks : fate[t] = "queued" ~> fate[t] \in {"ran", "dropped"} \/ stop
  /\ pc[Owner] = "dtor" ~> destroyed

\* The pool implements its contract: a task that is asked for with enqueue_first is one
\* whose caller is about to push it to the front.
Contract == INSTANCE PoolContract WITH
  first   <- {t \in Tasks : \E c \in Callers : pc[c] = "pushFirst" /\ arg[c] = t},
  running <- wtask

ImplementsContract == Contract!PoolSpec
=============================================================================
