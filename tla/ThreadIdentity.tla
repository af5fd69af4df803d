--------------------------- MODULE ThreadIdentity ---------------------------
(***************************************************************************)
(* How a basic_comm::Thread knows the thread it runs on: IsCurrent         *)
(* compares the identifier that the operating system gives the calling     *)
(* thread with cur_thread_id_, which PreRun stores.  BlockingCall relies   *)
(* on it: the worker executes the functor itself, everybody else posts it. *)
(*                                                                         *)
(* Threads come and go, and the identifier of one that is gone, and whose  *)
(* handle is closed, may be given to another.  The queue is as in module   *)
(* Thread, which has its steps in full; here a task is taken in one step.  *)
(***************************************************************************)
EXTENDS Integers, Sequences, FiniteSets

CONSTANTS
  Clients,        \* threads that use the object
  Owner,          \* the one that starts and stops it, and does not end
  Worker,
  Ids,            \* identifiers of the operating system
  NoId,           \* 0
  Recycle,        \* whether the system gives an identifier twice
  MaxQueue,       \* bound: PostTask finds fewer tasks than this
  Post, NoTask    \* a task of PostTask; none

ASSUME ThreadIdentityAssumption ==
  /\ Owner \in Clients /\ Worker \notin Clients
  /\ NoId \notin Ids /\ Recycle \in BOOLEAN /\ MaxQueue \in Nat
  /\ Post \notin Clients /\ NoTask \notin Clients \cup {Post}

VARIABLES
  id,             \* id[c]: the identifier of c, while it exists
  given,          \* identifiers given so far (bookkeeping)
  cur_thread_id,
  stop, thread,   \* stop_; thread_ is not null
  queue,          \* the tasks: Post, or the client that waits for its functor
  wpc, wtask,     \* where the worker is, and what it executes
  pc              \* pc[c]: where c is in BlockingCall, Start or Stop

osVars == <<id, given>>
vars == <<osVars, cur_thread_id, stop, thread, queue, wpc, wtask, pc>>

Callers == Clients \cup {Worker}

TypeOK ==
  /\ id \in [Callers -> Ids \cup {NoId}]
  /\ given \subseteq Ids
  /\ \A c, d \in Callers : id[c] = id[d] /\ id[c] # NoId => c = d
  /\ id[Worker] = NoId <=> ~thread
  /\ cur_thread_id \in given \cup {NoId}
  /\ stop \in BOOLEAN /\ thread \in BOOLEAN
  /\ queue \in Seq(Clients \cup {Post})
  /\ wpc \in {"none", "prerun", "loop", "task", "exited"}
  /\ wtask \in Clients \cup {Post, NoTask}
  /\ pc \in [Callers -> {"idle", "current", "post", "await", "inline", "create", "join"}]

Init ==
  /\ \E i \in Ids : /\ id = [c \in Callers |-> IF c = Owner THEN i ELSE NoId]
                    /\ given = {i}
  /\ cur_thread_id = NoId
  /\ stop = FALSE /\ thread = FALSE
  /\ queue = <<>>
  /\ wpc = "none" /\ wtask = NoTask
  /\ pc = [c \in Callers |-> "idle"]

-----------------------------------------------------------------------------
(* The operating system. *)

Free == IF Recycle THEN Ids \ {id[c] : c \in Callers} ELSE Ids \ given

Assign(c) ==
  \E i \in Free : id' = [id EXCEPT ![c] = i] /\ given' = given \cup {i}

Appear(c) ==
  /\ c # Owner /\ id[c] = NoId
  /\ Assign(c)
  /\ UNCHANGED <<cur_thread_id, stop, thread, queue, wpc, wtask, pc>>

Vanish(c) ==
  /\ c # Owner /\ id[c] # NoId /\ pc[c] = "idle"
  /\ id' = [id EXCEPT ![c] = NoId]
  /\ UNCHANGED <<given, cur_thread_id, stop, thread, queue, wpc, wtask, pc>>

-----------------------------------------------------------------------------
(* The users. *)

Goto(c, p) == pc' = [pc EXCEPT ![c] = p]

\* c exists, is not in a call, and if it is the worker, executes a task.
MayCall(c) == pc[c] = "idle" /\ id[c] # NoId /\ (c = Worker => wpc = "task")

PostTask(c) ==
  /\ MayCall(c) /\ ~stop /\ Len(queue) < MaxQueue
  /\ queue' = Append(queue, Post)
  /\ UNCHANGED <<osVars, cur_thread_id, stop, thread, wpc, wtask, pc>>

\* BlockingCall, if IsQuitting does not make it return at once.
BlockingCall(c) ==
  /\ MayCall(c) /\ ~stop
  /\ Goto(c, "current")
  /\ UNCHANGED <<osVars, cur_thread_id, stop, thread, queue, wpc, wtask>>

\* (Altered: before the worker has stored its identifier, everyone is current.)
IsCurrentOrUnset(c) == cur_thread_id \in {id[c], NoId}

IsCurrent(c) == id[c] = cur_thread_id

TestCurrent(c) ==
  /\ pc[c] = "current"
  /\ Goto(c, IF IsCurrent(c) THEN "inline" ELSE "post")
  /\ UNCHANGED <<osVars, cur_thread_id, stop, thread, queue, wpc, wtask>>

\* PostTask drops the task, and with it releases the caller, after a Quit.
PostFunctor(c) ==
  /\ pc[c] = "post"
  /\ \/ stop /\ Goto(c, "idle") /\ UNCHANGED queue
     \/ ~stop /\ Goto(c, "await") /\ queue' = Append(queue, c)
  /\ UNCHANGED <<osVars, cur_thread_id, stop, thread, wpc, wtask>>

\* functor() returns in the thread of its caller.
ReturnInline(c) ==
  /\ pc[c] = "inline"
  /\ Goto(c, "idle")
  /\ UNCHANGED <<osVars, cur_thread_id, stop, thread, queue, wpc, wtask>>

Start ==
  /\ MayCall(Owner) /\ ~thread
  /\ stop' = FALSE
  /\ Goto(Owner, "create")
  /\ UNCHANGED <<osVars, cur_thread_id, thread, queue, wpc, wtask>>

CreateThread ==
  /\ pc[Owner] = "create"
  /\ Assign(Worker)
  /\ thread' = TRUE /\ wpc' = "prerun"
  /\ Goto(Owner, "idle")
  /\ UNCHANGED <<cur_thread_id, stop, queue, wtask>>

Stop ==
  /\ MayCall(Owner) /\ thread
  /\ stop' = TRUE
  /\ Goto(Owner, "join")
  /\ UNCHANGED <<osVars, cur_thread_id, thread, queue, wpc, wtask>>

\* The handle is closed: the system forgets the worker, cur_thread_id_ does not.
Join ==
  /\ pc[Owner] = "join" /\ wpc = "exited"
  /\ thread' = FALSE /\ wpc' = "none"
  /\ id' = [id EXCEPT ![Worker] = NoId]
  /\ Goto(Owner, "idle")
  /\ UNCHANGED <<given, cur_thread_id, stop, queue, wtask>>

-----------------------------------------------------------------------------
(* The worker. *)

\* (Altered: the identifier is stored by the first worker only.)
PreRunOnce ==
  /\ wpc = "prerun" /\ wpc' = "loop"
  /\ cur_thread_id' = IF cur_thread_id = NoId THEN id[Worker] ELSE cur_thread_id
  /\ UNCHANGED <<osVars, stop, thread, queue, wtask, pc>>

PreRun ==
  /\ wpc = "prerun" /\ wpc' = "loop"
  /\ cur_thread_id' = id[Worker]
  /\ UNCHANGED <<osVars, stop, thread, queue, wtask, pc>>

Take ==
  /\ wpc = "loop" /\ queue # <<>>
  /\ wpc' = "task" /\ wtask' = Head(queue) /\ queue' = Tail(queue)
  /\ UNCHANGED <<osVars, cur_thread_id, stop, thread, pc>>

\* The task has returned and is destroyed, which releases a client that waits.
Finish ==
  /\ wpc = "task" /\ pc[Worker] = "idle"
  /\ wpc' = "loop" /\ wtask' = NoTask
  /\ pc' = [c \in Callers |-> IF c = wtask THEN "idle" ELSE pc[c]]
  /\ UNCHANGED <<osVars, cur_thread_id, stop, thread, queue>>

\* The loop ends, although a task may have been posted since it looked.
Exit ==
  /\ wpc = "loop" /\ stop
  /\ wpc' = "exited"
  /\ UNCHANGED <<osVars, cur_thread_id, stop, thread, queue, wtask, pc>>

-----------------------------------------------------------------------------
Use(c) ==
  \/ PostTask(c) \/ BlockingCall(c) \/ TestCurrent(c) \/ PostFunctor(c) \/ ReturnInline(c)

Control == Start \/ CreateThread \/ Stop \/ Join

Loop == PreRun \/ Take \/ Finish \/ Exit

Next ==
  \/ \E c \in Clients : Appear(c) \/ Vanish(c)
  \/ \E c \in Callers : Use(c)
  \/ Control
  \/ Loop

Spec == Init /\ [][Next]_vars

-----------------------------------------------------------------------------
\* The threads that execute something for this object.
Executing ==
  {c \in Clients : pc[c] = "inline"} \cup {c \in {Worker} : wpc = "task"}

\* "Tasks never overlap" (task_queue_base.h:22): no two threads execute tasks of
\* the object, or functors given to it, at the same time.
TasksDoNotOverlap == Cardinality(Executing) <= 1

\* The worker recognises itself, in every run of the thread: a BlockingCall made by
\* one of its tasks does not wait for the queue that only the worker serves.
WorkerDoesNotWait == pc[Worker] \notin {"post", "await"}
=============================================================================
