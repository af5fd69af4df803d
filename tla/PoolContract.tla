---------------------------- MODULE PoolContract ----------------------------
(***************************************************************************)
(* What basic_comm::ThreadPool (thread/ThreadPool.h) promises to who uses  *)
(* it: tasks are begun from the front of one deque, by workers that        *)
(* execute one each; enqueue puts a task at the back and enqueue_first at  *)
(* the front; nothing is accepted or begun after the pool was stopped; and *)
(* every task is resolved, once, before the pool is gone.  Nothing is said *)
(* of the mutex, of wake-ups, or of when workers leave.                    *)
(***************************************************************************)
EXTENDS Sequences

CONSTANTS
  Workers,
  Tasks,
  NoTask

VARIABLES
  tasks,      \* the tasks that were accepted and have not begun, front first
  first,      \* the tasks asked for with enqueue_first and not accepted yet
  fate,       \* fate[t]: what has become of t
  running,    \* running[w]: the task that worker w executes, or NoTask
  stop,
  destroyed

poolVars == <<tasks, first, fate, running, stop, destroyed>>

PoolInit ==
  /\ tasks = <<>> /\ first = {} /\ stop = FALSE /\ destroyed = FALSE
  /\ fate = [t \in Tasks |-> "fresh"]
  /\ running = [w \in Workers |-> NoTask]

\* enqueue and enqueue_first are called, ...
Ask(t, f) ==
  /\ ~destroyed /\ fate[t] = "fresh"
  /\ fate' = [fate EXCEPT ![t] = "posting"]
  /\ first' = IF f THEN first \cup {t} ELSE first
  /\ UNCHANGED <<tasks, running, stop, destroyed>>

\* ... and the task is accepted, or refused by a pool that has stopped.
Accept(t) ==
  /\ ~destroyed /\ ~stop /\ fate[t] = "posting"
  /\ fate' = [fate EXCEPT ![t] = "queued"]
  /\ tasks' = IF t \in first THEN <<t>> \o tasks ELSE Append(tasks, t)
  /\ first' = first \ {t}
  /\ UNCHANGED <<running, stop, destroyed>>

Refuse(t) ==
  /\ ~destroyed /\ stop /\ fate[t] = "posting"
  /\ fate' = [fate EXCEPT ![t] = "refused"]
  /\ first' = first \ {t}
  /\ UNCHANGED <<tasks, running, stop, destroyed>>

\* A worker that is free begins the front task, which is waiting and nothing else.
Start(w) ==
  /\ ~destroyed /\ ~stop /\ running[w] = NoTask
  /\ tasks # <<>> /\ fate[Head(tasks)] = "queued"
  /\ running' = [running EXCEPT ![w] = Head(tasks)]
  /\ fate' = [fate EXCEPT ![Head(tasks)] = "running"]
  /\ tasks' = Tail(tasks)
  /\ UNCHANGED <<first, stop, destroyed>>

\* The task returns: its future is ready.
End(w) ==
  /\ ~destroyed /\ running[w] # NoTask /\ fate[running[w]] = "running"
  /\ fate' = [fate EXCEPT ![running[w]] = "ran"]
  /\ running' = [running EXCEPT ![w] = NoTask]
  /\ UNCHANGED <<tasks, first, stop, destroyed>>

\* The tasks in the deque, and no others, are destroyed: their futures are broken.
Dropped ==
  /\ tasks' = <<>>
  /\ fate' = [t \in Tasks |->
                IF \E i \in DOMAIN tasks : tasks[i] = t THEN "dropped" ELSE fate[t]]

ClearAll == ~destroyed /\ Dropped /\ UNCHANGED <<first, running, stop, destroyed>>

Shut == ~destroyed /\ stop' = TRUE /\ UNCHANGED <<tasks, first, fate, running, destroyed>>

\* The destructor returns when nothing is asked for and nothing runs, and drops the
\* rest.
Vanish ==
  /\ ~destroyed /\ stop
  /\ \A t \in Tasks : fate[t] \notin {"posting", "running"}
  /\ \A w \in Workers : running[w] = NoTask
  /\ Dropped
  /\ destroyed' = TRUE
  /\ UNCHANGED <<first, running, stop>>

PoolNext ==
  \/ \E t \in Tasks : (\E f \in BOOLEAN : Ask(t, f)) \/ Accept(t) \/ Refuse(t)
  \/ \E w \in Workers : Start(w) \/ End(w)
  \/ ClearAll \/ Shut \/ Vanish

PoolSpec == PoolInit /\ [][PoolNext]_poolVars
=============================================================================
