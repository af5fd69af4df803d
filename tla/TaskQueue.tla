----------------------------- MODULE TaskQueue -----------------------------
(***************************************************************************)
(* The contract of TaskQueueBase (thread/task_queue_base.h): tasks are     *)
(* executed one at a time, in the order in which they were accepted, each  *)
(* at most once, and after the queue is deleted none of the pending tasks  *)
(* is executed: they are destroyed.  Nothing is said of which thread runs  *)
(* the tasks, of wake-ups, or of when a delayed task is accepted.          *)
(***************************************************************************)
EXTENDS Sequences

CONSTANTS Tasks,     \* the task objects (AnyInvocable: move-only, unique)
          NoTask     \* "no task is executing"

VARIABLES queue,     \* accepted tasks that have not begun, oldest first
          current,   \* the task that is executing, or NoTask
          begun,     \* every task that has begun to execute
          deleted    \* Delete has been called

tqVars == <<queue, current, begun, deleted>>

TQInit ==
  /\ queue = <<>>
  /\ current = NoTask
  /\ begun = {}
  /\ deleted = FALSE

\* A task enters at the tail, and is not there already.
Accept(t) ==
  /\ ~deleted
  /\ t \notin begun
  /\ \A i \in DOMAIN queue : queue[i] # t
  /\ queue' = Append(queue, t)
  /\ UNCHANGED <<current, begun, deleted>>

\* Tasks never overlap, and none begins twice.
Begin ==
  /\ ~deleted
  /\ current = NoTask
  /\ queue # <<>>
  /\ Head(queue) \notin begun
  /\ current' = Head(queue)
  /\ begun' = begun \cup {Head(queue)}
  /\ queue' = Tail(queue)
  /\ UNCHANGED deleted

End ==
  /\ current # NoTask
  /\ current' = NoTask
  /\ UNCHANGED <<queue, begun, deleted>>

\* "On return ensures no task are running and no new tasks are able to
\* start": the pending tasks are destroyed without being executed.
Delete ==
  /\ ~deleted
  /\ current = NoTask
  /\ deleted' = TRUE
  /\ queue' = <<>>
  /\ UNCHANGED <<current, begun>>

TQNext ==
  \/ \E t \in Tasks : Accept(t)
  \/ Begin
  \/ End
  \/ Delete

TQSpec == TQInit /\ [][TQNext]_tqVars
=============================================================================
