----------------------------- MODULE PoolProofs -----------------------------
(***************************************************************************)
(* Theorems about ThreadPool: no wake-up is lost, and the destructor       *)
(* leaves no future unresolved, for any number of workers, callers and     *)
(* tasks.                                                                  *)
(***************************************************************************)
EXTENDS ThreadPool, SequenceTheorems, FiniteSetTheorems, TLAPS

USE PoolAssumption DEF PoolAssumption

-----------------------------------------------------------------------------
(* Where a task is. *)

\* The deque holds the tasks that are queued, each once.
Queued ==
  /\ \A i \in 1 .. Len(tasks) : fate[tasks[i]] = "queued"
  /\ \A i, j \in 1 .. Len(tasks) : tasks[i] = tasks[j] => i = j
  /\ \A t \in Tasks : fate[t] = "queued" => \E i \in 1 .. Len(tasks) : tasks[i] = t

\* A task that is being posted is the argument of one call.
Pushing == {c \in Callers : pc[c] \in {"push", "pushFirst"}}

Posting ==
  /\ \A c \in Pushing : arg[c] \in Tasks /\ fate[arg[c]] = "posting"
  /\ \A c, d \in Pushing : arg[c] = arg[d] => c = d
  /\ \A t \in Tasks : fate[t] = "posting" => \E c \in Pushing : arg[c] = t

\* A task that runs is run by one worker.
Running ==
  /\ \A w \in Workers : IF wpc[w] = "run" THEN wtask[w] \in Tasks /\ fate[wtask[w]] = "running"
                                          ELSE wtask[w] = NoTask
  /\ \A v, w \in Workers : wtask[v] = wtask[w] /\ wtask[v] # NoTask => v = w
  /\ \A t \in Tasks : fate[t] = "running" => \E w \in Workers : wtask[w] = t

-----------------------------------------------------------------------------
(* Who is in the pool. *)

\* A worker calls the pool from its tasks only, and only the owner destroys it.
Roles ==
  /\ \A w \in Workers : pc[w] # "idle" => wpc[w] = "run"
  /\ \A c \in Callers : pc[c] \in {"dtor", "notifyAll", "join"} => c = Owner

\* Nobody else uses the pool from the destructor on, and nothing happens after it.
Ending ==
  /\ pc[Owner] \in {"dtor", "notifyAll", "join"} => \A c \in Clients \ {Owner} : pc[c] = "idle"
  /\ destroyed => /\ tasks = <<>>
                  /\ \A c \in Clients : pc[c] = "idle"
                  /\ \A w \in Workers : wpc[w] = "exited"

PoolInv == TypeOK /\ Queued /\ Posting /\ Running /\ Roles /\ Ending

-----------------------------------------------------------------------------
(* Who is awake. *)

Notifying == {c \in Callers : pc[c] = "notify"}

Awake == {w \in Workers : wpc[w] \in {"woken", "take"}}

\* A worker that has the mutex and is about to block has seen no task, and none came.
SleepsOnEmpty == \A w \in Workers : wpc[w] = "sleep" => tasks = <<>>

WakeInv == SleepsOnEmpty /\ WakeUpPerTask

-----------------------------------------------------------------------------
(* The pool is consistent. *)

\* At first the deque is empty and nobody does anything.
LEMMA PoolInit == Init => PoolInv /\ WakeInv
<1> SUFFICES ASSUME Init PROVE PoolInv /\ WakeInv
  OBVIOUS
<1>1. tasks = <<>> /\ tasks \in Seq(Tasks) /\ Len(tasks) = 0
  BY DEF Init
<1>2. Waiting = {} /\ Pushing = {}
  BY DEF Init, Waiting, Pushing
<1>3. TypeOK
  BY <1>1 DEF Init, TypeOK
<1>4. Queued /\ Posting /\ Running
  BY <1>1, <1>2 DEF Init, Queued, Posting, Running
<1>5. Roles /\ Ending
  BY DEF Init, Roles, Ending, Callers
<1>6. WakeInv
  BY <1>1, <1>2 DEF Init, WakeInv, SleepsOnEmpty, WakeUpPerTask
<1> QED
  BY <1>3, <1>4, <1>5, <1>6 DEF PoolInv

\* Every step keeps types, ...
LEMMA TypeStep ==
  ASSUME PoolInv, [Next]_vars
  PROVE  TypeOK'
<1> USE DEF PoolInv, TypeOK, Goto
<1>1. ASSUME NEW c \in Callers, NEW t \in Tasks, NEW f \in BOOLEAN, Enqueue(c, t, f)
      PROVE  TypeOK'
  BY <1>1 DEF Enqueue
<1>2. ASSUME NEW c \in Callers, StopPool(c) \/ ClearTask(c) PROVE TypeOK'
  BY <1>2 DEF StopPool, ClearTask
<1>11. ASSUME NEW c \in Callers, Clear(c) PROVE TypeOK'
  BY <1>11 DEF Clear, DropTasks
<1>3. ASSUME NEW c \in Callers, Push(c) PROVE TypeOK'
  <2>1. arg[c] \in Tasks
    BY <1>3 DEF Push, Posting, Pushing
  <2>2. <<arg[c]>> \o tasks \in Seq(Tasks) /\ Append(tasks, arg[c]) \in Seq(Tasks)
    BY <2>1
  <2> QED
    BY <1>3, <2>1, <2>2 DEF Push, NextStep, Pushed
<1>4. ASSUME NEW c \in Callers, Notify(c) PROVE TypeOK'
  BY <1>4 DEF Notify, Waiting
<1>5. CASE Destroy \/ DtorStop \/ NotifyAll
  BY <1>5 DEF Destroy, DtorStop, NotifyAll, Callers
<1>6. CASE DtorReturn
  BY <1>6 DEF DtorReturn, DropTasks, Callers
<1>7. ASSUME NEW w \in Workers, Test(w) \/ Sleep(w) \/ WakeSpuriously(w) PROVE TypeOK'
  BY <1>7 DEF Test, Sleep, WakeSpuriously
<1>8. ASSUME NEW w \in Workers, Take(w) PROVE TypeOK'
  <2>1. tasks # <<>> => Head(tasks) \in Tasks /\ Tail(tasks) \in Seq(Tasks)
    BY HeadTailProperties
  <2>2. CASE UNCHANGED <<tasks, wtask, fate>>
    BY <1>8, <2>2 DEF Take
  <2>3. CASE tasks # <<>> /\ wtask' = [wtask EXCEPT ![w] = Head(tasks)]
             /\ fate' = [fate EXCEPT ![Head(tasks)] = "running"] /\ tasks' = Tail(tasks)
    BY <1>8, <2>1, <2>3 DEF Take
  <2> QED
    BY <1>8, <2>2, <2>3 DEF Take
<1>9. ASSUME NEW w \in Workers, Finish(w) PROVE TypeOK'
  BY <1>9 DEF Finish
<1>10. CASE UNCHANGED vars
  BY <1>10 DEF vars
<1> QED
  BY <1>1, <1>2, <1>3, <1>4, <1>5, <1>6, <1>7, <1>8, <1>9, <1>10, <1>11
  DEF Next, Begin, Continue, Destructor, Work

\* ... the deque, ...
LEMMA QueuedStep ==
  ASSUME PoolInv, [Next]_vars
  PROVE  Queued'
<1> USE DEF PoolInv, TypeOK, Queued
<1>1. ASSUME NEW c \in Callers, NEW t \in Tasks, NEW f \in BOOLEAN, Enqueue(c, t, f)
      PROVE  Queued'
  BY <1>1 DEF Enqueue
<1>2. ASSUME DropTasks PROVE Queued'
  BY <1>2 DEF DropTasks
<1>3. ASSUME NEW c \in Callers, Push(c) PROVE Queued'
  <2>1. arg[c] \in Tasks /\ fate[arg[c]] = "posting"
    BY <1>3 DEF Push, Posting, Pushing
  <2>2. \A i \in 1 .. Len(tasks) : tasks[i] # arg[c]
    BY <2>1
  <2>3. CASE tasks' = tasks
    BY <1>3, <2>1, <2>2, <2>3 DEF Push, Pushed
  <2>4. CASE tasks' = Append(tasks, arg[c]) /\ fate' = [fate EXCEPT ![arg[c]] = "queued"]
    <3>1. /\ Len(tasks') = Len(tasks) + 1 /\ tasks'[Len(tasks) + 1] = arg[c]
          /\ \A i \in 1 .. Len(tasks) : tasks'[i] = tasks[i]
      BY <2>1, <2>4
    <3> QED
      BY <2>1, <2>2, <2>4, <3>1
  <2>5. CASE tasks' = <<arg[c]>> \o tasks /\ fate' = [fate EXCEPT ![arg[c]] = "queued"]
    <3>1. /\ Len(tasks') = Len(tasks) + 1 /\ tasks'[1] = arg[c]
          /\ \A i \in 1 .. Len(tasks) : tasks'[i + 1] = tasks[i]
      BY <2>1, <2>5
    <3>2. \A i \in 1 .. Len(tasks') : i = 1 \/ (i - 1 \in 1 .. Len(tasks) /\ tasks'[i] = tasks[i - 1])
      BY <3>1
    <3>3. \A i \in 1 .. Len(tasks') : fate'[tasks'[i]] = "queued"
      BY <2>1, <2>2, <2>5, <3>1, <3>2
    <3>4. ASSUME NEW i \in 1 .. Len(tasks'), NEW j \in 1 .. Len(tasks'), tasks'[i] = tasks'[j]
          PROVE  i = j
      <4>1. CASE i = 1 \/ j = 1
        BY <2>2, <3>1, <3>2, <3>4, <4>1
      <4>2. CASE i # 1 /\ j # 1
        <5>1. i - 1 \in 1 .. Len(tasks) /\ j - 1 \in 1 .. Len(tasks)
          BY <3>2, <4>2
        <5>2. tasks[i - 1] = tasks[j - 1]
          BY <3>2, <3>4, <4>2
        <5>3. i - 1 = j - 1
          BY <5>1, <5>2
        <5> QED
          BY <5>3
      <4> QED
        BY <4>1, <4>2
    <3>5. ASSUME NEW t \in Tasks, fate'[t] = "queued" PROVE \E i \in 1 .. Len(tasks') : tasks'[i] = t
      <4>1. CASE t = arg[c]
        BY <3>1, <4>1
      <4>2. CASE t # arg[c]
        <5>1. PICK i \in 1 .. Len(tasks) : tasks[i] = t
          BY <2>5, <3>5, <4>2
        <5> QED
          BY <3>1, <5>1
      <4> QED
        BY <4>1, <4>2
    <3> QED
      BY <3>3, <3>4, <3>5
  <2> QED
    BY <1>3, <2>3, <2>4, <2>5 DEF Push, Pushed
<1>4. ASSUME NEW w \in Workers, Take(w) PROVE Queued'
  <2>1. CASE tasks' = tasks /\ fate' = fate
    BY <2>1
  <2>2. CASE /\ tasks # <<>> /\ tasks' = Tail(tasks)
             /\ fate' = [fate EXCEPT ![Head(tasks)] = "running"]
    <3>1. /\ Len(tasks) > 0 /\ Len(tasks') = Len(tasks) - 1
          /\ Head(tasks) = tasks[1] /\ Head(tasks) \in Tasks
          /\ \A i \in 1 .. Len(tasks') : tasks'[i] = tasks[i + 1]
      BY <2>2, EmptySeq, HeadTailProperties
    <3>2. ASSUME NEW i \in 1 .. Len(tasks')
          PROVE  tasks[i + 1] \in Tasks /\ tasks[i + 1] # tasks[1]
      <4>1. i + 1 \in 1 .. Len(tasks) /\ 1 \in 1 .. Len(tasks) /\ i + 1 # 1
        BY <3>1
      <4> QED
        BY <4>1
    <3>3. \A i \in 1 .. Len(tasks') : fate'[tasks'[i]] = "queued"
      BY <2>2, <3>1, <3>2
    <3>4. ASSUME NEW i \in 1 .. Len(tasks'), NEW j \in 1 .. Len(tasks'), tasks'[i] = tasks'[j]
          PROVE  i = j
      <4>1. i + 1 \in 1 .. Len(tasks) /\ j + 1 \in 1 .. Len(tasks)
        BY <3>1
      <4>2. tasks[i + 1] = tasks[j + 1]
        BY <3>1, <3>4
      <4>3. i + 1 = j + 1
        BY <4>1, <4>2
      <4> QED
        BY <4>3
    <3>5. ASSUME NEW t \in Tasks, fate'[t] = "queued" PROVE \E i \in 1 .. Len(tasks') : tasks'[i] = t
      <4>1. PICK i \in 1 .. Len(tasks) : tasks[i] = t
        BY <2>2, <3>1, <3>5
      <4>2. i # 1
        BY <2>2, <3>1, <3>5, <4>1
      <4>3. i - 1 \in 1 .. Len(tasks') /\ tasks'[i - 1] = t
        BY <3>1, <4>1, <4>2
      <4> QED
        BY <4>3
    <3> QED
      BY <3>3, <3>4, <3>5
  <2> QED
    BY <1>4, <2>1, <2>2 DEF Take
<1>5. ASSUME NEW w \in Workers, Finish(w) PROVE Queued'
  <2>1. fate[wtask[w]] = "running"
    BY <1>5 DEF Finish, Running
  <2> QED
    BY <1>5, <2>1 DEF Finish
<1>6. CASE UNCHANGED <<tasks, fate>>
  BY <1>6
<1> QED
  BY <1>1, <1>2, <1>3, <1>4, <1>5, <1>6
  DEF Next, Begin, Continue, Destructor, Work, StopPool, ClearTask, Clear, Notify, Destroy,
      DtorStop, NotifyAll, DtorReturn, Test, Sleep, WakeSpuriously, vars

\* (The front of the deque is a task that is queued.)
LEMMA FrontQueued ==
  ASSUME PoolInv, tasks # <<>>
  PROVE  Head(tasks) \in Tasks /\ fate[Head(tasks)] = "queued" /\ Len(tasks) > 0
<1>1. tasks \in Seq(Tasks)
  BY DEF PoolInv, TypeOK
<1>2. Len(tasks) > 0 /\ Head(tasks) = tasks[1]
  BY <1>1, EmptySeq
<1> QED
  BY <1>1, <1>2 DEF PoolInv, Queued

\* ... the tasks that are being posted, ...
LEMMA PostingStep ==
  ASSUME PoolInv, [Next]_vars
  PROVE  Posting'
<1> USE DEF PoolInv, TypeOK, Posting, Pushing, Goto
<1>1. ASSUME NEW c \in Callers, NEW t \in Tasks, NEW f \in BOOLEAN, Enqueue(c, t, f)
      PROVE  Posting'
  <2>1. /\ pc[c] = "idle" /\ fate[t] = "fresh"
        /\ pc' = [pc EXCEPT ![c] = IF f THEN "pushFirst" ELSE "push"]
        /\ arg' = [arg EXCEPT ![c] = t] /\ fate' = [fate EXCEPT ![t] = "posting"]
    BY <1>1 DEF Enqueue, MayCall
  <2>2. Pushing' = Pushing \cup {c} /\ c \notin Pushing
    BY <2>1
  <2>3. \A d \in Pushing : arg'[d] = arg[d] /\ arg[d] # t /\ arg[d] \in Tasks
    BY <2>1, <2>2
  <2>4. \A d \in Pushing' : arg'[d] \in Tasks /\ fate'[arg'[d]] = "posting"
    BY <2>1, <2>2, <2>3
  <2>5. \A d, e \in Pushing' : arg'[d] = arg'[e] => d = e
    BY <2>1, <2>2, <2>3
  <2>6. ASSUME NEW u \in Tasks, fate'[u] = "posting" PROVE \E d \in Pushing' : arg'[d] = u
    <3>1. CASE u = t
      BY <2>1, <2>2, <3>1
    <3>2. CASE u # t
      BY <2>1, <2>2, <2>3, <2>6, <3>2
    <3> QED
      BY <3>1, <3>2
  <2> QED
    BY <2>4, <2>5, <2>6
<1>2. ASSUME NEW c \in Callers, Push(c) PROVE Posting'
  <2>1. /\ c \in Pushing /\ arg' = [arg EXCEPT ![c] = NoTask]
        /\ \E p \in {"idle", "notify"} : pc' = [pc EXCEPT ![c] = p]
        /\ \E g \in {"refused", "queued"} : fate' = [fate EXCEPT ![arg[c]] = g]
    BY <1>2 DEF Push, NextStep
  <2>2. Pushing' = Pushing \ {c}
    BY <2>1
  <2>3. \A d \in Pushing' : arg'[d] = arg[d] /\ arg[d] # arg[c]
    BY <2>1, <2>2
  <2>4. \A d \in Pushing' : arg'[d] \in Tasks /\ fate'[arg'[d]] = "posting"
    BY <2>1, <2>2, <2>3
  <2>5. \A d, e \in Pushing' : arg'[d] = arg'[e] => d = e
    BY <2>2, <2>3
  <2>6. ASSUME NEW u \in Tasks, fate'[u] = "posting" PROVE \E d \in Pushing' : arg'[d] = u
    <3>1. u # arg[c] /\ fate[u] = "posting"
      BY <2>1, <2>6
    <3>2. PICK d \in Pushing : arg[d] = u
      BY <3>1
    <3> QED
      BY <2>2, <2>3, <3>1, <3>2
  <2> QED
    BY <2>4, <2>5, <2>6
<1>3. ASSUME UNCHANGED arg, Pushing' = Pushing,
             \A t \in Tasks : fate'[t] = "posting" <=> fate[t] = "posting"
      PROVE  Posting'
  BY <1>3
<1>4. ASSUME DropTasks, UNCHANGED arg, Pushing' = Pushing PROVE Posting'
  BY <1>3, <1>4 DEF DropTasks
<1>5. ASSUME NEW c \in Callers, NEW p \in {"idle", "clear", "stopNotify", "dtor", "notifyAll", "join"},
             pc' = [pc EXCEPT ![c] = p], pc[c] \notin {"push", "pushFirst"}
      PROVE  Pushing' = Pushing
  BY <1>5
<1>6. ASSUME NEW c \in Callers, StopPool(c) \/ ClearTask(c) PROVE Posting'
  <2>1. Pushing' = Pushing
    BY <1>5, <1>6 DEF StopPool, ClearTask, MayCall
  <2> QED
    BY <1>3, <1>6, <2>1 DEF StopPool, ClearTask
<1>7. ASSUME NEW c \in Callers, Notify(c) PROVE Posting'
  <2>1. Pushing' = Pushing
    BY <1>5, <1>7 DEF Notify
  <2> QED
    BY <1>3, <1>7, <2>1 DEF Notify
<1>8. ASSUME NEW c \in Callers, Clear(c) PROVE Posting'
  <2>1. Pushing' = Pushing
    BY <1>5, <1>8 DEF Clear
  <2> QED
    BY <1>4, <1>8, <2>1 DEF Clear
<1>9. CASE Destroy \/ DtorStop \/ NotifyAll
  <2>1. Pushing' = Pushing
    BY <1>5, <1>9 DEF Destroy, DtorStop, NotifyAll, Callers, MayCall
  <2> QED
    BY <1>3, <1>9, <2>1 DEF Destroy, DtorStop, NotifyAll
<1>10. CASE DtorReturn
  <2>1. Pushing' = Pushing
    BY <1>5, <1>10 DEF DtorReturn, Callers
  <2> QED
    BY <1>4, <1>10, <2>1 DEF DtorReturn
<1>11. ASSUME NEW w \in Workers, Test(w) \/ Sleep(w) \/ WakeSpuriously(w) PROVE Posting'
  BY <1>3, <1>11 DEF Test, Sleep, WakeSpuriously
<1>12. ASSUME NEW w \in Workers, Take(w) PROVE Posting'
  <2>1. tasks # <<>> => Head(tasks) \in Tasks /\ fate[Head(tasks)] = "queued"
    BY FrontQueued
  <2>2. UNCHANGED <<pc, arg>>
    BY <1>12 DEF Take
  <2>3. \A t \in Tasks : fate'[t] = "posting" <=> fate[t] = "posting"
    BY <1>12, <2>1 DEF Take
  <2> QED
    BY <1>3, <2>2, <2>3
<1>13. ASSUME NEW w \in Workers, Finish(w) PROVE Posting'
  <2>1. wtask[w] \in Tasks /\ fate[wtask[w]] = "running"
    BY <1>13 DEF Finish, Running
  <2>2. UNCHANGED <<pc, arg>> /\ \A t \in Tasks : fate'[t] = "posting" <=> fate[t] = "posting"
    BY <1>13, <2>1 DEF Finish
  <2> QED
    BY <1>3, <2>2
<1>14. CASE UNCHANGED vars
  BY <1>14 DEF vars
<1> QED
  BY <1>1, <1>2, <1>6, <1>7, <1>8, <1>9, <1>10, <1>11, <1>12, <1>13, <1>14
  DEF Next, Begin, Continue, Destructor, Work

\* ... and those that run;
LEMMA RunningStep ==
  ASSUME PoolInv, [Next]_vars
  PROVE  Running'
<1> USE DEF PoolInv, TypeOK, Running
<1>1. ASSUME UNCHANGED wtask, \A w \in Workers : wpc'[w] = "run" <=> wpc[w] = "run",
             \A t \in Tasks : fate'[t] = "running" <=> fate[t] = "running"
      PROVE  Running'
  BY <1>1
<1>2. ASSUME NEW c \in Callers, NEW t \in Tasks, NEW f \in BOOLEAN, Enqueue(c, t, f)
      PROVE  Running'
  BY <1>1, <1>2 DEF Enqueue
<1>3. ASSUME NEW c \in Callers, Push(c) PROVE Running'
  <2>1. arg[c] \in Tasks /\ fate[arg[c]] = "posting"
    BY <1>3 DEF Push, Posting, Pushing
  <2> QED
    BY <1>1, <1>3, <2>1 DEF Push
<1>4. ASSUME DropTasks, UNCHANGED <<wpc, wtask>> PROVE Running'
  BY <1>1, <1>4 DEF DropTasks
<1>5. ASSUME NEW c \in Callers, Notify(c) PROVE Running'
  BY <1>1, <1>5 DEF Notify, Waiting
<1>6. CASE NotifyAll
  BY <1>1, <1>6 DEF NotifyAll, Waiting
<1>7. ASSUME NEW w \in Workers, Test(w) \/ Sleep(w) \/ WakeSpuriously(w) PROVE Running'
  BY <1>1, <1>7 DEF Test, Sleep, WakeSpuriously
<1>8. ASSUME NEW w \in Workers, Take(w) PROVE Running'
  <2>1. CASE wpc' = [wpc EXCEPT ![w] = "exited"] /\ UNCHANGED <<wtask, fate>>
    BY <1>1, <1>8, <2>1 DEF Take
  <2>2. CASE /\ tasks # <<>> /\ wpc' = [wpc EXCEPT ![w] = "run"]
             /\ wtask' = [wtask EXCEPT ![w] = Head(tasks)]
             /\ fate' = [fate EXCEPT ![Head(tasks)] = "running"]
    <3>1. Head(tasks) \in Tasks /\ fate[Head(tasks)] = "queued"
      BY <2>2, FrontQueued
    <3>2. \A v \in Workers : wtask[v] # Head(tasks)
      BY <3>1
    <3>3. wtask[w] = NoTask
      BY <1>8 DEF Take
    <3> QED
      BY <2>2, <3>1, <3>2, <3>3
  <2> QED
    BY <1>8, <2>1, <2>2 DEF Take
<1>9. ASSUME NEW w \in Workers, Finish(w) PROVE Running'
  <2>1. /\ wpc[w] = "run" /\ wtask[w] \in Tasks
        /\ fate' = [fate EXCEPT ![wtask[w]] = "ran"]
        /\ wtask' = [wtask EXCEPT ![w] = NoTask]
        /\ \E p \in {"exited", "lock"} : wpc' = [wpc EXCEPT ![w] = p]
    BY <1>9 DEF Finish
  <2>2. \A v \in Workers \ {w} : wtask[v] # wtask[w]
    BY <2>1
  <2> QED
    BY <2>1, <2>2
<1>10. CASE UNCHANGED <<wpc, wtask, fate>>
  BY <1>1, <1>10
<1> QED
  BY <1>2, <1>3, <1>4, <1>5, <1>6, <1>7, <1>8, <1>9, <1>10
  DEF Next, Begin, Continue, Destructor, Work, StopPool, ClearTask, Clear, Destroy,
      DtorStop, DtorReturn, vars

\* workers call the pool from tasks only, and only the owner destroys it,
LEMMA RolesStep ==
  ASSUME PoolInv, [Next]_vars
  PROVE  Roles'
<1> USE DEF PoolInv, TypeOK, Roles, Goto, Callers
<1>1. ASSUME NEW c \in Callers, MayCall(c), UNCHANGED wpc,
             NEW p \in {"push", "pushFirst", "stopNotify", "clear"}, pc' = [pc EXCEPT ![c] = p]
      PROVE  Roles'
  BY <1>1 DEF MayCall
<1>2. ASSUME NEW c \in Callers, pc[c] # "idle", UNCHANGED wpc,
             NEW p \in {"idle", "notify"}, pc' = [pc EXCEPT ![c] = p]
      PROVE  Roles'
  BY <1>2
<1>3. ASSUME NEW p \in {"idle", "dtor", "notifyAll", "join"}, pc' = [pc EXCEPT ![Owner] = p],
             \A w \in Workers : wpc[w] = "run" => wpc'[w] = "run"
      PROVE  Roles'
  BY <1>3
<1>4. ASSUME NEW c \in Callers, Begin(c) PROVE Roles'
  BY <1>1, <1>4 DEF Begin, Enqueue, StopPool, ClearTask
<1>5. ASSUME NEW c \in Callers, Push(c) \/ Clear(c) PROVE Roles'
  BY <1>2, <1>5 DEF Push, NextStep, Clear
<1>6. ASSUME NEW c \in Callers, Notify(c) PROVE Roles'
  BY <1>6 DEF Notify, Waiting
<1>7. CASE Destroy \/ Destructor
  BY <1>3, <1>7 DEF Destroy, Destructor, DtorStop, NotifyAll, Waiting, DtorReturn
<1>8. ASSUME NEW w \in Workers, Work(w) \/ WakeSpuriously(w) PROVE Roles'
  BY <1>8 DEF Work, Test, Sleep, Take, Finish, WakeSpuriously
<1>9. CASE UNCHANGED vars
  BY <1>9 DEF vars
<1> QED
  BY <1>4, <1>5, <1>6, <1>7, <1>8, <1>9 DEF Next, Continue

\* and nothing happens after the destructor.
LEMMA EndingStep ==
  ASSUME PoolInv, [Next]_vars
  PROVE  Ending'
<1> USE DEF PoolInv, TypeOK, Roles, Ending, Goto, Callers
<1>1. ASSUME NEW c \in Callers, Begin(c) PROVE Ending'
  <2>1. /\ MayCall(c) /\ UNCHANGED <<tasks, destroyed, wpc>>
        /\ \E p \in {"push", "pushFirst", "stopNotify", "clear"} : pc' = [pc EXCEPT ![c] = p]
    BY <1>1 DEF Begin, Enqueue, StopPool, ClearTask
  <2> QED
    BY <2>1 DEF MayCall
<1>2. ASSUME NEW c \in Callers, Push(c) \/ Clear(c) \/ Notify(c) PROVE Ending'
  <2>1. /\ pc[c] # "idle" /\ pc[c] \notin {"dtor", "notifyAll", "join"}
        /\ UNCHANGED destroyed /\ ~destroyed
        /\ \E p \in {"idle", "notify"} : pc' = [pc EXCEPT ![c] = p]
        /\ \A w \in Workers : wpc[w] = "exited" => wpc'[w] = "exited"
    BY <1>2 DEF Push, NextStep, Clear, Notify, Waiting
  <2> QED
    BY <2>1
<1>3. CASE Destroy
  BY <1>3 DEF Destroy, MayCall
<1>4. CASE DtorStop \/ NotifyAll
  BY <1>4 DEF DtorStop, NotifyAll, Waiting
<1>5. CASE DtorReturn
  BY <1>5 DEF DtorReturn, Joined, DropTasks
<1>6. ASSUME NEW w \in Workers, Work(w) \/ WakeSpuriously(w) PROVE Ending'
  BY <1>6 DEF Work, Test, Sleep, Take, Finish, WakeSpuriously
<1>7. CASE UNCHANGED vars
  BY <1>7 DEF vars
<1> QED
  BY <1>1, <1>2, <1>3, <1>4, <1>5, <1>6, <1>7 DEF Next, Continue, Destructor

\* The pool is consistent in every state.
LEMMA AlwaysPoolInv == Spec => []PoolInv
<1>1. PoolInv /\ [Next]_vars => PoolInv'
  BY TypeStep, QueuedStep, PostingStep, RunningStep, RolesStep, EndingStep DEF PoolInv
<1> QED
  BY PoolInit, <1>1, PTL DEF Spec

\* Every state is well typed.
THEOREM PoolTypes == Spec => []TypeOK
<1>1. PoolInv => TypeOK
  BY DEF PoolInv
<1> QED
  BY <1>1, AlwaysPoolInv, PTL

\* When the destructor has returned, every worker is gone and the future of every task
\* that was ever enqueued is resolved, however callers and workers interleave.
THEOREM NothingUnresolved == Spec => []DestroyedIsResolved
<1>1. PoolInv => DestroyedIsResolved
  <2>1. SUFFICES ASSUME PoolInv, destroyed
                 PROVE  /\ \A w \in Workers : wpc[w] = "exited" /\ wtask[w] = NoTask
                        /\ \A t \in Tasks : fate[t] \notin {"posting", "queued", "running"}
    BY DEF DestroyedIsResolved
  <2>2. \A w \in Workers : wpc[w] = "exited" /\ wtask[w] = NoTask
    BY <2>1 DEF PoolInv, Ending, Running
  <2>3. \A t \in Tasks : fate[t] # "running"
    BY <2>1, <2>2 DEF PoolInv, Running
  <2>4. \A t \in Tasks : fate[t] # "posting"
    BY <2>1, <2>2 DEF PoolInv, Ending, Roles, Posting, Pushing, Callers
  <2>5. \A t \in Tasks : fate[t] # "queued"
    BY <2>1 DEF PoolInv, Ending, Queued
  <2> QED
    BY <2>2, <2>3, <2>4, <2>5
<1> QED
  BY <1>1, AlwaysPoolInv, PTL

-----------------------------------------------------------------------------
(* No wake-up is lost. *)

\* The numbers of callers that will notify and of workers that are awake.
LEMMA Finite ==
  /\ IsFiniteSet(Notifying) /\ Cardinality(Notifying) \in Nat
  /\ IsFiniteSet(Awake) /\ Cardinality(Awake) \in Nat
<1>1. Notifying \subseteq Callers /\ Awake \subseteq Callers
  BY DEF Notifying, Awake, Callers
<1>2. IsFiniteSet(Notifying) /\ IsFiniteSet(Awake)
  BY <1>1, FS_Subset
<1> QED
  BY <1>2, FS_CardinalityType

Enough == Len(tasks) <= Cardinality(Notifying) + Cardinality(Awake)

\* A worker that goes to sleep does so on an empty deque.
LEMMA SleepsStep ==
  ASSUME PoolInv, SleepsOnEmpty, [Next]_vars
  PROVE  SleepsOnEmpty'
<1> USE DEF PoolInv, TypeOK, SleepsOnEmpty
<1>1. ASSUME NEW c \in Callers, Push(c) PROVE SleepsOnEmpty'
  BY <1>1 DEF Push, Unlocked
<1>2. ASSUME NEW c \in Callers, Notify(c) PROVE SleepsOnEmpty'
  BY <1>2 DEF Notify, Waiting
<1>3. CASE NotifyAll
  BY <1>3 DEF NotifyAll, Waiting
<1>4. ASSUME NEW w \in Workers, Work(w) \/ WakeSpuriously(w) PROVE SleepsOnEmpty'
  <2>1. CASE Test(w) \/ Sleep(w) \/ Finish(w) \/ WakeSpuriously(w)
    BY <2>1 DEF Test, Sleep, Finish, WakeSpuriously
  <2>2. CASE Take(w)
    BY <2>2 DEF Take
  <2> QED
    BY <1>4, <2>1, <2>2 DEF Work
<1>5. CASE UNCHANGED <<tasks, wpc>> \/ (tasks' = <<>> /\ UNCHANGED wpc)
  BY <1>5
<1> QED
  BY <1>1, <1>2, <1>3, <1>4, <1>5
  DEF Next, Begin, Continue, Destructor, Enqueue, StopPool, ClearTask, Clear, DropTasks,
      Destroy, DtorStop, DtorReturn, vars

\* A task more, a notification more; a notification or a task less, a worker less that
\* sleeps; and the last worker that falls asleep finds nothing to do.
LEMMA WakeStep ==
  ASSUME PoolInv, WakeInv, [Next]_vars
  PROVE  WakeUpPerTask'
<1> SUFFICES ASSUME ~stop', Waiting' # {} PROVE Enough'
  BY DEF WakeUpPerTask, Enough, Notifying, Awake
<1> USE DEF PoolInv, TypeOK, Goto
<1>1. Waiting # {} /\ ~stop => Enough
  BY DEF WakeInv, WakeUpPerTask, Enough, Notifying, Awake
<1>2. /\ IsFiniteSet(Notifying) /\ Cardinality(Notifying) \in Nat
      /\ IsFiniteSet(Awake) /\ Cardinality(Awake) \in Nat
  BY Finite
<1>3. /\ IsFiniteSet(Notifying') /\ Cardinality(Notifying') \in Nat
      /\ IsFiniteSet(Awake') /\ Cardinality(Awake') \in Nat
  <2>1. Notifying' \subseteq Callers /\ Awake' \subseteq Callers
    BY DEF Notifying, Awake, Callers
  <2> QED
    BY <2>1, FS_Subset, FS_CardinalityType
<1>4. CASE tasks' = <<>>
  BY <1>3, <1>4 DEF Enough
<1>5. ~stop
  BY DEF Next, Begin, Continue, Destructor, Work, Enqueue, StopPool, ClearTask, Push, Notify,
     Clear, Destroy, DtorStop, NotifyAll, DtorReturn, Test, Sleep, Take, Finish,
     WakeSpuriously, vars
<1>6. ASSUME UNCHANGED tasks, Notifying \subseteq Notifying', Awake \subseteq Awake', Waiting # {}
      PROVE  Enough'
  BY <1>1, <1>2, <1>3, <1>5, <1>6, FS_Subset DEF Enough
<1>7. ASSUME NEW c \in Callers, Begin(c) PROVE Enough'
  BY <1>6, <1>7 DEF Begin, Enqueue, StopPool, ClearTask, MayCall, Notifying, Awake, Waiting
<1>8. ASSUME NEW c \in Callers, Push(c) PROVE Enough'
  <2>1. /\ pc[c] \in {"push", "pushFirst"} /\ pc' = [pc EXCEPT ![c] = "notify"]
        /\ arg[c] \in Tasks /\ UNCHANGED wpc
        /\ tasks' = <<arg[c]>> \o tasks \/ tasks' = Append(tasks, arg[c])
    BY <1>5, <1>8 DEF Push, NextStep, Pushed, Posting, Pushing
  <2>2. Len(tasks') = Len(tasks) + 1
    BY <2>1
  <2>3. Notifying' = Notifying \cup {c} /\ c \notin Notifying
    BY <2>1 DEF Notifying
  <2>4. Cardinality(Notifying') = Cardinality(Notifying) + 1
    BY <1>2, <2>3, FS_AddElement
  <2>5. Awake' = Awake /\ Waiting' = Waiting
    BY <2>1 DEF Awake, Waiting
  <2> QED
    BY <1>1, <1>2, <1>5, <2>2, <2>4, <2>5 DEF Enough
<1>9. ASSUME NEW c \in Callers, Notify(c) PROVE Enough'
  <2>1. PICK w \in Waiting : wpc' = [wpc EXCEPT ![w] = "woken"]
    BY <1>9 DEF Notify, Waiting
  <2>2. Awake' = Awake \cup {w} /\ w \notin Awake
    BY <2>1 DEF Awake, Waiting
  <2>3. Cardinality(Awake') = Cardinality(Awake) + 1
    BY <1>2, <2>2, FS_AddElement
  <2>4. Notifying' = Notifying \ {c} /\ UNCHANGED tasks
    BY <1>9 DEF Notify, Notifying
  <2>5. Cardinality(Notifying') >= Cardinality(Notifying) - 1
    <3>1. Cardinality(Notifying \ {c}) =
            IF c \in Notifying THEN Cardinality(Notifying) - 1 ELSE Cardinality(Notifying)
      BY <1>2, FS_RemoveElement
    <3> QED
      BY <1>2, <2>4, <3>1
  <2> QED
    BY <1>1, <1>2, <1>3, <1>5, <2>1, <2>3, <2>4, <2>5 DEF Enough
<1>10. CASE NotifyAll
  BY <1>10 DEF NotifyAll, Waiting
<1>11. CASE Destroy \/ DtorStop
  BY <1>6, <1>11 DEF Destroy, DtorStop, MayCall, Notifying, Awake, Waiting, Callers
<1>12. ASSUME NEW w \in Workers, Test(w) PROVE Enough'
  BY <1>4, <1>5, <1>6, <1>12 DEF Test, Notifying, Awake, Waiting
<1>13. ASSUME NEW w \in Workers, Sleep(w) PROVE Enough'
  BY <1>4, <1>13 DEF Sleep, WakeInv, SleepsOnEmpty
<1>14. ASSUME NEW w \in Workers, WakeSpuriously(w) PROVE Enough'
  BY <1>6, <1>14 DEF WakeSpuriously, Notifying, Awake, Waiting
<1>15. ASSUME NEW w \in Workers, Take(w) PROVE Enough'
  <2>1. CASE tasks = <<>>
    BY <1>4, <1>5, <1>15, <2>1 DEF Take
  <2>2. CASE tasks # <<>>
    <3>1. tasks' = Tail(tasks) /\ wpc[w] = "take" /\ wpc' = [wpc EXCEPT ![w] = "run"] /\ UNCHANGED pc
      BY <1>5, <1>15, <2>2 DEF Take
    <3>2. Len(tasks') = Len(tasks) - 1 /\ Len(tasks) \in Nat
      BY <2>2, <3>1, HeadTailProperties
    <3>3. Awake' = Awake \ {w} /\ w \in Awake
      BY <3>1 DEF Awake
    <3>4. Cardinality(Awake') = Cardinality(Awake) - 1
      BY <1>2, <3>3, FS_RemoveElement
    <3>5. Notifying' = Notifying /\ Waiting' = Waiting
      BY <3>1 DEF Notifying, Waiting
    <3> QED
      BY <1>1, <1>2, <1>5, <3>2, <3>4, <3>5 DEF Enough
  <2> QED
    BY <2>1, <2>2
<1>16. ASSUME NEW w \in Workers, Finish(w) PROVE Enough'
  BY <1>6, <1>16 DEF Finish, Notifying, Awake, Waiting
<1>17. CASE UNCHANGED vars
  BY <1>6, <1>17 DEF vars, Notifying, Awake, Waiting
<1> QED
  BY <1>4, <1>7, <1>8, <1>9, <1>10, <1>11, <1>12, <1>13, <1>14, <1>15, <1>16, <1>17
  DEF Next, Continue, Destructor, Work, Clear, DtorReturn, DropTasks

\* While a worker sleeps, every task in the deque has its wake-up on the way: no
\* notification is lost between the test of the predicate and the wait, nor to a worker
\* that was awake.
THEOREM NoLostWakeUp == Spec => []WakeUpPerTask
<1>1. PoolInv /\ WakeInv /\ [Next]_vars => WakeInv'
  BY SleepsStep, WakeStep DEF WakeInv
<1>2. WakeInv => WakeUpPerTask
  BY DEF WakeInv
<1> QED
  BY PoolInit, <1>1, <1>2, AlwaysPoolInv, PTL DEF Spec
-----------------------------------------------------------------------------
(* The contract. *)

\* The tasks that go to the front, as the contract sees them.
First == {t \in Tasks : \E c \in Callers : pc[c] = "pushFirst" /\ arg[c] = t}

\* Once the destructor has locked and unlocked, the pool has stopped for good.
Stopped == pc[Owner] \in {"notifyAll", "join"} => stop

\* Nothing resets stop.
LEMMA StoppedStep == PoolInv /\ Stopped /\ [Next]_vars => Stopped'
<1> SUFFICES ASSUME PoolInv, Stopped, [Next]_vars PROVE Stopped'
  OBVIOUS
<1> USE DEF PoolInv, TypeOK, Roles, Stopped, Goto
<1>1. stop => stop'
  BY DEF Next, Begin, Continue, Destructor, Work, Enqueue, StopPool, ClearTask, Push, Notify,
     Clear, Destroy, DtorStop, NotifyAll, DtorReturn, Test, Sleep, Take, Finish,
     WakeSpuriously, vars
<1>2. CASE DtorStop
  BY <1>2 DEF DtorStop
<1>3. CASE ~DtorStop
  <2>1. pc'[Owner] \in {"notifyAll", "join"} => pc[Owner] \in {"notifyAll", "join"}
    BY <1>3 DEF Next, Begin, Continue, Destructor, Work, Enqueue, StopPool, ClearTask, Push,
       Notify, NextStep, Clear, Destroy, NotifyAll, DtorReturn, Test, Sleep, Take, Finish,
       WakeSpuriously, vars, Callers
  <2> QED
    BY <1>1, <2>1
<1> QED
  BY <1>2, <1>3

\* The set changes with the calls of enqueue_first only.
LEMMA FirstStays ==
  ASSUME PoolInv, NEW c \in Callers, NEW p, pc' = [pc EXCEPT ![c] = p], UNCHANGED arg,
         pc[c] # "pushFirst", p # "pushFirst"
  PROVE  First' = First
BY DEF PoolInv, TypeOK, First

\* Dropping the queued tasks is dropping those in the deque.
LEMMA DropsTheDeque == PoolInv /\ DropTasks => Contract!Dropped
<1> SUFFICES ASSUME PoolInv, DropTasks PROVE Contract!Dropped
  OBVIOUS
<1>1. /\ tasks \in Seq(Tasks) /\ DOMAIN tasks = 1 .. Len(tasks)
      /\ \A i \in 1 .. Len(tasks) : tasks[i] \in Tasks
  BY DEF PoolInv, TypeOK
<1>2. \A t \in Tasks : fate[t] = "queued" <=> \E i \in DOMAIN tasks : tasks[i] = t
  BY <1>1 DEF PoolInv, Queued
<1> QED
  BY <1>2 DEF DropTasks, Contract!Dropped

\* A task is asked for.
LEMMA EnqueueAsks ==
  ASSUME PoolInv, NEW c \in Callers, NEW t \in Tasks, NEW f \in BOOLEAN, Enqueue(c, t, f)
  PROVE  Contract!Ask(t, f)
<1>1. /\ pc[c] = "idle" /\ ~destroyed /\ fate[t] = "fresh"
      /\ pc' = [pc EXCEPT ![c] = IF f THEN "pushFirst" ELSE "push"]
      /\ arg' = [arg EXCEPT ![c] = t] /\ fate' = [fate EXCEPT ![t] = "posting"]
      /\ UNCHANGED <<tasks, stop, destroyed, wtask>>
  BY DEF Enqueue, MayCall, Goto
<1>2. \A d \in Callers \ {c} : pc'[d] = pc[d] /\ arg'[d] = arg[d]
  BY <1>1 DEF PoolInv, TypeOK
<1>3. pc'[c] = (IF f THEN "pushFirst" ELSE "push") /\ arg'[c] = t
  BY <1>1 DEF PoolInv, TypeOK
<1>4. First' = IF f THEN First \cup {t} ELSE First
  BY <1>1, <1>2, <1>3 DEF First
<1> QED
  BY <1>1, <1>4 DEF Contract!Ask, First

\* A task is accepted at the end that was asked for, or refused.
LEMMA PushAccepts ==
  ASSUME PoolInv, NEW c \in Callers, Push(c)
  PROVE  \E t \in Tasks : Contract!Accept(t) \/ Contract!Refuse(t)
<1>0. arg[c] \in Tasks
  BY DEF PoolInv, Push, Posting, Pushing
<1> PICK t \in Tasks : t = arg[c]
  BY <1>0
<1>1. c \in Pushing /\ t \in Tasks /\ fate[t] = "posting"
  BY DEF PoolInv, Push, Posting, Pushing
<1>2. ~destroyed
  <2>1. pc[c] # "idle"
    BY DEF Push
  <2> QED
    BY <2>1 DEF PoolInv, Ending, Roles, Callers
<1>3. \A d \in Callers : pc[d] = "pushFirst" /\ arg[d] = t => d = c
  BY <1>1 DEF PoolInv, Posting, Pushing
<1>4. /\ arg' = [arg EXCEPT ![c] = NoTask] /\ UNCHANGED <<wtask, destroyed, stop>>
      /\ \E p \in {"idle", "notify"} : pc' = [pc EXCEPT ![c] = p]
  BY DEF Push, Goto, NextStep
<1>5. /\ pc'[c] # "pushFirst"
      /\ \A d \in Callers \ {c} : pc'[d] = pc[d] /\ arg'[d] = arg[d]
  BY <1>4 DEF PoolInv, TypeOK
<1>6. First' = First \ {t}
  <2>1. ASSUME NEW u \in Tasks PROVE u \in First' <=> u \in First /\ u # t
    <3>1. u \in First' <=> \E d \in Callers \ {c} : pc[d] = "pushFirst" /\ arg[d] = u
      BY <1>5 DEF First
    <3>2. u \in First <=> \E d \in Callers : pc[d] = "pushFirst" /\ arg[d] = u
      BY DEF First
    <3> QED
      BY <1>3, <3>1, <3>2
  <2>2. First \subseteq Tasks /\ First' \subseteq Tasks
    BY DEF First
  <2> QED
    BY <2>1, <2>2
<1>7. t \in First <=> pc[c] = "pushFirst"
  BY <1>1, <1>3 DEF First
<1>8. CASE stop /\ fate' = [fate EXCEPT ![t] = "refused"] /\ UNCHANGED tasks
  <2>1. Contract!Refuse(t)
    BY <1>1, <1>2, <1>4, <1>6, <1>8 DEF Contract!Refuse, First
  <2> QED
    BY <2>1
<1>9. CASE ~stop /\ tasks' = Pushed(c) /\ fate' = [fate EXCEPT ![t] = "queued"]
  <2>1. tasks' = IF t \in First THEN <<t>> \o tasks ELSE Append(tasks, t)
    BY <1>7, <1>9 DEF Pushed
  <2>2. Contract!Accept(t)
    BY <1>1, <1>2, <1>4, <1>6, <1>9, <2>1 DEF Contract!Accept, First
  <2> QED
    BY <2>2
<1> QED
  BY <1>8, <1>9 DEF Push

\* A worker that takes a task begins it, or leaves.
LEMMA TakeStarts ==
  ASSUME PoolInv, NEW w \in Workers, Take(w)
  PROVE  Contract!Start(w) \/ UNCHANGED <<tasks, pc, arg, fate, wtask, stop, destroyed>>
<1>1. CASE UNCHANGED <<tasks, wtask, fate>>
  BY <1>1 DEF Take
<1>2. CASE /\ ~stop /\ tasks # <<>>
           /\ wtask' = [wtask EXCEPT ![w] = Head(tasks)]
           /\ fate' = [fate EXCEPT ![Head(tasks)] = "running"]
           /\ tasks' = Tail(tasks)
  <2>1. fate[Head(tasks)] = "queued"
    BY <1>2, FrontQueued
  <2>2. wtask[w] = NoTask /\ ~destroyed
    BY DEF PoolInv, Running, Ending, Take
  <2>3. UNCHANGED <<First, stop, destroyed>>
    BY DEF Take, First
  <2> QED
    BY <1>2, <2>1, <2>2, <2>3 DEF Contract!Start, First
<1> QED
  BY <1>1, <1>2 DEF Take

\* A task that returns ends.
LEMMA FinishEnds ==
  ASSUME PoolInv, NEW w \in Workers, Finish(w)
  PROVE  Contract!End(w)
<1>1. wpc[w] = "run" /\ wtask[w] # NoTask /\ fate[wtask[w]] = "running" /\ ~destroyed
  BY DEF PoolInv, Running, Ending, Finish
<1>2. UNCHANGED <<tasks, First, stop, destroyed>>
  BY DEF Finish, First
<1> QED
  BY <1>1, <1>2 DEF Finish, Contract!End, First

\* The destructor returns when nothing is asked for and nothing runs.
LEMMA ReturnVanishes ==
  ASSUME PoolInv, Stopped, DtorReturn
  PROVE  Contract!Vanish
<1>1. pc[Owner] = "join" /\ Owner \in Callers /\ \A w \in Workers : wpc[w] = "exited"
  BY DEF DtorReturn, Joined, Callers
<1>2. stop /\ ~destroyed
  BY <1>1 DEF Stopped, PoolInv, Ending
<1>3. \A w \in Workers : wtask[w] = NoTask
  BY <1>1 DEF PoolInv, Running
<1>4. \A t \in Tasks : fate[t] # "running"
  BY <1>3 DEF PoolInv, Running
<1>5. \A c \in Callers : pc[c] \notin {"push", "pushFirst"}
  BY <1>1 DEF PoolInv, Ending, Roles, Callers
<1>6. \A t \in Tasks : fate[t] # "posting"
  BY <1>5 DEF PoolInv, Posting, Pushing
<1>7. UNCHANGED First
  BY <1>1, FirstStays DEF DtorReturn, Goto
<1> QED
  BY <1>2, <1>3, <1>4, <1>6, <1>7, DropsTheDeque DEF DtorReturn, Contract!Vanish, First

\* Every step of the pool is one of the contract, or none.
LEMMA ContractStep ==
  PoolInv /\ Stopped /\ [Next]_vars => [Contract!PoolNext]_Contract!poolVars
<1> SUFFICES ASSUME PoolInv, Stopped, [Next]_vars
             PROVE  Contract!PoolNext \/ UNCHANGED <<tasks, First, fate, wtask, stop, destroyed>>
  BY DEF Contract!poolVars, First
<1>1. ASSUME NEW c \in Callers, NEW t \in Tasks, NEW f \in BOOLEAN, Enqueue(c, t, f)
      PROVE  Contract!PoolNext
  BY <1>1, EnqueueAsks DEF Contract!PoolNext
<1>2. ASSUME NEW c \in Callers, Push(c) PROVE Contract!PoolNext
  BY <1>2, PushAccepts DEF Contract!PoolNext
<1>3. ASSUME NEW c \in Callers, StopPool(c) PROVE Contract!Shut
  <2>1. UNCHANGED First
    BY <1>3, FirstStays DEF StopPool, MayCall, Goto
  <2> QED
    BY <1>3, <2>1 DEF StopPool, MayCall, Contract!Shut, First
<1>4. ASSUME NEW c \in Callers, Clear(c) PROVE Contract!ClearAll
  <2>1. UNCHANGED First
    BY <1>4, FirstStays DEF Clear, Goto
  <2>2. ~destroyed
    BY <1>4 DEF Clear, PoolInv, Ending, Roles, Callers
  <2> QED
    BY <1>4, <2>1, <2>2, DropsTheDeque DEF Clear, Contract!ClearAll, First
<1>5. CASE DtorStop
  <2>1. UNCHANGED First
    BY <1>5, FirstStays DEF DtorStop, Goto, Callers
  <2>2. ~destroyed
    BY <1>5 DEF DtorStop, PoolInv, Ending
  <2>3. Contract!Shut
    BY <1>5, <2>1, <2>2 DEF DtorStop, Contract!Shut, First
  <2> QED
    BY <2>3 DEF Contract!PoolNext
<1>6. ASSUME NEW c \in Callers, ClearTask(c) \/ Notify(c)
      PROVE  UNCHANGED <<tasks, First, fate, wtask, stop, destroyed>>
  BY <1>6, FirstStays DEF ClearTask, Notify, MayCall, Goto
<1>7. CASE Destroy \/ NotifyAll
  BY <1>7, FirstStays DEF Destroy, NotifyAll, MayCall, Goto, Callers
<1>8. ASSUME NEW w \in Workers, Work(w) \/ WakeSpuriously(w)
      PROVE  Contract!PoolNext \/ UNCHANGED <<tasks, First, fate, wtask, stop, destroyed>>
  <2>1. CASE Test(w) \/ Sleep(w) \/ WakeSpuriously(w)
    BY <2>1 DEF Test, Sleep, WakeSpuriously, First
  <2>2. CASE Take(w)
    BY <2>2, TakeStarts DEF Contract!PoolNext, First
  <2>3. CASE Finish(w)
    BY <2>3, FinishEnds DEF Contract!PoolNext
  <2> QED
    BY <1>8, <2>1, <2>2, <2>3 DEF Work
<1>9. CASE DtorReturn
  BY <1>9, ReturnVanishes DEF Contract!PoolNext
<1>10. CASE UNCHANGED vars
  BY <1>10 DEF vars, First
<1> QED
  BY <1>1, <1>2, <1>3, <1>4, <1>5, <1>6, <1>7, <1>8, <1>9, <1>10
  DEF Next, Begin, Continue, Destructor, Contract!PoolNext

\* The pool implements its contract, whatever its callers, its tasks and its destructor
\* do at the same time: tasks are begun from the front, those of enqueue_first before
\* the others, once, one per worker; none is accepted or begun after the pool was
\* stopped; and when it is gone, every task is resolved and nothing touches it any more.
THEOREM PoolImplements == Spec => ImplementsContract
<1>1. Init => Contract!PoolInit
  BY DEF Init, Contract!PoolInit
<1>2. Init => Stopped
  BY DEF Init, Stopped, Callers
<1> QED
  BY <1>1, <1>2, StoppedStep, ContractStep, AlwaysPoolInv, PTL
  DEF Spec, ImplementsContract, Contract!PoolSpec
=============================================================================
