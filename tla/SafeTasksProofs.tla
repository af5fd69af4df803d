-------------------------- MODULE SafeTasksProofs ---------------------------
(***************************************************************************)
(* Theorems about SafeTasks: its queue is that of ThreadIdentity, step by  *)
(* step, and a method that a SafeTask calls has its object, for any number *)
(* of objects, flags and threads.                                          *)
(***************************************************************************)
EXTENDS SafeTasks, IdentityProofs, SequenceTheorems

-----------------------------------------------------------------------------
(* The queue. *)

\* A step of the objects, or of what the tasks are wrapped in, is a step of the
\* thread and its queue, or none.
LEMMA ThreadStep == [SafeNext]_safeVars => [Next]_vars
<1> SUFFICES ASSUME [SafeNext]_safeVars PROVE [Next]_vars
  OBVIOUS
<1>1. ASSUME NEW c \in Callers, Call(c) \/ \E f \in Flags \cup {NoFlag} : PostTagged(c, f)
      PROVE  Next
  BY <1>1 DEF Call, PostTagged, Next, Use
<1>2. CASE TakeTagged \/ FinishTagged
  BY <1>2 DEF TakeTagged, FinishTagged, Next, Loop
<1>3. CASE CheckAlive
  BY <1>3 DEF CheckAlive
<1>4. CASE Live
  BY <1>4 DEF Live, Create, Renew, Pause, Resume, Destroy
<1>5. CASE Others
  BY <1>5 DEF Others, Next, Loop
<1>6. CASE UNCHANGED safeVars
  BY <1>6 DEF safeVars
<1> QED
  BY <1>1, <1>2, <1>3, <1>4, <1>5, <1>6 DEF SafeNext

\* SafeTasks implements ThreadIdentity: objects, flags and wrappers let nothing happen
\* on the queue that could not happen without them.
THEOREM SafeRefines == SafeSpec => Spec
<1>1. SafeInit => Init
  BY DEF SafeInit
<1> QED
  BY <1>1, ThreadStep, PTL DEF SafeSpec, Spec

\* The worker does not wait for itself in BlockingCall, whatever its tasks are wrapped
\* in.
THEOREM SafeSelfRecognised == SafeSpec => []WorkerDoesNotWait
BY SafeRefines, SelfRecognised, PTL

\* Nor do tasks overlap, if the system gives no identifier twice.
THEOREM SafeNoOverlap ==
  ASSUME Recycle = FALSE
  PROVE  SafeSpec => []TasksDoNotOverlap
<1>1. Recycle = FALSE
  OBVIOUS
<1>2. Spec => []TasksDoNotOverlap
  BY <1>1, NoOverlap
<1> QED
  BY SafeRefines, <1>2, PTL

-----------------------------------------------------------------------------
(* The flags. *)

\* What a task of the queue is wrapped in belongs to it.
Wrapped ==
  /\ tags \in Seq(Tags) /\ Len(tags) = Len(queue)
  /\ wtag \in Tags
  /\ wstep \in {"none", "check", "method", "over"}
  /\ wstep = "none" <=> wpc # "task"

\* An object that was created has a flag, which was made for it, ...
Flagged ==
  /\ state \in [Objects -> {"none", "exists", "destroyed"}]
  /\ safety_flag \in [Objects -> Flags \cup {NoFlag}]
  /\ target \in [Flags -> Objects \cup {NoObject}]
  /\ alive \in [Flags -> BOOLEAN]
  /\ \A o \in Objects : safety_flag[o] = NoFlag <=> state[o] = "none"
  /\ \A o \in Objects : safety_flag[o] # NoFlag => target[safety_flag[o]] = o

\* ... a flag is alive only as the present one of an object that exists, ...
AliveIsCurrent ==
  \A f \in Flags : alive[f] =>
    target[f] \in Objects /\ state[target[f]] = "exists" /\ safety_flag[target[f]] = f

\* ... a wrapper's flag was made, and is not alive while the wrapper is cancelled, ...
Holds(tag) ==
  tag.flag # NoFlag => target[tag.flag] # NoObject /\ (tag.cancelled => ~alive[tag.flag])

CancelledIsDead == \A i \in DOMAIN tags : Holds(tags[i])

\* ... also of the task that is executed, until its flag has been read.
WorkerHolds ==
  /\ wstep = "check" => wtag.flag # NoFlag /\ Holds(wtag)
  /\ wtag.flag # NoFlag => target[wtag.flag] # NoObject

FlagInv ==
  /\ Wrapped /\ Flagged
  /\ AliveIsCurrent /\ CancelledIsDead /\ WorkerHolds /\ CalledIsAlive

SafeInv == TypeOK /\ FlagInv

\* At first there is no object, no flag that is alive, and no task.
LEMMA SafeInvInit == SafeInit => SafeInv
<1> SUFFICES ASSUME SafeInit PROVE SafeInv
  OBVIOUS
<1>1. TypeOK /\ wpc = "none" /\ queue = <<>>
  BY KnownInit DEF SafeInit, Known, Init
<1>2. tags = <<>> /\ wtag = Plain /\ wstep = "none"
  BY DEF SafeInit
<1>3. Plain \in Tags /\ Plain.flag = NoFlag
  BY DEF Plain, Tags
<1>4. Wrapped /\ CancelledIsDead
  BY <1>1, <1>2, <1>3 DEF Wrapped, CancelledIsDead
<1>5. Flagged /\ AliveIsCurrent
  BY SafeTasksAssumption DEF SafeInit, Flagged, AliveIsCurrent
<1>6. WorkerHolds /\ CalledIsAlive
  BY <1>2, <1>3 DEF WorkerHolds, CalledIsAlive
<1> QED
  BY <1>1, <1>4, <1>5, <1>6 DEF SafeInv, FlagInv

\* A task that is posted is wrapped in nothing, or in a flag that exists and has not
\* been cancelled since.
LEMMA PostedHolds ==
  ASSUME SafeInv, NEW tag \in Tags, Holds(tag), NEW t \in Clients \cup {Post},
         queue' = Append(queue, t), tags' = Append(tags, tag),
         UNCHANGED <<objectVars, wtag, wstep, wpc>>
  PROVE  FlagInv'
<1> USE DEF SafeInv, FlagInv, objectVars
<1>1. queue \in Seq(Clients \cup {Post}) /\ tags \in Seq(Tags) /\ Len(tags) = Len(queue)
  BY DEF TypeOK, Wrapped
<1>2. /\ tags' \in Seq(Tags) /\ Len(tags') = Len(queue')
      /\ \A i \in DOMAIN tags' : IF i = Len(tags) + 1 THEN tags'[i] = tag
                                 ELSE i \in DOMAIN tags /\ tags'[i] = tags[i]
  BY <1>1
<1>3. Wrapped' /\ Flagged' /\ AliveIsCurrent' /\ WorkerHolds' /\ CalledIsAlive'
  BY <1>2 DEF Wrapped, Flagged, AliveIsCurrent, WorkerHolds, Holds, CalledIsAlive
<1>4. CancelledIsDead'
  BY <1>2 DEF CancelledIsDead, Holds
<1> QED
  BY <1>3, <1>4

\* A step that leaves the objects and the tasks alone.
LEMMA NothingWrapped ==
  ASSUME SafeInv, UNCHANGED <<objectVars, tags, wtag, wstep, queue>>,
         wpc' = "task" <=> wpc = "task"
  PROVE  FlagInv'
BY DEF SafeInv, FlagInv, objectVars, Wrapped, Flagged, AliveIsCurrent, CancelledIsDead,
       WorkerHolds, Holds, CalledIsAlive

\* The calls, wrapped or not.
LEMMA CallKeeps ==
  ASSUME SafeInv, Known, NEW c \in Callers,
         Call(c) \/ \E f \in Flags \cup {NoFlag} : PostTagged(c, f)
  PROVE  FlagInv'
<1>1. ASSUME NEW f \in Flags \cup {NoFlag}, PostTagged(c, f) PROVE FlagInv'
  <2> DEFINE tag == [flag |-> f, cancelled |-> FALSE]
  <2>1. tag \in Tags /\ Holds(tag)
    BY <1>1 DEF PostTagged, Tags, Holds
  <2>2. queue' = Append(queue, Post) /\ tags' = Append(tags, tag)
    BY <1>1 DEF PostTagged, PostTask
  <2>3. UNCHANGED <<objectVars, wtag, wstep, wpc>>
    BY <1>1 DEF PostTagged, PostTask
  <2> QED
    BY <2>1, <2>2, <2>3, PostedHolds
<1>2. CASE Call(c)
  <2>1. UNCHANGED <<objectVars, wtag, wstep, wpc>>
    BY <1>2 DEF Call, BlockingCall, TestCurrent, PostFunctor, ReturnInline
  <2>2. CASE queue' = queue
    <3>1. tags' = tags
      BY <1>2, <2>2 DEF Call
    <3> QED
      BY <2>1, <2>2, <3>1, NothingWrapped
  <2>3. CASE queue' # queue
    <3>1. queue' = Append(queue, c) /\ pc[c] = "post"
      BY <1>2, <2>3 DEF Call, BlockingCall, TestCurrent, PostFunctor, ReturnInline
    <3>2. c \in Clients
      BY <3>1 DEF Callers, Known, Roles
    <3>3. tags' = Append(tags, Plain)
      BY <1>2, <2>3 DEF Call
    <3>4. Plain \in Tags /\ Holds(Plain)
      BY DEF Plain, Tags, Holds
    <3> QED
      BY <2>1, <3>1, <3>2, <3>3, <3>4, PostedHolds
  <2> QED
    BY <2>2, <2>3
<1> QED
  BY <1>1, <1>2

\* The worker takes a task, reads its flag, and is done with it.
LEMMA TaskKeeps ==
  ASSUME SafeInv, TakeTagged \/ CheckAlive \/ FinishTagged
  PROVE  FlagInv'
<1> USE DEF SafeInv, FlagInv, objectVars
<1>1. CASE TakeTagged
  <2>1. queue # <<>> /\ queue' = Tail(queue) /\ wpc = "loop" /\ wpc' = "task"
    BY <1>1 DEF TakeTagged, Take
  <2>2. /\ wtag' = Head(tags) /\ tags' = Tail(tags)
        /\ wstep' = IF Head(tags).flag = NoFlag THEN "method" ELSE "check"
    BY <1>1 DEF TakeTagged
  <2>3. queue \in Seq(Clients \cup {Post}) /\ tags \in Seq(Tags) /\ Len(tags) = Len(queue)
    BY DEF TypeOK, Wrapped
  <2>4. tags # <<>> /\ Len(tags) > 0
    BY <2>1, <2>3, EmptySeq
  <2>5. /\ wtag' \in Tags /\ tags' \in Seq(Tags) /\ Len(tags') = Len(queue')
        /\ \A i \in DOMAIN tags' : i + 1 \in DOMAIN tags /\ tags'[i] = tags[i + 1]
        /\ wtag' = tags[1] /\ 1 \in DOMAIN tags
    BY <2>1, <2>2, <2>3, <2>4, HeadTailProperties
  <2>6. UNCHANGED objectVars
    BY <1>1 DEF TakeTagged
  <2>7. Wrapped'
    BY <2>1, <2>2, <2>5 DEF Wrapped
  <2>8. Flagged' /\ AliveIsCurrent'
    BY <2>6 DEF Flagged, AliveIsCurrent
  <2>9. CancelledIsDead'
    BY <2>5, <2>6 DEF CancelledIsDead, Holds
  <2>10. Holds(wtag)'
    BY <2>5, <2>6 DEF CancelledIsDead, Holds
  <2>11. WorkerHolds' /\ CalledIsAlive'
    BY <2>2, <2>10 DEF WorkerHolds, CalledIsAlive, Holds
  <2> QED
    BY <2>7, <2>8, <2>9, <2>11
<1>2. CASE CheckAlive
  <2>1. /\ wstep = "check" /\ wstep' = IF alive[wtag.flag] THEN "method" ELSE "over"
        /\ UNCHANGED <<queue, wpc, objectVars, tags, wtag>>
    BY <1>2 DEF CheckAlive, vars
  <2>2. Wrapped' /\ Flagged' /\ AliveIsCurrent' /\ CancelledIsDead' /\ WorkerHolds'
    BY <2>1 DEF Wrapped, Flagged, AliveIsCurrent, CancelledIsDead, WorkerHolds, Holds
  <2>3. wtag.flag \in Flags /\ (wtag.cancelled => ~alive[wtag.flag])
    BY <2>1 DEF WorkerHolds, Holds, Wrapped, Tags
  <2>4. CalledIsAlive'
    BY <2>1, <2>3 DEF CalledIsAlive, AliveIsCurrent
  <2> QED
    BY <2>2, <2>4
<1>3. CASE FinishTagged
  <2>1. /\ wtag' = Plain /\ wstep' = "none" /\ wpc' = "loop"
        /\ UNCHANGED <<objectVars, tags, queue>>
    BY <1>3 DEF FinishTagged, Finish
  <2>2. Plain \in Tags /\ Plain.flag = NoFlag
    BY DEF Plain, Tags
  <2> QED
    BY <2>1, <2>2 DEF Wrapped, Flagged, AliveIsCurrent, CancelledIsDead, WorkerHolds,
       Holds, CalledIsAlive
<1> QED
  BY <1>1, <1>2, <1>3

\* Marking the tasks of a flag changes nothing else about them.
LEMMA MarkedIs ==
  ASSUME tags \in Seq(Tags), NEW f, NEW c \in BOOLEAN
  PROVE  /\ Marked(tags, f, c) \in Seq(Tags)
         /\ Len(Marked(tags, f, c)) = Len(tags)
         /\ \A i \in DOMAIN tags :
              /\ Marked(tags, f, c)[i].flag = tags[i].flag
              /\ Marked(tags, f, c)[i].cancelled =
                   IF tags[i].flag = f THEN c ELSE tags[i].cancelled
<1> DEFINE m == Marked(tags, f, c)
<1>1. DOMAIN tags = 1 .. Len(tags) /\ Len(tags) \in Nat
  OBVIOUS
<1>2. \A i \in DOMAIN tags : tags[i] \in Tags
  BY <1>1
<1>3. \A i \in DOMAIN tags :
        m[i] = IF tags[i].flag = f THEN [tags[i] EXCEPT !.cancelled = c] ELSE tags[i]
  BY DEF Marked
<1>4. \A i \in DOMAIN tags :
        /\ m[i] \in Tags /\ m[i].flag = tags[i].flag
        /\ m[i].cancelled = IF tags[i].flag = f THEN c ELSE tags[i].cancelled
  BY <1>2, <1>3 DEF Tags
<1>5. m \in [1 .. Len(tags) -> Tags]
  BY <1>1, <1>4 DEF Marked
<1>6. m \in Seq(Tags) /\ Len(m) = Len(tags)
  BY <1>1, <1>5
<1> QED
  BY <1>4, <1>6

\* The objects, in a task of the worker.
LEMMA LiveKeeps ==
  ASSUME SafeInv, Live
  PROVE  FlagInv'
<1> USE SafeTasksAssumption DEF SafeInv, FlagInv
<1>1. PICK o \in Objects :
        \/ \E f \in Flags : (\E a \in BOOLEAN : Create(o, f, a)) \/ Renew(o, f)
        \/ Pause(o) \/ Resume(o) \/ Destroy(o)
  BY DEF Live
<1>2. wstep = "method" /\ UNCHANGED <<queue, wpc, wtag, wstep>>
  BY <1>1 DEF Create, Renew, Pause, Resume, Destroy, OnQueue, vars, taskVars
<1>3. ASSUME NEW f \in Flags, NEW a \in BOOLEAN, UNCHANGED tags, CreateInternal(o, f, a),
             state' = [state EXCEPT ![o] = "exists"],
             state[o] = "none" \/ (state[o] = "exists" /\ ~alive[safety_flag[o]])
      PROVE  FlagInv'
  <2>1. target[f] = NoObject /\ ~alive[f]
    BY <1>3 DEF CreateInternal, AliveIsCurrent
  <2>2. \A g \in Flags : alive[g] => target[g] # o
    BY <1>3 DEF AliveIsCurrent
  <2>3. \A p \in Objects : safety_flag[p] # f
    BY <2>1 DEF Flagged
  <2>4. Wrapped'
    BY <1>2, <1>3 DEF Wrapped
  <2>5. Flagged'
    BY <1>3, <2>3 DEF Flagged, CreateInternal
  <2>6. AliveIsCurrent'
    BY <1>3, <2>2 DEF Flagged, CreateInternal, AliveIsCurrent
  <2>7. \A tag \in Tags : Holds(tag) => Holds(tag)'
    BY <1>3, <2>1 DEF Flagged, CreateInternal, Holds, Tags
  <2>8. CancelledIsDead'
    BY <1>3, <2>7 DEF Wrapped, CancelledIsDead
  <2>9. WorkerHolds' /\ CalledIsAlive'
    BY <1>2, <1>3, <2>1 DEF Wrapped, Flagged, Tags, CreateInternal, WorkerHolds, CalledIsAlive
  <2> QED
    BY <2>4, <2>5, <2>6, <2>8, <2>9
<1>4. ASSUME NEW f \in Flags, NEW a \in BOOLEAN, Create(o, f, a) PROVE FlagInv'
  BY <1>3, <1>4 DEF Create, taskVars
<1>5. ASSUME NEW f \in Flags, Renew(o, f) PROVE FlagInv'
  <2>1. state' = [state EXCEPT ![o] = "exists"]
    BY <1>5 DEF Renew, Flagged
  <2> QED
    BY <1>3, <1>5, <2>1 DEF Renew, taskVars
<1> DEFINE f == safety_flag[o]
<1>6. CASE Pause(o) \/ Resume(o) \/ Destroy(o)
  <2>1. state[o] = "exists" /\ f \in Flags /\ target[f] = o
    BY <1>6 DEF Pause, Resume, Destroy, Flagged
  <2>2. UNCHANGED <<safety_flag, target>>
    BY <1>6 DEF Pause, Resume, Destroy
  <2>3. PICK a \in BOOLEAN, c \in BOOLEAN :
          /\ alive' = [alive EXCEPT ![f] = a] /\ tags' = Marked(tags, f, c) /\ c # a
          /\ \/ state' = state
             \/ /\ ~a /\ state' = [state EXCEPT ![o] = "destroyed"]
                /\ wtag.flag # NoFlag => target[wtag.flag] # o
    BY <1>6 DEF Pause, Resume, Destroy, SetAlive, SetNotAlive
  <2>4. /\ tags' \in Seq(Tags) /\ Len(tags') = Len(tags)
        /\ \A i \in DOMAIN tags :
             /\ tags'[i].flag = tags[i].flag
             /\ tags'[i].cancelled = IF tags[i].flag = f THEN c ELSE tags[i].cancelled
    BY <2>3, MarkedIs DEF Wrapped
  <2>5. DOMAIN tags' = DOMAIN tags
    BY <2>4 DEF Wrapped
  <2>6. Wrapped'
    BY <1>2, <2>4 DEF Wrapped
  <2>7. Flagged'
    BY <2>1, <2>2, <2>3 DEF Flagged
  <2>8. AliveIsCurrent'
    BY <2>1, <2>2, <2>3 DEF Flagged, AliveIsCurrent
  <2>9. ASSUME NEW i \in DOMAIN tags' PROVE Holds(tags[i])'
    <3>1. i \in DOMAIN tags /\ Holds(tags[i]) /\ tags[i] \in Tags
      BY <2>5, <2>9 DEF CancelledIsDead, Wrapped
    <3> QED
      BY <3>1, <2>1, <2>2, <2>3, <2>4 DEF Holds, Flagged, Tags
  <2>10. CancelledIsDead'
    BY <2>9 DEF CancelledIsDead
  <2>11. WorkerHolds' /\ CalledIsAlive'
    BY <1>2, <2>1, <2>2, <2>3 DEF Wrapped, Flagged, Tags, WorkerHolds, CalledIsAlive
  <2> QED
    BY <2>6, <2>7, <2>8, <2>10, <2>11
<1> QED
  BY <1>1, <1>4, <1>5, <1>6

\* Every step keeps it.
LEMMA SafeInvStep ==
  ASSUME SafeInv, Known, [SafeNext]_safeVars
  PROVE  FlagInv'
<1>1. CASE Others
  <2>1. UNCHANGED <<objectVars, tags, wtag, wstep, queue>>
    BY <1>1 DEF Others, taskVars, Appear, Vanish, Control, Start, CreateThread, Stop,
       Join, PreRun, Exit
  <2>2. wpc' = "task" <=> wpc = "task"
    BY <1>1 DEF Known, Roles, Others, Appear, Vanish, Control, Start, CreateThread, Stop,
       Join, PreRun, Exit
  <2> QED
    BY <2>1, <2>2, NothingWrapped
<1>2. CASE UNCHANGED safeVars
  BY <1>2, NothingWrapped DEF safeVars, vars, taskVars
<1> QED
  BY <1>1, <1>2, CallKeeps, TaskKeeps, LiveKeeps DEF SafeNext

\* The flags are consistent in every state.
LEMMA AlwaysSafeInv == SafeSpec => []SafeInv
<1>1. SafeSpec => []Known
  BY SafeRefines, AlwaysKnown, PTL
<1>2. SafeInv /\ Known /\ Known' /\ [SafeNext]_safeVars => SafeInv'
  BY SafeInvStep DEF SafeInv, Known
<1> QED
  BY SafeInvInit, <1>1, <1>2, PTL DEF SafeSpec

\* Every state is well typed, and what a task is wrapped in stays beside it.
THEOREM SafeTypes == SafeSpec => []SafeTypeOK
<1>1. SafeInv => SafeTypeOK
  BY DEF SafeInv, FlagInv, Wrapped, Flagged, SafeTypeOK
<1> QED
  BY <1>1, AlwaysSafeInv, PTL

\* A method that a SafeTask calls has its object, for any number of objects, flags and
\* posting threads: an object that is destroyed takes its flag with it, and nobody
\* brings to life again a flag of which the object has got rid.
THEOREM CalledObjectExists == SafeSpec => []CalledIsAlive
<1>1. SafeInv => CalledIsAlive
  BY DEF SafeInv, FlagInv
<1> QED
  BY <1>1, AlwaysSafeInv, PTL
=============================================================================
