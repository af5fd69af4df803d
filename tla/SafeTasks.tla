----------------------------- MODULE SafeTasks ------------------------------
(***************************************************************************)
(* PendingTaskSafetyFlag and SafeTask (thread/pending_task_safety_flag.h)  *)
(* on the queue of module ThreadIdentity.  Objects live on the thread of   *)
(* the queue: tasks create them, pause and resume them, and destroy them.  *)
(* Any thread posts tasks that call a method of an object, wrapped in a    *)
(* SafeTask with a flag of the object, a reference to which it keeps.      *)
(*                                                                         *)
(* When the wrapped task is executed, reading the flag is a step, and what *)
(* the method does comes after it.                                         *)
(***************************************************************************)
EXTENDS ThreadIdentity

CONSTANTS
  Objects,        \* objects with methods to be called, each created once
  Flags,          \* PendingTaskSafetyFlags
  NoObject, NoFlag

ASSUME SafeTasksAssumption == NoObject \notin Objects /\ NoFlag \notin Flags

VARIABLES
  state,          \* state[o]: "none", "exists" or "destroyed"
  safety_flag,    \* safety_flag[o]: the flag of o that new tasks are posted with
  target,         \* target[f]: the object for which f was created
  alive,          \* alive[f]: alive_
  tags,           \* tags[i]: what queue[i] is wrapped in
  wtag, wstep     \* what the worker's task is wrapped in, and how far it is

objectVars == <<state, safety_flag, target, alive>>
taskVars == <<tags, wtag, wstep>>
safeVars == <<vars, objectVars, taskVars>>

\* The flag of a SafeTask (or none), and whether SetNotAlive was called on it after
\* the task was posted and not followed by SetAlive (bookkeeping).
Tags == [flag : Flags \cup {NoFlag}, cancelled : BOOLEAN]
Plain == [flag |-> NoFlag, cancelled |-> FALSE]

SafeTypeOK ==
  /\ TypeOK
  /\ state \in [Objects -> {"none", "exists", "destroyed"}]
  /\ safety_flag \in [Objects -> Flags \cup {NoFlag}]
  /\ \A o \in Objects : safety_flag[o] = NoFlag <=> state[o] = "none"
  /\ target \in [Flags -> Objects \cup {NoObject}]
  /\ \A o \in Objects : safety_flag[o] # NoFlag => target[safety_flag[o]] = o
  /\ alive \in [Flags -> BOOLEAN]
  /\ tags \in Seq(Tags) /\ Len(tags) = Len(queue)
  /\ wtag \in Tags
  /\ wstep \in {"none", "check", "method", "over"}
  /\ wstep = "none" <=> wpc # "task"

SafeInit ==
  /\ Init
  /\ state = [o \in Objects |-> "none"]
  /\ safety_flag = [o \in Objects |-> NoFlag]
  /\ target = [f \in Flags |-> NoObject]
  /\ alive = [f \in Flags |-> FALSE]
  /\ tags = <<>> /\ wtag = Plain /\ wstep = "none"

-----------------------------------------------------------------------------
(* The flag. *)

\* The tasks of f in s are cancelled, or resurrected.
Marked(s, f, c) ==
  [i \in DOMAIN s |-> IF s[i].flag = f THEN [s[i] EXCEPT !.cancelled = c] ELSE s[i]]

\* Create and CreateDetached make a flag that is alive, CreateDetachedInactive one
\* that is not.
CreateInternal(o, f, a) ==
  /\ target[f] = NoObject
  /\ target' = [target EXCEPT ![f] = o]
  /\ alive' = [alive EXCEPT ![f] = a]
  /\ safety_flag' = [safety_flag EXCEPT ![o] = f]

SetNotAlive(f) ==
  /\ alive' = [alive EXCEPT ![f] = FALSE]
  /\ tags' = Marked(tags, f, TRUE)

SetAlive(f) ==
  /\ alive' = [alive EXCEPT ![f] = TRUE]
  /\ tags' = Marked(tags, f, FALSE)

-----------------------------------------------------------------------------
(* The objects, on the thread of their queue. *)

OnQueue == MayCall(Worker) /\ wstep = "method"

Create(o, f, a) ==
  /\ OnQueue /\ state[o] = "none"
  /\ state' = [state EXCEPT ![o] = "exists"]
  /\ CreateInternal(o, f, a)
  /\ UNCHANGED <<vars, taskVars>>

Pause(o) ==
  /\ OnQueue /\ state[o] = "exists" /\ alive[safety_flag[o]]
  /\ SetNotAlive(safety_flag[o])
  /\ UNCHANGED <<vars, state, safety_flag, target, wtag, wstep>>

\* An object that wants to have tasks again has two ways (i) and (ii).
Resume(o) ==
  /\ OnQueue /\ state[o] = "exists" /\ ~alive[safety_flag[o]]
  /\ SetAlive(safety_flag[o])
  /\ UNCHANGED <<vars, state, safety_flag, target, wtag, wstep>>

Renew(o, f) ==
  /\ OnQueue /\ state[o] = "exists" /\ ~alive[safety_flag[o]]
  /\ CreateInternal(o, f, TRUE)
  /\ UNCHANGED <<vars, state, taskVars>>

\* Not in one of its own methods.
Destroy(o) ==
  /\ OnQueue /\ state[o] = "exists"
  /\ wtag.flag # NoFlag => target[wtag.flag] # o
  /\ state' = [state EXCEPT ![o] = "destroyed"]
  /\ SetNotAlive(safety_flag[o])
  /\ UNCHANGED <<vars, safety_flag, target, wtag, wstep>>

-----------------------------------------------------------------------------
(* The tasks. *)

\* A task of the worker calls something while it is at its method only.
Active(c) == c = Worker => wstep = "method"

\* PostTask of a plain task, or of a SafeTask with a flag that exists.
PostTagged(c, f) ==
  /\ Active(c) /\ PostTask(c)
  /\ f # NoFlag => target[f] # NoObject
  /\ tags' = Append(tags, [flag |-> f, cancelled |-> FALSE])
  /\ UNCHANGED <<objectVars, wtag, wstep>>

Call(c) ==
  /\ Active(c)
  /\ BlockingCall(c) \/ TestCurrent(c) \/ PostFunctor(c) \/ ReturnInline(c)
  /\ tags' = IF queue' = queue THEN tags ELSE Append(tags, Plain)
  /\ UNCHANGED <<objectVars, wtag, wstep>>

TakeTagged ==
  /\ Take
  /\ wtag' = Head(tags) /\ tags' = Tail(tags)
  /\ wstep' = IF Head(tags).flag = NoFlag THEN "method" ELSE "check"
  /\ UNCHANGED objectVars

\* (Altered: the wrapped task is executed whatever the flag says.)
CheckNothing ==
  /\ wstep = "check"
  /\ wstep' = "method"
  /\ UNCHANGED <<vars, objectVars, tags, wtag>>

\* flag->alive()
CheckAlive ==
  /\ wstep = "check"
  /\ wstep' = IF alive[wtag.flag] THEN "method" ELSE "over"
  /\ UNCHANGED <<vars, objectVars, tags, wtag>>

FinishTagged ==
  /\ wstep \in {"method", "over"} /\ Finish
  /\ wtag' = Plain /\ wstep' = "none"
  /\ UNCHANGED <<objectVars, tags>>

-----------------------------------------------------------------------------
Live ==
  \E o \in Objects :
    \/ \E f \in Flags : (\E a \in BOOLEAN : Create(o, f, a)) \/ Renew(o, f)
    \/ Pause(o) \/ Resume(o) \/ Destroy(o)

Others ==
  /\ \/ \E c \in Clients : Appear(c) \/ Vanish(c)
     \/ Control \/ PreRun \/ Exit
  /\ UNCHANGED <<objectVars, taskVars>>

SafeNext ==
  \/ \E c \in Callers : Call(c) \/ \E f \in Flags \cup {NoFlag} : PostTagged(c, f)
  \/ TakeTagged \/ CheckAlive \/ FinishTagged
  \/ Live
  \/ Others

SafeSpec == SafeInit /\ [][SafeNext]_safeVars

-----------------------------------------------------------------------------
\* A method that a SafeTask calls has its object (pending_task_safety_flag.h:18-21),
\* whoever posted it and when; and a task posted before SetNotAlive is executed only
\* if SetAlive followed on the same flag, not because the object has a fresh one
\* (lines 69-80 of that header).
CalledIsAlive ==
  wstep = "method" /\ wtag.flag # NoFlag =>
    state[target[wtag.flag]] = "exists" /\ ~wtag.cancelled
=============================================================================
