------------------------------- MODULE Thread -------------------------------
(***************************************************************************)
(* basic_comm::Thread (thread/thread.h, thread/thread.cc): an OS thread    *)
(* that executes tasks posted by any thread, at once or after a delay.     *)
(*                                                                         *)
(* The model has one process per OS thread.  Worker is the thread that     *)
(* Start creates: it runs PreRun, Run, ProcessMessages(kForever), Get and  *)
(* Dispatch.  The other callers use the object from outside; Owner is the  *)
(* one of them that starts, stops and deletes it.  A task may itself call  *)
(* the object, so Worker is also a caller while it executes a task.  Every *)
(* caller has a program counter; a step is one atomic access to stop_, one *)
(* section under mutex_, one operation on an event, or one system call.    *)
(***************************************************************************)
EXTENDS Integers, Sequences

CONSTANTS
  Clients,   \* OS threads that hold a pointer to the object
  Owner,     \* the client that starts, stops and deletes it
  Worker,    \* the OS thread that Start creates
  NoOne,     \* no caller waits for this task
  Tasks,     \* task objects: each is posted at most once (move-only)
  NoTask,    \* the moved-from AnyInvocable
  Ops,       \* the public methods the callers use
  Delays,    \* delay_us arguments
  MaxTick,   \* largest value of the millisecond clock
  Wraps,     \* TRUE: after MaxTick the clock is 0 again (GetTickCount, 32 bits);
             \* FALSE: MaxTick is only the horizon of the model
  NumMod     \* delayed_next_num_ is counted modulo NumMod (2^32 in the code)

Callers == Clients \cup {Worker}

ASSUME ThreadAssumption ==
  /\ Owner \in Clients
  /\ Worker \notin Clients
  /\ NoOne \notin Callers
  /\ NoTask \notin Tasks
  /\ Delays \subseteq Int
  /\ MaxTick \in Nat
  /\ Wraps \in BOOLEAN
  /\ NumMod \in Nat \ {0}

Forever == -1                       \* Thread::kForever

VARIABLES
  messages,      \* messages_, front first
  delayed,       \* the tasks in delayed_messages_
  run_time,      \* run_time[t]: run_time_ms of t's DelayedMessage
  number,        \* number[t]: its message_number, -1 until it has one
  next_num,      \* delayed_next_num_
  stop,          \* stop_ # 0
  event,         \* event_ is signaled (auto-reset)
  thread,        \* thread_ # nullptr
  destroyed,     \* fDestroyed_
  now,           \* the clock behind TimeUtils::TimeMillis
  wpc,           \* where Worker is
  wtask,         \* the task Worker executes
  wcur,          \* msCurrent of Worker's Get
  wnext,         \* what is left of the timeout of Worker's event_.Wait
  pc,            \* pc[c]: where caller c is
  arg,           \* arg[c]: the task c is posting or waiting for
  waiter,        \* waiter[t]: the BlockingCall whose event t's cleanup sets
  done,          \* done[c]: c's done_event is signaled
  fate,          \* fate[t]: where the task object is (bookkeeping)
  due            \* due[t]: microsecond at which t was asked to run (bookkeeping)

queueVars  == <<messages, delayed, run_time, number, next_num>>
workerVars == <<wpc, wtask, wcur, wnext>>
callVars   == <<pc, arg, waiter, done>>
vars == <<queueVars, stop, event, thread, destroyed, now, workerVars,
          callVars, fate, due>>

Fates == {"fresh", "posting", "delayed", "queued", "running", "ran",
          "inline", "refused", "destroyed"}

WorkerPCs == {"none", "prerun", "clock", "lock", "scan", "quitting", "wait",
              "run", "exited"}

CallerPCs == {"idle", "push", "stamp", "pushDelayed", "wake",
              "callPost", "callPush", "callWake", "await",
              "create", "stopWake", "join",
              "deleteWake", "deleteJoin", "destroy"}

\* A caller here has a task in its hands, or waits for one.
Holding == {"push", "stamp", "pushDelayed", "callPost", "callPush", "callWake",
            "await"}

\* ... of which: the task is not in a queue yet; the caller is in BlockingCall.
Posting == {"push", "stamp", "pushDelayed", "callPost", "callPush"}
Calling == {"callPost", "callPush", "callWake", "await"}

\* The caller is in Start, Stop, Delete or the destructor.
Controlling == {"create", "stopWake", "join", "deleteWake", "deleteJoin", "destroy"}

\* Where a caller goes when WakeUp returns.
AfterWake ==
  [wake |-> "idle", callWake |-> "await", stopWake |-> "join",
   deleteWake |-> "deleteJoin"]

TypeOK ==
  /\ messages \in Seq(Tasks)
  /\ delayed \subseteq Tasks
  /\ run_time \in [Tasks -> Int]
  /\ number \in [Tasks -> Int]
  /\ next_num \in 0 .. NumMod - 1
  /\ stop \in BOOLEAN /\ event \in BOOLEAN
  /\ thread \in BOOLEAN /\ destroyed \in BOOLEAN
  /\ now \in 0 .. MaxTick
  /\ wpc \in WorkerPCs
  /\ wtask \in Tasks \cup {NoTask}
  /\ wcur \in 0 .. MaxTick
  /\ wnext \in Int
  /\ pc \in [Callers -> CallerPCs]
  /\ arg \in [Callers -> Tasks \cup {NoTask}]
  /\ \A c \in Callers : pc[c] \in Holding => arg[c] \in Tasks
  /\ waiter \in [Tasks -> Callers \cup {NoOne}]
  /\ done \in [Callers -> BOOLEAN]
  /\ fate \in [Tasks -> Fates]
  /\ due \in [Tasks -> Int]

Init ==
  /\ messages = <<>> /\ delayed = {}
  /\ run_time = [t \in Tasks |-> 0] /\ number = [t \in Tasks |-> -1]
  /\ next_num = 0
  /\ stop = FALSE /\ event = FALSE /\ thread = FALSE /\ destroyed = FALSE
  /\ now = 0
  /\ wpc = "none" /\ wtask = NoTask /\ wcur = 0 /\ wnext = Forever
  /\ pc = [c \in Callers |-> "idle"] /\ arg = [c \in Callers |-> NoTask]
  /\ waiter = [t \in Tasks |-> NoOne] /\ done = [c \in Callers |-> FALSE]
  /\ fate = [t \in Tasks |-> "fresh"] /\ due = [t \in Tasks |-> 0]

-----------------------------------------------------------------------------
(* Helpers. *)

\* mutex_ is free: only Get holds it for more than one step of the model.
Unlocked == wpc # "scan"

\* (Altered: rounds down.)
DelayMsDown(us) == us \div 1000

\* RoundUp of PostDelayedHighPrecisionTask, with the truncation of C's / and %.
DelayMs(us) ==
  IF us >= 0 THEN (us + 999) \div 1000 ELSE - ((- us) \div 1000)

\* (Altered: without the message number.)
BeforeByTime(t, u) == run_time[t] < run_time[u]

\* DelayedMessage::operator<, reversed: t is nearer the top than u.
Before(t, u) ==
  \/ run_time[t] < run_time[u]
  \/ run_time[t] = run_time[u] /\ number[t] < number[u]

\* t may be delayed_messages_.top().
Top(t) == t \in delayed /\ \A u \in delayed : ~ Before(u, t)

\* The triggering condition of Get.
Due(t) == run_time[t] <= wcur

\* ++delayed_next_num_, a uint32_t.
NextNum == (next_num + 1) % NumMod

\* c may call the object: a thread does one thing at a time, Worker calls only
\* from inside a task, and nobody outside calls once Delete was called.
MayCall(c) ==
  /\ pc[c] = "idle"
  /\ ~destroyed
  /\ c = Worker => wpc = "run"
  /\ c # Worker => pc[Owner] \notin {"deleteWake", "deleteJoin", "destroy"}

Goto(c, p) == pc' = [pc EXCEPT ![c] = p]

\* (Altered: the functor sets the event, not the destruction of its task.)
SignalIfRan(S) ==
  done' = [c \in Callers |->
             done[c] \/ \E t \in S : waiter[t] = c /\ fate[t] = "running"]

\* The task objects in S are destroyed: the cleanup of a BlockingCall's task
\* sets the done_event of its caller.
Signal(S) ==
  done' = [c \in Callers |-> done[c] \/ \E t \in S : waiter[t] = c]

-----------------------------------------------------------------------------
(* Posting. *)

\* (Altered: the task has been moved from when it is pushed.)
PostTaskMoved(c, t) ==
  /\ MayCall(c) /\ "PostTask" \in Ops /\ fate[t] = "fresh" /\ ~stop
  /\ fate' = [fate EXCEPT ![t] = "posting"]
  /\ Goto(c, "push")
  /\ UNCHANGED <<queueVars, stop, event, thread, destroyed, now, workerVars, arg,
                 waiter, done, due>>

\* PostTask: refused when quitting (the task is destroyed), else on to push.
PostTask(c, t) ==
  /\ MayCall(c) /\ "PostTask" \in Ops /\ fate[t] = "fresh"
  /\ \/ /\ stop
        /\ fate' = [fate EXCEPT ![t] = "refused"]
        /\ UNCHANGED <<pc, arg>>
     \/ /\ ~stop
        /\ fate' = [fate EXCEPT ![t] = "posting"]
        /\ arg' = [arg EXCEPT ![c] = t]
        /\ Goto(c, "push")
  /\ UNCHANGED <<queueVars, stop, event, thread, destroyed, now, workerVars,
                 waiter, done, due>>

\* messages_.push under mutex_, for PostTask and for BlockingCall's PostTask.
PushMessage(c) ==
  /\ pc[c] \in {"push", "callPush"} /\ Unlocked
  /\ messages' = Append(messages, arg[c])
  /\ fate' = [fate EXCEPT ![arg[c]] = "queued"]
  /\ IF pc[c] = "push"
       THEN Goto(c, "wake") /\ arg' = [arg EXCEPT ![c] = NoTask]
       ELSE Goto(c, "callWake") /\ UNCHANGED arg
  /\ UNCHANGED <<delayed, run_time, number, next_num, stop, event, thread,
                 destroyed, now, workerVars, waiter, done, due>>

\* PostDelayedTask is PostDelayedHighPrecisionTask: the same test of stop_,
\* then the trigger time is computed from the clock, then the push.
PostDelayedTask(c, t) ==
  /\ MayCall(c) /\ "PostDelayedTask" \in Ops /\ fate[t] = "fresh"
  /\ \/ /\ stop
        /\ fate' = [fate EXCEPT ![t] = "refused"]
        /\ UNCHANGED <<pc, arg>>
     \/ /\ ~stop
        /\ fate' = [fate EXCEPT ![t] = "posting"]
        /\ arg' = [arg EXCEPT ![c] = t]
        /\ Goto(c, "stamp")
  /\ UNCHANGED <<queueVars, stop, event, thread, destroyed, now, workerVars,
                 waiter, done, due>>

StampDelayed(c, us) ==
  /\ pc[c] = "stamp"
  /\ run_time' = [run_time EXCEPT ![arg[c]] = now + DelayMs(us)]
  /\ due' = [due EXCEPT ![arg[c]] = 1000 * now + us]
  /\ Goto(c, "pushDelayed")
  /\ UNCHANGED <<messages, delayed, number, next_num, stop, event, thread,
                 destroyed, now, workerVars, arg, waiter, done, fate>>

PushDelayed(c) ==
  /\ pc[c] = "pushDelayed" /\ Unlocked
  /\ delayed' = delayed \cup {arg[c]}
  /\ number' = [number EXCEPT ![arg[c]] = next_num]
  /\ next_num' = NextNum
  /\ fate' = [fate EXCEPT ![arg[c]] = "delayed"]
  /\ Goto(c, "wake") /\ arg' = [arg EXCEPT ![c] = NoTask]
  /\ UNCHANGED <<messages, run_time, stop, event, thread, destroyed, now,
                 workerVars, waiter, done, due>>

\* (Altered: the event is not set.)
WakeUpLost(c) ==
  /\ pc[c] \in DOMAIN AfterWake
  /\ Goto(c, AfterWake[pc[c]])
  /\ UNCHANGED <<queueVars, stop, event, thread, destroyed, now, workerVars,
                 arg, waiter, done, fate, due>>

\* WakeUp: event_.Set(), the last call of every method that changes the queue
\* or stop_.
WakeUp(c) ==
  /\ pc[c] \in DOMAIN AfterWake
  /\ event' = TRUE
  /\ Goto(c, AfterWake[pc[c]])
  /\ UNCHANGED <<queueVars, stop, thread, destroyed, now, workerVars, arg,
                 waiter, done, fate, due>>

-----------------------------------------------------------------------------
(* BlockingCall. *)

\* Returns at once when quitting; runs the functor in place on Worker; else
\* makes the event and the task whose destruction sets it.
BlockingCall(c, t) ==
  /\ MayCall(c) /\ "BlockingCall" \in Ops /\ fate[t] = "fresh"
  /\ \/ /\ stop
        /\ fate' = [fate EXCEPT ![t] = "refused"]
        /\ UNCHANGED <<pc, arg, waiter>>
     \/ /\ ~stop /\ c = Worker
        /\ fate' = [fate EXCEPT ![t] = "inline"]
        /\ UNCHANGED <<pc, arg, waiter>>
     \/ /\ ~stop /\ c # Worker
        /\ fate' = [fate EXCEPT ![t] = "posting"]
        /\ arg' = [arg EXCEPT ![c] = t]
        /\ waiter' = [waiter EXCEPT ![t] = c]
        /\ Goto(c, "callPost")
  /\ UNCHANGED <<queueVars, stop, event, thread, destroyed, now, workerVars,
                 done, due>>

\* The test of stop_ in the PostTask that BlockingCall calls.  A refused task
\* is destroyed there and then, which sets the event.
CallPost(c) ==
  /\ pc[c] = "callPost"
  /\ \/ /\ stop
        /\ fate' = [fate EXCEPT ![arg[c]] = "refused"]
        /\ Signal({arg[c]})
        /\ Goto(c, "await")
     \/ /\ ~stop
        /\ Goto(c, "callPush")
        /\ UNCHANGED <<fate, done>>
  /\ UNCHANGED <<queueVars, stop, event, thread, destroyed, now, workerVars,
                 arg, waiter, due>>

\* (Altered: the wait may time out.)
AnsweredOrTimeout(c) == pc[c] = "await"

\* done_event->Wait(kForever) can return.
Answered(c) == pc[c] = "await" /\ done[c]

\* The event is auto-reset and local to the call.
CallReturn(c) ==
  /\ Answered(c)
  /\ done' = [done EXCEPT ![c] = FALSE]
  /\ arg' = [arg EXCEPT ![c] = NoTask]
  /\ Goto(c, "idle")
  /\ UNCHANGED <<queueVars, stop, event, thread, destroyed, now, workerVars,
                 waiter, fate, due>>

-----------------------------------------------------------------------------
(* Control: Quit, Restart, Start, Stop, Delete. *)

Quit(c) ==
  /\ MayCall(c) /\ "Quit" \in Ops
  /\ stop' = TRUE
  /\ Goto(c, "wake")
  /\ UNCHANGED <<queueVars, event, thread, destroyed, now, workerVars, arg,
                 waiter, done, fate, due>>

Restart(c) ==
  /\ MayCall(c) /\ "Restart" \in Ops
  /\ stop' = FALSE
  /\ UNCHANGED <<queueVars, event, thread, destroyed, now, workerVars,
                 callVars, fate, due>>

\* Start returns false when there is a thread already; else Restart, ...
Start ==
  /\ MayCall(Owner) /\ "Start" \in Ops /\ ~thread
  /\ stop' = FALSE
  /\ Goto(Owner, "create")
  /\ UNCHANGED <<queueVars, event, thread, destroyed, now, workerVars, arg,
                 waiter, done, fate, due>>

\* ... then CreateThread, which may fail and leave the object without one.
CreateThread ==
  /\ pc[Owner] = "create"
  /\ \/ thread' = TRUE /\ wpc' = "prerun"
     \/ "CreateFails" \in Ops /\ UNCHANGED <<thread, wpc>>
  /\ Goto(Owner, "idle")
  /\ UNCHANGED <<queueVars, stop, event, destroyed, now, wtask, wcur, wnext,
                 arg, waiter, done, fate, due>>

\* Stop, and the Stop of Delete and of the destructor: Quit, then Join.
Stop ==
  /\ MayCall(Owner)
  /\ \/ "Stop" \in Ops /\ Goto(Owner, "stopWake")
     \/ "Delete" \in Ops /\ Goto(Owner, "deleteWake")
  /\ stop' = TRUE
  /\ UNCHANGED <<queueVars, event, thread, destroyed, now, workerVars, arg,
                 waiter, done, fate, due>>

\* (Altered: the wait for the thread may time out.)
JoinableAnyTime == wpc # "none"

Joinable == wpc = "exited"

\* Join: nothing to do without a thread; else wait for it and close the handle.
Join ==
  /\ \/ pc[Owner] = "join" /\ Goto(Owner, "idle")
     \/ pc[Owner] = "deleteJoin" /\ Goto(Owner, "destroy")
  /\ \/ ~thread /\ UNCHANGED <<thread, wpc>>
     \/ thread /\ Joinable /\ thread' = FALSE /\ wpc' = "none"
  /\ UNCHANGED <<queueVars, stop, event, destroyed, now, wtask, wcur, wnext,
                 arg, waiter, done, fate, due>>

\* DoDestroy drops both queues; the tasks in them are destroyed.  The callers
\* are done with the object by then, except those whose BlockingCall only
\* waits for its own event.
DoDestroy ==
  /\ pc[Owner] = "destroy"
  /\ \A c \in Callers \ {Owner} : pc[c] \in {"idle", "await"}
  /\ LET dropped == {t \in Tasks : fate[t] \in {"queued", "delayed"}}
     IN /\ fate' = [t \in Tasks |-> IF t \in dropped THEN "destroyed" ELSE fate[t]]
        /\ Signal(dropped)
  /\ messages' = <<>> /\ delayed' = {}
  /\ destroyed' = TRUE
  /\ Goto(Owner, "idle")
  /\ UNCHANGED <<run_time, number, next_num, stop, event, thread, now,
                 workerVars, arg, waiter, due>>

-----------------------------------------------------------------------------
(* The thread itself. *)

\* PreRun, up to Run.
PreRun ==
  /\ wpc = "prerun" /\ wpc' = "clock"
  /\ UNCHANGED <<queueVars, stop, event, thread, destroyed, now, wtask, wcur,
                 wnext, callVars, fate, due>>

\* msCurrent = TimeMillis(), on entry to Get and after every wait.
ReadClock ==
  /\ wpc = "clock" /\ wpc' = "lock" /\ wcur' = now
  /\ UNCHANGED <<queueVars, stop, event, thread, destroyed, now, wtask, wnext,
                 callVars, fate, due>>

LockQueues ==
  /\ wpc = "lock" /\ wpc' = "scan"
  /\ UNCHANGED <<queueVars, stop, event, thread, destroyed, now, wtask, wcur,
                 wnext, callVars, fate, due>>

\* The loop under mutex_: a triggered delayed message goes to messages_.
MoveDue(t) ==
  /\ wpc = "scan" /\ Top(t) /\ Due(t)
  /\ messages' = Append(messages, t)
  /\ delayed' = delayed \ {t}
  /\ fate' = [fate EXCEPT ![t] = "queued"]
  /\ UNCHANGED <<run_time, number, next_num, stop, event, thread, destroyed,
                 now, workerVars, callVars, due>>

\* The loop is over: no top, or a top that is not due.
NothingDue == \A t \in delayed : Top(t) => ~ Due(t)

\* Get returns the front of messages_; Dispatch starts it.
TakeMessage ==
  /\ wpc = "scan" /\ NothingDue /\ messages # <<>>
  /\ wtask' = Head(messages)
  /\ messages' = Tail(messages)
  /\ fate' = [fate EXCEPT ![Head(messages)] = "running"]
  /\ wpc' = "run"
  /\ UNCHANGED <<delayed, run_time, number, next_num, stop, event, thread,
                 destroyed, now, wcur, wnext, callVars, due>>

\* (Altered: delayed messages are not looked at.)
NextWaitForever == {Forever}

\* cmsDelayNext: the time from the clock value of the scan to the next trigger.
NextWait ==
  IF delayed = {} THEN {Forever}
  ELSE {run_time[t] - wcur : t \in {u \in delayed : Top(u)}}

\* Nothing to return: unlock, with the time to the next trigger.
FindNothing ==
  /\ wpc = "scan" /\ NothingDue /\ messages = <<>>
  /\ wnext' \in NextWait
  /\ wpc' = "quitting"
  /\ UNCHANGED <<queueVars, stop, event, thread, destroyed, now, wtask, wcur,
                 callVars, fate, due>>

\* if (IsQuitting()) break: Get, ProcessMessages, Run and PreRun return.
CheckQuit ==
  /\ wpc = "quitting"
  /\ wpc' = IF stop THEN "exited" ELSE "wait"
  /\ UNCHANGED <<queueVars, stop, event, thread, destroyed, now, wtask, wcur,
                 wnext, callVars, fate, due>>

\* event_.Wait returns: the signal is consumed, or the time is over.
EndWait ==
  /\ wpc = "wait" /\ wpc' = "clock"
  /\ \/ event /\ event' = FALSE
     \/ wnext = 0 /\ UNCHANGED event
  /\ UNCHANGED <<queueVars, stop, thread, destroyed, now, wtask, wcur, wnext,
                 callVars, fate, due>>

\* Dispatch returns: the functor has returned and the task is destroyed.
FinishTask ==
  /\ wpc = "run" /\ pc[Worker] = "idle"
  /\ fate' = [fate EXCEPT ![wtask] = "ran"]
  /\ Signal({wtask})
  /\ wtask' = NoTask
  /\ wpc' = "clock"
  /\ UNCHANGED <<queueVars, stop, event, thread, destroyed, now, wcur, wnext,
                 pc, arg, waiter, due>>

-----------------------------------------------------------------------------
\* A millisecond passes, also for a timed wait in progress.  At the horizon the
\* clock stands still, and only the wait goes on.
Tick ==
  /\ now < MaxTick \/ Wraps \/ (wpc = "wait" /\ wnext > 0)
  /\ now' = IF now < MaxTick THEN now + 1 ELSE IF Wraps THEN 0 ELSE now
  /\ wnext' = IF wpc = "wait" /\ wnext > 0 THEN wnext - 1 ELSE wnext
  /\ UNCHANGED <<queueVars, stop, event, thread, destroyed, wpc, wtask, wcur,
                 callVars, fate, due>>

Begin(c) ==
  \/ \E t \in Tasks : PostTask(c, t) \/ PostDelayedTask(c, t) \/ BlockingCall(c, t)
  \/ Quit(c)
  \/ Restart(c)

\* A call in progress goes on.
Continue(c) ==
  \/ PushMessage(c)
  \/ \E us \in Delays : StampDelayed(c, us)
  \/ PushDelayed(c)
  \/ WakeUp(c)
  \/ CallPost(c)
  \/ CallReturn(c)

Control == CreateThread \/ Join \/ DoDestroy

Loop ==
  \/ PreRun \/ ReadClock \/ LockQueues
  \/ \E t \in Tasks : MoveDue(t)
  \/ TakeMessage \/ FindNothing \/ CheckQuit \/ EndWait

Next ==
  \/ \E c \in Callers : Begin(c) \/ Continue(c)
  \/ Start \/ Stop \/ Control
  \/ Loop \/ FinishTask
  \/ Tick

Spec == Init /\ [][Next]_vars

\* The scheduler runs every thread that can go on.  Fairness is strong for the
\* callers, who compete for mutex_ with a loop that takes it again and again
\* (absl::Mutex does not starve a waiter), and for the end of a task, which may
\* call the object before it returns.  Nobody is obliged to begin a call.
Fairness ==
  /\ WF_vars(Loop) /\ WF_vars(Control) /\ WF_vars(Tick)
  /\ SF_vars(FinishTask)
  /\ \A c \in Callers : SF_vars(Continue(c))

FairSpec == Spec /\ Fairness

-----------------------------------------------------------------------------
(* Safety. *)

\* The worker that found nothing to do is not forgotten: if a message has come
\* since it looked (thread.cc:144), the event is signaled or somebody is about
\* to signal it.
MessageWakes ==
  wpc \in {"quitting", "wait"} /\ messages # <<>> =>
    event \/ \E c \in Callers : pc[c] \in {"wake", "callWake"}

\* Likewise for a stop request that came after the test at thread.cc:151.
StopWakes ==
  wpc = "wait" /\ stop =>
    event \/ \E c \in Callers : pc[c] \in {"wake", "stopWake", "deleteWake"}

\* Likewise for a delayed message: else the timeout of the wait, counted from
\* the clock value that the scan used, is not longer than its delay.
DelayWakes ==
  wpc \in {"quitting", "wait"} =>
    \A t \in delayed :
      \/ event
      \/ \E c \in Callers : pc[c] = "wake"
      \/ 0 <= wnext /\ wcur + wnext <= run_time[t]

\* Get never sleeps through a message, a trigger time or a stop request, although
\* it tests all three before it waits and holds no lock while it waits.
NoLostWakeup == MessageWakes /\ StopWakes /\ DelayWakes

\* A FunctionView does not own its functor (thread.cc:398): as long as the task of
\* a BlockingCall can still run, its caller has not left BlockingCall.
FunctorLifetime ==
  \A t \in Tasks :
    waiter[t] # NoOne /\ fate[t] \in {"queued", "running"} =>
      /\ pc[waiter[t]] \in {"callWake", "await"}
      /\ arg[waiter[t]] = t
      /\ ~done[waiter[t]]

\* A caller that waits in BlockingCall either has its answer or still has a task in
\* the queue to answer it, also when the task was refused or dropped: the answer
\* comes from the destruction of the task (thread.cc:394-398).
CallerReleased ==
  \A c \in Callers :
    pc[c] = "await" /\ ~done[c] =>
      waiter[arg[c]] = c /\ fate[arg[c]] \in {"queued", "running"}

\* "Tells the thread to stop and waits until it is joined" (thread.h:113): without
\* a handle there is no thread at work on the object and no task in execution, so
\* Stop and Delete return, and DoDestroy runs, when nothing runs any more.
StoppedIsIdle ==
  ~thread => /\ wpc = "none"
             /\ \A t \in Tasks : fate[t] # "running"

\* Of two delayed tasks the one pushed first, with a trigger time not later than
\* the other's, is moved first (thread.h:172-173): while it is delayed the other
\* is too, and in messages_ it is ahead.
DelayedFifo ==
  \A t, u \in Tasks :
    number[t] # -1 /\ number[t] < number[u] /\ run_time[t] <= run_time[u] =>
      /\ fate[t] = "delayed" => fate[u] = "delayed"
      /\ \A i, j \in DOMAIN messages : messages[i] = t /\ messages[j] = u => i < j

\* No delayed task becomes ready before its delay is over: rounding to
\* milliseconds (thread.cc:208) is never downward.
NotEarly ==
  \A t \in Tasks :
    number[t] # -1 /\ fate[t] \in {"queued", "running", "ran"} =>
      due[t] <= 1000 * now

\* A task object is in one place at a time, and none is lost: it is in the hands of
\* the one caller that posts it, in one of the queues, or in the worker's hands.
InHands ==
  \A c, e \in Callers :
    pc[c] \in Posting =>
      /\ fate[arg[c]] = "posting"
      /\ pc[e] \in Posting /\ arg[c] = arg[e] => c = e

InMessages ==
  /\ \A i, j \in DOMAIN messages :
       /\ fate[messages[i]] = "queued"
       /\ messages[i] = messages[j] => i = j
  /\ \A t \in Tasks : fate[t] = "queued" => \E i \in DOMAIN messages : messages[i] = t

InDelayed == \A t \in Tasks : fate[t] = "delayed" <=> t \in delayed

AtWork ==
  /\ \A t \in Tasks : fate[t] = "running" <=> t = wtask
  /\ wpc = "run" <=> wtask # NoTask

Places == InHands /\ InMessages /\ InDelayed /\ AtWork

\* Who may be where: only the owner controls the thread, the worker calls only
\* from inside a task and never waits for itself, and nothing outlives the object
\* except a caller that waits for its own event.
Roles ==
  /\ \A c \in Callers :
       /\ pc[c] \in Controlling => c = Owner
       /\ pc[c] \in Calling => c # Worker
  /\ pc[Worker] # "idle" => wpc = "run"
  /\ thread <=> wpc # "none"
  /\ pc[Owner] \in {"create", "destroy"} => ~thread
  /\ destroyed => /\ ~thread /\ messages = <<>> /\ delayed = {}
                  /\ \A c \in Callers : pc[c] \in {"idle", "await"}

\* A BlockingCall and its task know each other until the event is set.
TaskKnowsCaller ==
  \A t \in Tasks :
    /\ fate[t] \in {"fresh", "delayed"} => waiter[t] = NoOne
    /\ waiter[t] # NoOne /\ fate[t] \in {"posting", "queued", "running"} =>
         arg[waiter[t]] = t /\ ~done[waiter[t]]
    /\ waiter[t] # NoOne /\ fate[t] = "posting" =>
         pc[waiter[t]] \in {"callPost", "callPush"}
    /\ waiter[t] # NoOne /\ fate[t] \in {"queued", "running"} =>
         pc[waiter[t]] \in {"callWake", "await"}

CallerKnowsTask ==
  \A c \in Callers :
    /\ done[c] => pc[c] \in {"callWake", "await"}
    /\ pc[c] \in Calling =>
         /\ waiter[arg[c]] = c
         /\ done[c] \/ fate[arg[c]] \in {"posting", "queued", "running"}

Calls == TaskKnowsCaller /\ CallerKnowsTask

\* The inductive invariant: it implies every invariant above it but the two about
\* delayed tasks.
IInv == TypeOK /\ Places /\ Roles /\ Calls /\ NoLostWakeup

\* The thread implements the contract of TaskQueueBase: the messages are the
\* accepted tasks, and a task has begun when Get has returned it.
Queue == INSTANCE TaskQueue WITH
  queue <- messages, current <- wtask, deleted <- destroyed,
  begun <- {t \in Tasks : fate[t] \in {"running", "ran"}}

ImplementsTaskQueue == Queue!TQSpec

-----------------------------------------------------------------------------
(* Liveness. *)

\* While nobody stops the thread, every message is executed, and so is every
\* delayed message whose trigger time the clock reaches.
AcceptedRuns ==
  \A t \in Tasks :
    thread /\ (fate[t] = "queued" \/ (fate[t] = "delayed" /\ run_time[t] <= MaxTick))
      ~> fate[t] = "ran" \/ stop

\* Stop and Delete return, whatever is queued and whoever is posting.
StopReturns == pc[Owner] \in {"join", "deleteJoin"} ~> pc[Owner] = "idle"

\* A caller that is in BlockingCall when the object is deleted is let go.
DeleteReleases ==
  \A c \in Clients : destroyed /\ pc[c] = "await" ~> pc[c] = "idle"

-----------------------------------------------------------------------------
(* What the documentation says, and the code does not do. *)

\* "Any pending Sends and *ready* Posts will be delivered before Get returns
\* false" (thread.h:70-72).
ReadyPostsDelivered ==
  [][wpc = "quitting" /\ wpc' = "exited" => messages = <<>>]_vars

\* A delayed task executes "a specified delay from when the call is made"
\* (task_queue_base.h:88-93), late but not never.
DelayedRuns ==
  \A t \in Tasks : thread /\ fate[t] = "delayed" ~> fate[t] = "ran"
=============================================================================
