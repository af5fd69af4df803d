------------------------------ MODULE PollTimer ------------------------------
(***************************************************************************)
(* Timer (timer/Timer.h, Timer.cpp) and TaskTimer (timer/TaskTimer.h,      *)
(* TaskTimer.cc): a detached thread that polls two atomic flags every 100  *)
(* ms and calls back after a number of such periods.  The two classes      *)
(* share the protocol of _expired, _try_to_expire, _mutex and              *)
(* _expired_cond; they differ in the loop of the thread.  kind says which  *)
(* of them the object is.                                                  *)
(*                                                                         *)
(* A step is one access to a flag or one section under _mutex; the last    *)
(* section of the thread is split after the store to _expired, which the   *)
(* others read without the mutex.                                          *)
(***************************************************************************)
EXTENDS Integers, FiniteSets

CONSTANTS
  Users,     \* threads that start and stop the object
  Owner,     \* the one of them that destroys it
  Runs,      \* the threads that Start creates
  Timeouts,  \* timeout_ms and interval_ms arguments
  Repeats,   \* repeat arguments
  NoArg      \* no call of Start is in progress

Args == [ms : Timeouts, repeat : Repeats, once : BOOLEAN]

Callers == Users \cup Runs       \* a callback may use the object that calls it

ASSUME PollTimerAssumption ==
  /\ Owner \in Users
  /\ Users \cap Runs = {} /\ IsFiniteSet(Runs)
  /\ Timeouts \subseteq Nat /\ Repeats \subseteq Nat
  /\ \E n \in Repeats : \A m \in Repeats : m <= n
  /\ NoArg \notin Args

VARIABLES
  kind,       \* the class of the object
  expired,    \* _expired
  try,        \* _try_to_expire
  repeat,     \* Timer::repeat
  wpc,        \* wpc[r]: where thread r is
  periods,    \* periods[r]: callbacks are this many polls apart
  once,       \* once[r]: StartOnce made r
  count,      \* count[r]: polls since the last callback
  fired,      \* fired[r]: callbacks of r, no further than MaxFired (bookkeeping)
  asked,      \* asked[r]: the repeat argument of r's Start (bookkeeping)
  pc,         \* pc[c]: where c is in Start or Stop
  arg,        \* arg[c]: the arguments of c's Start
  dying,      \* the Stop of Owner is the one of the destructor
  destroyed   \* ... which has returned

runVars == <<wpc, periods, once, count, fired, asked>>
vars == <<kind, expired, try, repeat, runVars, pc, arg, dying, destroyed>>

MaxFired == 1 + CHOOSE n \in Repeats : \A m \in Repeats : m <= n

InLoop == {"test", "sleep", "check", "callback"}

TypeOK ==
  /\ kind \in {"Timer", "TaskTimer"}
  /\ expired \in BOOLEAN /\ try \in BOOLEAN
  /\ repeat \in 0 .. MaxFired
  /\ wpc \in [Runs -> InLoop \cup {"none", "lock", "notify"}]
  /\ periods \in [Runs -> Nat] /\ count \in [Runs -> Nat]
  /\ once \in [Runs -> BOOLEAN]
  /\ fired \in [Runs -> 0 .. MaxFired + 1] /\ asked \in [Runs -> Nat]
  /\ pc \in [Callers -> {"idle", "set", "reset", "spawn",
                         "stopTest", "stopSet", "stopLock", "waiting"}]
  /\ arg \in [Callers -> Args \cup {NoArg}]
  /\ \A c \in Callers : pc[c] \in {"set", "reset", "spawn"} => arg[c] \in Args
  /\ dying \in BOOLEAN /\ destroyed \in BOOLEAN

Init ==
  /\ kind \in {"Timer", "TaskTimer"}
  /\ expired = TRUE /\ try = FALSE /\ repeat = 0
  /\ wpc = [r \in Runs |-> "none"]
  /\ periods = [r \in Runs |-> 0] /\ count = [r \in Runs |-> 0]
  /\ once = [r \in Runs |-> FALSE]
  /\ fired = [r \in Runs |-> 0] /\ asked = [r \in Runs |-> 0]
  /\ pc = [c \in Callers |-> "idle"] /\ arg = [c \in Callers |-> NoArg]
  /\ dying = FALSE /\ destroyed = FALSE

-----------------------------------------------------------------------------
\* _mutex is free: only the end of a thread holds it for more than a step.
Unlocked == \A r \in Runs : wpc[r] # "notify"

MayCall(c) ==
  /\ pc[c] = "idle" /\ ~dying
  /\ c \in Runs => wpc[c] = "callback"

Goto(c, p) == pc' = [pc EXCEPT ![c] = p]

Move(r, p) == wpc' = [wpc EXCEPT ![r] = p]

-----------------------------------------------------------------------------
(* Start, and TaskTimer's StartOnce. *)

\* (Altered: the test of IsActive is missing.)
StartsAlways == TRUE

\* "is started, do not start again": otherwise Start has returned here.
StartsIfExpired == expired

Start(c, a) ==
  /\ MayCall(c) /\ StartsIfExpired
  /\ IF kind = "Timer" THEN ~a.once ELSE a.repeat = 0
  /\ arg' = [arg EXCEPT ![c] = a]
  /\ Goto(c, "set")
  /\ UNCHANGED <<kind, expired, try, repeat, runVars, dying, destroyed>>

\* (Altered: the flag is not cleared.)
StartUnset(c) ==
  /\ pc[c] = "set"
  /\ repeat' = arg[c].repeat
  /\ Goto(c, "reset")
  /\ UNCHANGED <<kind, expired, try, runVars, arg, dying, destroyed>>

StartSet(c) ==
  /\ pc[c] = "set"
  /\ repeat' = arg[c].repeat
  /\ expired' = FALSE
  /\ Goto(c, "reset")
  /\ UNCHANGED <<kind, try, runVars, arg, dying, destroyed>>

StartReset(c) ==
  /\ pc[c] = "reset"
  /\ try' = FALSE
  /\ Goto(c, "spawn")
  /\ UNCHANGED <<kind, expired, repeat, runVars, arg, dying, destroyed>>

Spawn(c) ==
  /\ pc[c] = "spawn"
  /\ \E r \in Runs :
       /\ wpc[r] = "none"
       /\ Move(r, "test")
       /\ periods' = [periods EXCEPT ![r] = arg[c].ms \div 100]
       /\ once' = [once EXCEPT ![r] = arg[c].once]
       /\ count' = [count EXCEPT ![r] = 0]
       /\ fired' = [fired EXCEPT ![r] = 0]
       /\ asked' = [asked EXCEPT ![r] = arg[c].repeat]
  /\ arg' = [arg EXCEPT ![c] = NoArg]
  /\ Goto(c, "idle")
  /\ UNCHANGED <<kind, expired, try, repeat, dying, destroyed>>

-----------------------------------------------------------------------------
(* Stop, and the destructor, which is Stop. *)

\* Stop returns here, or goes on; the destructor is over with its Stop.
StopGoesOn(c, p, d) ==
  /\ Goto(c, p)
  /\ destroyed' = (d /\ p = "idle")

\* A callback does not stop its own timer: it would wait for itself.
Stop(c, d) ==
  /\ MayCall(c) /\ c \in Users
  /\ d => c = Owner /\ \A u \in Users : pc[u] = "idle"
  /\ dying' = d
  /\ StopGoesOn(c, IF expired THEN "idle" ELSE "stopTest", d)
  /\ UNCHANGED <<kind, expired, try, repeat, runVars, arg>>

StopTest(c) ==
  /\ pc[c] = "stopTest"
  /\ StopGoesOn(c, IF try THEN "idle" ELSE "stopSet", dying)
  /\ UNCHANGED <<kind, expired, try, repeat, runVars, arg, dying>>

StopSet(c) ==
  /\ pc[c] = "stopSet"
  /\ try' = TRUE
  /\ Goto(c, "stopLock")
  /\ UNCHANGED <<kind, expired, repeat, runVars, arg, dying, destroyed>>

\* (Altered: the wait may time out.)
StopTimesOut(c) ==
  /\ pc[c] = "stopLock" /\ Unlocked
  /\ try' = (try /\ ~expired)
  /\ StopGoesOn(c, "idle", dying)
  /\ UNCHANGED <<kind, expired, repeat, runVars, arg, dying>>

\* With the mutex, for the first time or after a wake-up: reset, or wait.
StopLock(c) ==
  /\ pc[c] = "stopLock" /\ Unlocked
  /\ try' = (try /\ ~expired)
  /\ StopGoesOn(c, IF expired THEN "idle" ELSE "waiting", dying)
  /\ UNCHANGED <<kind, expired, repeat, runVars, arg, dying>>

WakeSpuriously(c) ==
  /\ pc[c] = "waiting"
  /\ Goto(c, "stopLock")
  /\ UNCHANGED <<kind, expired, try, repeat, runVars, arg, dying, destroyed>>

-----------------------------------------------------------------------------
(* The thread. *)

Test(r) ==
  /\ wpc[r] = "test"
  /\ Move(r, IF try THEN "lock" ELSE "sleep")
  /\ UNCHANGED <<kind, expired, try, repeat, periods, once, count, fired, asked, pc,
                 arg, dying, destroyed>>

\* Timer looks at the flag again only before a callback, TaskTimer at each poll.
NextCheck(r) ==
  IF kind = "Timer" /\ count[r] + 1 < periods[r] THEN "test" ELSE "check"

Sleep(r) ==
  /\ wpc[r] = "sleep"
  /\ count' = [count EXCEPT ![r] = @ + 1]
  /\ Move(r, NextCheck(r))
  /\ UNCHANGED <<kind, expired, try, repeat, periods, once, fired, asked, pc, arg,
                 dying, destroyed>>

Check(r) ==
  /\ wpc[r] = "check"
  /\ \/ try /\ Move(r, "lock") /\ UNCHANGED fired
     \/ ~try /\ count[r] < periods[r] /\ Move(r, "test") /\ UNCHANGED fired
     \/ /\ ~try /\ count[r] >= periods[r] /\ Move(r, "callback")
        /\ fired' = [fired EXCEPT ![r] = IF @ <= MaxFired THEN @ + 1 ELSE @]
  /\ UNCHANGED <<kind, expired, try, repeat, periods, once, count, asked, pc, arg,
                 dying, destroyed>>

\* (Altered: one round more.)
OverLate(r) == IF kind = "Timer" THEN repeat < 0 ELSE once[r]

Over(r) == IF kind = "Timer" THEN repeat <= 0 ELSE once[r]

\* The callback returns.
Return(r) ==
  /\ wpc[r] = "callback" /\ pc[r] = "idle"
  /\ \/ Over(r) /\ Move(r, "lock") /\ UNCHANGED <<repeat, count>>
     \/ /\ ~Over(r) /\ Move(r, "test")
        /\ repeat' = IF kind = "Timer" THEN repeat - 1 ELSE repeat
        /\ count' = [count EXCEPT ![r] = 0]
  /\ UNCHANGED <<kind, expired, try, periods, once, fired, asked, pc, arg, dying,
                 destroyed>>

Expire(r) ==
  /\ wpc[r] = "lock" /\ Unlocked
  /\ expired' = TRUE
  /\ Move(r, "notify")
  /\ UNCHANGED <<kind, try, repeat, periods, once, count, fired, asked, pc, arg,
                 dying, destroyed>>

\* (Altered: nobody is notified.)
NotifyNone(r) ==
  /\ wpc[r] = "notify"
  /\ Move(r, "none")
  /\ UNCHANGED <<kind, expired, try, repeat, periods, once, count, fired, asked, pc,
                 arg, dying, destroyed>>

\* notify_one, unlock and the end of the thread.
Notify(r) ==
  /\ wpc[r] = "notify"
  /\ \/ \E c \in Callers : pc[c] = "waiting" /\ Goto(c, "stopLock")
     \/ (\A c \in Callers : pc[c] # "waiting") /\ UNCHANGED pc
  /\ Move(r, "none")
  /\ UNCHANGED <<kind, expired, try, repeat, periods, once, count, fired, asked, arg,
                 dying, destroyed>>

-----------------------------------------------------------------------------
Begin(c) == (\E a \in Args : Start(c, a)) \/ \E d \in BOOLEAN : Stop(c, d)

Continue(c) ==
  \/ StartSet(c) \/ StartReset(c) \/ Spawn(c)
  \/ StopTest(c) \/ StopSet(c) \/ StopLock(c)

Run(r) ==
  Test(r) \/ Sleep(r) \/ Check(r) \/ Return(r) \/ Expire(r) \/ Notify(r)

Next ==
  \/ \E c \in Callers : Begin(c) \/ Continue(c) \/ WakeSpuriously(c)
  \/ \E r \in Runs : Run(r)

Spec == Init /\ [][Next]_vars

\* Every thread that can go on goes on, gets the mutex in the end, and callbacks
\* return.  Nobody is obliged to start or stop the timer.
FairSpec ==
  /\ Spec
  /\ \A c \in Callers : SF_vars(Continue(c))
  /\ \A r \in Runs : SF_vars(Run(r))

-----------------------------------------------------------------------------
\* "Is started, do not start again" (Timer.cpp:18): there are never two threads
\* that call back.
OneTimer == Cardinality({r \in Runs : wpc[r] \in InLoop}) <= 1

\* When IsActive says no there is no callback in progress and none to come, unless
\* somebody is starting the timer again.
InactiveIsQuiet ==
  expired /\ (\A c \in Callers : pc[c] \notin {"set", "reset", "spawn"}) =>
    \A r \in Runs : wpc[r] \notin InLoop

\* Stop and the destructor return when the timer is inactive, and leave no request
\* to stop behind that the next Start could meet.
StopWaits ==
  [][\A u \in Users :
       pc[u] \in {"stopTest", "stopLock"} /\ pc'[u] = "idle" =>
         ~try' /\ \A r \in Runs : wpc'[r] \notin InLoop]_vars

\* The callbacks that r was started for; nobody counts those of TaskTimer's Start.
Counted(r) == kind = "Timer" \/ once[r]

Times(r) == IF kind = "Timer" THEN asked[r] + 1 ELSE 1

\* A Timer that nobody stops calls back once more than its repeat argument says, a
\* StartOnce calls back once; and no run does so more often.
RepeatsAsked ==
  \A r \in Runs : Counted(r) =>
    /\ fired[r] <= Times(r)
    /\ wpc[r] = "lock" /\ ~try => fired[r] = Times(r)

\* A request to stop is answered, also when the timer runs out at the same time; and a
\* timer calls back, unless it is asked to stop.
TimerGoesOn ==
  /\ \A u \in Users : pc[u] = "stopSet" ~> pc[u] = "idle"
  /\ \A r \in Runs : wpc[r] = "test" /\ fired[r] = 0 ~> fired[r] > 0 \/ try

-----------------------------------------------------------------------------
\* The threads that have not expired yet.
Working == {r \in Runs : wpc[r] \in InLoop \cup {"lock"}}

\* The calls of a schedule that nobody counts.
Forever == -1

\* What is left of the present schedule: of the thread's, of the one it is about to
\* begin with, or of none.
Remaining(r) == IF Counted(r) THEN Times(r) - fired[r] ELSE Forever

AskedFor(a) == IF kind = "Timer" THEN a.repeat + 1 ELSE IF a.once THEN 1 ELSE Forever

ScheduleOf(r) ==
  [left   |-> Remaining(r),
   period |-> periods[r],
   polls  |-> IF wpc[r] = "lock" /\ Remaining(r) = 0 THEN 0 ELSE count[r]]

Schedule ==
  IF Working # {} THEN ScheduleOf(CHOOSE r \in Working : TRUE)
  ELSE IF pc[Owner] \in {"reset", "spawn"}
       THEN [left |-> AskedFor(arg[Owner]), period |-> arg[Owner].ms \div 100, polls |-> 0]
       ELSE [left |-> 0, period |-> 0, polls |-> 0]

\* A timer that one thread starts and stops implements its contract: it calls back
\* when the polls of a period have passed, as often as was asked for, and is over
\* when that is done or Stop asked for it, which waits for the end.
Contract == INSTANCE TimerContract WITH
  Periods  <- {ms \div 100 : ms \in Timeouts},
  Limits   <- {n + 1 : n \in Repeats} \cup {1, Forever},
  active   <- ~expired,
  calling  <- \E r \in Runs : wpc[r] = "callback",
  stopping <- pc[Owner] \in {"stopLock", "waiting"},
  gone     <- destroyed,
  schedule <- Schedule

ImplementsContract == Contract!TimerSpec
=============================================================================
