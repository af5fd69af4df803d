---------------------------- MODULE TimerProofs -----------------------------
(***************************************************************************)
(* Theorems about PollTimer: if one thread starts and stops it, there is   *)
(* one thread that calls back, as often as it was asked to, and none when  *)
(* Stop has returned; whatever the callbacks do, for any number of runs,   *)
(* timeouts and repeats.                                                   *)
(***************************************************************************)
EXTENDS PollTimer, FiniteSetTheorems, TLAPS

USE PollTimerAssumption DEF PollTimerAssumption

Starting == {"set", "reset", "spawn"}

\* The flags say whether there is a thread, ...
ExpiredIsOver ==
  /\ expired => Working = {}
  /\ pc[Owner] \in Starting => Working = {}
  /\ pc[Owner] = "set" => expired
  /\ pc[Owner] \in {"reset", "spawn"} => ~expired

\* ... which is alone, ...
Alone == \A r, s \in Working : r = s

\* ... whose callbacks find the timer started and do not start it again, ...
CallbacksDoNot == \A r \in Runs : pc[r] = "idle"

\* ... and whether someone waits for it to end.
TryIsWaitedFor == try => pc[Owner] \in {"stopLock", "waiting"}

TimerInv == ExpiredIsOver /\ Alone /\ CallbacksDoNot /\ TryIsWaitedFor

-----------------------------------------------------------------------------
\* The callbacks that are left: repeat counts down what a Timer was asked for.
Left(r) == IF kind = "Timer" THEN repeat ELSE 0

CountsDown ==
  \A r \in Runs : Counted(r) =>
    /\ fired[r] <= Times(r)
    /\ wpc[r] \in {"test", "sleep", "check"} => fired[r] + Left(r) + 1 = Times(r)
    /\ wpc[r] = "callback" => fired[r] + Left(r) = Times(r)
    /\ wpc[r] = "lock" /\ ~try => fired[r] = Times(r)

\* A thread that is created begins with what was asked for.
RepeatIsAsked ==
  pc[Owner] \in {"reset", "spawn"} => repeat = arg[Owner].repeat

AskedInRange == \A r \in Runs : asked[r] + 1 <= MaxFired

CountInv == CountsDown /\ RepeatIsAsked /\ AskedInRange

-----------------------------------------------------------------------------
\* Polls are counted up to the ones that are due; ...
Polled ==
  \A r \in Working :
    LET due == Contract!Due(periods[r])
    IN /\ wpc[r] \in {"test", "sleep"} => count[r] < due
       /\ wpc[r] = "check" => /\ 1 <= count[r] /\ count[r] <= due
                              /\ kind = "Timer" => periods[r] <= count[r]
       /\ wpc[r] = "callback" => count[r] = due

\* ... who is not counted ends on request only, ...
EndsOnRequest == \A r \in Runs : wpc[r] = "lock" /\ ~Counted(r) => try

\* ... which stands as long as Stop waits; ...
RequestStands == pc[Owner] \in {"stopLock", "waiting"} => try

\* ... and the destructor leaves a timer that is not used.
GoneIsOver == destroyed => expired /\ dying /\ pc[Owner] = "idle"

PollInv == Polled /\ EndsOnRequest /\ RequestStands /\ GoneIsOver

-----------------------------------------------------------------------------
(* Types. *)

\* No run is asked for more than MaxFired callbacks.
LEMMA MaxFiredIs == MaxFired \in Nat /\ \A n \in Repeats : n \in Nat /\ n + 1 <= MaxFired
<1> DEFINE max == CHOOSE n \in Repeats : \A m \in Repeats : m <= n
<1>1. max \in Repeats /\ \A m \in Repeats : m <= max
  OBVIOUS
<1>2. MaxFired = 1 + max
  BY DEF MaxFired
<1> HIDE DEF max
<1> QED
  BY <1>1, <1>2

\* At first every variable is in its type.
LEMMA TypeInit == Init => TypeOK
<1> SUFFICES ASSUME Init PROVE TypeOK
  OBVIOUS
<1>1. 0 \in 0 .. MaxFired /\ 0 \in 0 .. MaxFired + 1
  BY MaxFiredIs
<1> QED
  BY <1>1 DEF Init, TypeOK

\* A delay in periods of 100 ms.
LEMMA ArgsAre ==
  ASSUME NEW a \in Args
  PROVE  /\ a.ms \in Nat /\ a.ms \div 100 \in Nat
         /\ a.repeat \in Repeats /\ a.repeat \in 0 .. MaxFired /\ a.once \in BOOLEAN
<1>1. a.ms \in Timeouts /\ a.repeat \in Repeats /\ a.once \in BOOLEAN
  BY DEF Args
<1>2. \A n \in Nat : n \div 100 \in Nat
  OBVIOUS
<1>3. a.ms \in Nat /\ a.ms \div 100 \in Nat
  BY <1>1, <1>2
<1>4. a.repeat \in Nat /\ a.repeat + 1 <= MaxFired /\ MaxFired \in Nat
  BY <1>1, MaxFiredIs
<1> QED
  BY <1>1, <1>3, <1>4

\* Every step keeps types.
LEMMA TypeStep ==
  ASSUME TypeOK, [Next]_vars
  PROVE  TypeOK'
<1> USE MaxFiredIs DEF TypeOK, Goto, Move, runVars
<1>1. ASSUME NEW c \in Callers, NEW a \in Args, Start(c, a) PROVE TypeOK'
  <2>1. \A d \in Callers : pc'[d] \in {"set", "reset", "spawn"} => arg'[d] \in Args
    <3>1. ASSUME NEW d \in Callers, pc'[d] \in {"set", "reset", "spawn"} PROVE arg'[d] \in Args
      BY <1>1, <3>1 DEF Start
    <3> QED
      BY <3>1
  <2> QED
    BY <1>1, <2>1 DEF Start
<1>2. ASSUME NEW c \in Callers, StartSet(c) \/ StartReset(c) PROVE TypeOK'
  <2>1. arg[c].repeat \in 0 .. MaxFired
    BY <1>2, ArgsAre DEF StartSet, StartReset
  <2> QED
    BY <1>2, <2>1 DEF StartSet, StartReset
<1>3. ASSUME NEW c \in Callers, Spawn(c) PROVE TypeOK'
  <2>1. /\ arg[c].ms \div 100 \in Nat /\ arg[c].repeat \in Nat /\ arg[c].once \in BOOLEAN
        /\ 0 \in 0 .. MaxFired + 1
    BY <1>3, ArgsAre DEF Spawn
  <2>7. arg' \in [Callers -> Args \cup {NoArg}]
    BY <1>3 DEF Spawn
  <2>2. PICK r \in Runs :
          /\ wpc' = [wpc EXCEPT ![r] = "test"]
          /\ periods' = [periods EXCEPT ![r] = arg[c].ms \div 100]
          /\ once' = [once EXCEPT ![r] = arg[c].once]
          /\ count' = [count EXCEPT ![r] = 0]
          /\ fired' = [fired EXCEPT ![r] = 0]
          /\ asked' = [asked EXCEPT ![r] = arg[c].repeat]
    BY <1>3 DEF Spawn
  <2>3. wpc' \in [Runs -> InLoop \cup {"none", "lock", "notify"}]
    BY <2>2 DEF InLoop
  <2>4. periods' \in [Runs -> Nat] /\ count' \in [Runs -> Nat] /\ asked' \in [Runs -> Nat]
    BY <2>1, <2>2
  <2>5. once' \in [Runs -> BOOLEAN] /\ fired' \in [Runs -> 0 .. MaxFired + 1]
    BY <2>1, <2>2
  <2>6. \A d \in Callers : pc'[d] \in {"set", "reset", "spawn"} => arg'[d] \in Args
    BY <1>3 DEF Spawn
  <2> QED
    BY <1>3, <2>3, <2>4, <2>5, <2>6, <2>7 DEF Spawn
<1>4. ASSUME NEW c \in Callers,
             (\E d \in BOOLEAN : Stop(c, d)) \/ StopTest(c) \/ StopSet(c) \/ StopLock(c)
             \/ WakeSpuriously(c)
      PROVE  TypeOK'
  BY <1>4 DEF Stop, StopTest, StopSet, StopLock, WakeSpuriously, StopGoesOn
<1>5. ASSUME NEW r \in Runs, Test(r) \/ Expire(r) PROVE TypeOK'
  BY <1>5 DEF Test, Expire, InLoop
<1>6. ASSUME NEW r \in Runs, Sleep(r) PROVE TypeOK'
  <2>1. NextCheck(r) \in InLoop
    BY DEF NextCheck, InLoop
  <2> QED
    BY <1>6, <2>1 DEF Sleep
<1>7. ASSUME NEW r \in Runs, Check(r) PROVE TypeOK'
  <2>1. fired' \in [Runs -> 0 .. MaxFired + 1]
    BY <1>7 DEF Check
  <2>2. wpc' \in [Runs -> InLoop \cup {"none", "lock", "notify"}]
    BY <1>7 DEF Check, InLoop
  <2> QED
    BY <1>7, <2>1, <2>2 DEF Check
<1>8. ASSUME NEW r \in Runs, Return(r) PROVE TypeOK'
  <2>1. repeat' \in 0 .. MaxFired
    BY <1>8 DEF Return, Over
  <2>2. wpc' \in [Runs -> InLoop \cup {"none", "lock", "notify"}] /\ count' \in [Runs -> Nat]
    BY <1>8 DEF Return, InLoop
  <2> QED
    BY <1>8, <2>1, <2>2 DEF Return
<1>9. ASSUME NEW r \in Runs, Notify(r) PROVE TypeOK'
  BY <1>9 DEF Notify
<1>10. CASE UNCHANGED vars
  BY <1>10 DEF vars
<1> QED
  BY <1>1, <1>2, <1>3, <1>4, <1>5, <1>6, <1>7, <1>8, <1>9, <1>10
  DEF Next, Begin, Continue, Run

\* Every state is well typed, whoever starts and stops the timer.
THEOREM TimerTypes == Spec => []TypeOK
<1>1. TypeOK /\ [Next]_vars => TypeOK'
  BY TypeStep
<1> QED
  BY TypeInit, <1>1, PTL DEF Spec

-----------------------------------------------------------------------------
(* One thread. *)

\* Every step of a timer with one user keeps its flags and its thread together.
LEMMA TimerStep ==
  ASSUME Users = {Owner}, TypeOK, TimerInv, [Next]_vars
  PROVE  TimerInv'
<1> USE DEF TypeOK, TimerInv, ExpiredIsOver, Alone, CallbacksDoNot, TryIsWaitedFor,
        Starting, Goto, Callers
<1>1. ASSUME NEW c \in Callers, NEW a \in Args, Start(c, a) PROVE TimerInv'
  <2>1. c = Owner
    BY <1>1 DEF Start, MayCall, StartsIfExpired, Working, InLoop
  <2>2. Working' = Working /\ UNCHANGED <<expired, try>>
    BY <1>1 DEF Start, Working, runVars
  <2> QED
    BY <1>1, <2>1, <2>2 DEF Start, StartsIfExpired, MayCall
<1>2. ASSUME NEW c \in Callers,
             StartSet(c) \/ StartReset(c) \/ WakeSpuriously(c) \/ (\E d \in BOOLEAN : Stop(c, d))
             \/ StopTest(c) \/ StopSet(c) \/ StopLock(c)
      PROVE  TimerInv'
  <2>1. c = Owner
    BY <1>2 DEF StartSet, StartReset, WakeSpuriously, Stop, StopTest, StopSet, StopLock
  <2>2. Working' = Working
    BY <1>2 DEF StartSet, StartReset, WakeSpuriously, Stop, StopTest, StopSet, StopLock,
       Working, runVars
  <2>3. CASE StartSet(c) \/ StartReset(c)
    BY <2>1, <2>2, <2>3 DEF StartSet, StartReset
  <2>4. CASE WakeSpuriously(c) \/ StopSet(c)
    BY <2>1, <2>2, <2>4 DEF WakeSpuriously, StopSet
  <2>5. ASSUME NEW d \in BOOLEAN, Stop(c, d) PROVE TimerInv'
    BY <2>1, <2>2, <2>5 DEF Stop, StopGoesOn, MayCall
  <2>6. CASE StopTest(c)
    BY <2>1, <2>2, <2>6 DEF StopTest, StopGoesOn
  <2>7. CASE StopLock(c)
    BY <2>1, <2>2, <2>7 DEF StopLock, StopGoesOn
  <2> QED
    BY <1>2, <2>3, <2>4, <2>5, <2>6, <2>7
<1>3. ASSUME NEW c \in Callers, Spawn(c) PROVE TimerInv'
  <2>1. c = Owner /\ Working = {} /\ ~expired /\ ~try
    BY <1>3 DEF Spawn
  <2>2. PICK r \in Runs : wpc' = [wpc EXCEPT ![r] = "test"]
    BY <1>3 DEF Spawn, Move
  <2>3. Working' \subseteq {r}
    BY <2>1, <2>2 DEF Working
  <2> QED
    BY <1>3, <2>1, <2>3 DEF Spawn
<1>4. ASSUME NEW r \in Runs, Test(r) \/ Sleep(r) \/ Check(r) \/ Return(r) PROVE TimerInv'
  <2>1. r \in Working /\ Working' = Working
    BY <1>4 DEF Test, Sleep, Check, Return, Move, NextCheck, Working, InLoop
  <2>2. UNCHANGED <<pc, expired, try>>
    BY <1>4 DEF Test, Sleep, Check, Return
  <2> QED
    BY <2>1, <2>2
<1>5. ASSUME NEW r \in Runs, Expire(r) PROVE TimerInv'
  <2>1. r \in Working /\ Working' = Working \ {r}
    BY <1>5 DEF Expire, Move, Working, InLoop
  <2>2. Working' = {}
    BY <2>1
  <2> QED
    BY <1>5, <2>1, <2>2 DEF Expire
<1>6. ASSUME NEW r \in Runs, Notify(r) PROVE TimerInv'
  <2>1. Working' = Working
    BY <1>6 DEF Notify, Move, Working, InLoop
  <2>2. /\ UNCHANGED <<expired, try>>
        /\ pc' = pc \/ (pc[Owner] = "waiting" /\ pc' = [pc EXCEPT ![Owner] = "stopLock"])
    BY <1>6 DEF Notify
  <2> QED
    BY <2>1, <2>2
<1>7. CASE UNCHANGED vars
  BY <1>7 DEF vars, runVars, Working
<1> QED
  BY <1>1, <1>2, <1>3, <1>4, <1>5, <1>6, <1>7 DEF Next, Begin, Continue, Run

\* With one controlling thread the flags and the polling threads agree in every state.
LEMMA AlwaysTimerInv ==
  ASSUME Users = {Owner}
  PROVE  Spec => []TimerInv
<1>1. Init => TimerInv
  BY DEF Init, TimerInv, ExpiredIsOver, Alone, CallbacksDoNot, TryIsWaitedFor, Working,
     Starting, InLoop, Callers
<1>2. Users = {Owner}
  OBVIOUS
<1>3. TypeOK /\ TimerInv /\ [Next]_vars => TimerInv'
  BY <1>2, TimerStep
<1> QED
  BY <1>1, <1>3, TimerTypes, PTL DEF Spec

\* If one thread starts and stops the timer there are never two that call back, whatever
\* its callbacks do, however often it is started, stopped and runs out by itself.
THEOREM OneThreadCallsBack ==
  ASSUME Users = {Owner}
  PROVE  Spec => []OneTimer
<1>1. TimerInv => OneTimer
  <2> SUFFICES ASSUME TimerInv PROVE Cardinality({r \in Runs : wpc[r] \in InLoop}) <= 1
    BY DEF OneTimer
  <2> DEFINE S == {r \in Runs : wpc[r] \in InLoop}
  <2>1. \A r, s \in S : r = s
    BY DEF TimerInv, Alone, Working
  <2>2. S = {} \/ \E r \in S : S = {r}
    BY <2>1
  <2>3. Cardinality(S) = 0 \/ Cardinality(S) = 1
    BY <2>2, FS_EmptySet, FS_Singleton
  <2> QED
    BY <2>3
<1> QED
  BY <1>1, AlwaysTimerInv, PTL

\* And IsActive says no only when no callback is in progress and none is to come.
THEOREM InactiveMeansQuiet ==
  ASSUME Users = {Owner}
  PROVE  Spec => []InactiveIsQuiet
<1>1. TimerInv => InactiveIsQuiet
  BY DEF TimerInv, ExpiredIsOver, Working, InactiveIsQuiet
<1> QED
  BY <1>1, AlwaysTimerInv, PTL

\* Stop, and the destructor, return when there is no callback any more, and leave no
\* request to stop behind for the next Start.
THEOREM StopHasWaited ==
  ASSUME Users = {Owner}
  PROVE  Spec => StopWaits
<1> DEFINE Waits(u) == pc[u] \in {"stopTest", "stopLock"} /\ pc'[u] = "idle" =>
                         ~try' /\ \A r \in Runs : wpc'[r] \notin InLoop
<1>1. ASSUME TypeOK, TimerInv, TimerInv', [Next]_vars, NEW u \in Users PROVE Waits(u)
  <2>1. SUFFICES ASSUME pc[u] \in {"stopTest", "stopLock"}, pc'[u] = "idle"
                 PROVE  ~try' /\ \A r \in Runs : wpc'[r] \notin InLoop
    OBVIOUS
  <2>2. u = Owner /\ u \in Callers
    BY DEF Callers
  <2>3. StopTest(u) \/ StopLock(u)
    BY <1>1, <2>1, <2>2 DEF TypeOK, Next, Begin, Continue, Run, Start, Stop, StartSet,
       StartReset, Spawn, StopSet, StopTest, StopLock, StopGoesOn, WakeSpuriously, Test,
       Sleep, Check, Return, Expire, Notify, MayCall, Goto, vars
  <2>4. ~try' /\ expired'
    BY <1>1, <2>1, <2>2, <2>3 DEF TypeOK, TimerInv, TryIsWaitedFor, StopTest, StopLock,
       StopGoesOn, Goto
  <2> QED
    BY <1>1, <2>4 DEF TimerInv, ExpiredIsOver, Working
<1>2. TypeOK /\ TimerInv /\ TimerInv' /\ [Next]_vars =>
        [\A u \in Users : Waits(u)]_vars
  BY <1>1
<1> QED
  BY <1>2, TimerTypes, AlwaysTimerInv, PTL DEF Spec, StopWaits

-----------------------------------------------------------------------------
(* As many callbacks as asked for. *)

\* A step that neither moves a thread nor counts, nor lets a request to stop vanish.
LEMMA CountsOn ==
  ASSUME CountInv, UNCHANGED <<kind, repeat, runVars>>, ~try' /\ try => Working = {},
         pc'[Owner] \in {"reset", "spawn"} => pc[Owner] \in {"reset", "spawn"} /\ UNCHANGED arg
  PROVE  CountInv'
<1> USE DEF CountInv, runVars
<1>1. CountsDown'
  BY DEF CountsDown, Counted, Times, Left, Working
<1>2. RepeatIsAsked' /\ AskedInRange'
  BY DEF RepeatIsAsked, AskedInRange
<1> QED
  BY <1>1, <1>2

\* One thread moves, the others are over.
LEMMA CountsDownOne ==
  ASSUME CountsDown, Alone, NEW r \in Working, UNCHANGED <<kind, once, asked>>,
         \A s \in Runs \ {r} : wpc'[s] = wpc[s] /\ fired'[s] = fired[s],
         Counted(r) =>
           /\ fired'[r] <= Times(r)
           /\ wpc'[r] \in {"test", "sleep", "check"} => fired'[r] + Left(r)' + 1 = Times(r)
           /\ wpc'[r] = "callback" => fired'[r] + Left(r)' = Times(r)
           /\ wpc'[r] = "lock" /\ ~try' => fired'[r] = Times(r)
  PROVE  CountsDown'
<1>1. \A s \in Runs \ {r} : wpc[s] \notin InLoop \cup {"lock"}
  BY DEF Alone, Working
<1>2. ASSUME NEW s \in Runs, s # r, Counted(s)
      PROVE  fired'[s] <= Times(s) /\ wpc'[s] \notin InLoop \cup {"lock"}
  BY <1>1, <1>2 DEF CountsDown
<1> QED
  BY <1>2 DEF CountsDown, Counted, Times, InLoop

\* Every step keeps the count of callbacks that are left.
LEMMA CountStep ==
  ASSUME Users = {Owner}, TypeOK, TimerInv, CountInv, [Next]_vars
  PROVE  CountInv'
<1> USE MaxFiredIs DEF TypeOK, TimerInv, CountInv, Goto, Move, Callers
<1>1. ASSUME NEW c \in Callers, NEW a \in Args, Start(c, a) PROVE CountInv'
  <2>1. c = Owner
    BY <1>1 DEF Start, MayCall, StartsIfExpired, ExpiredIsOver, Working, InLoop
  <2> QED
    BY <1>1, <2>1, CountsOn DEF Start
<1>2. ASSUME NEW c \in Callers, StartSet(c) PROVE CountInv'
  <2>1. c = Owner /\ Working = {}
    BY <1>2 DEF StartSet, CallbacksDoNot, ExpiredIsOver, Starting
  <2>2. CountsDown'
    BY <1>2, <2>1 DEF StartSet, runVars, CountsDown, Counted, Times, Working, InLoop
  <2>3. RepeatIsAsked' /\ AskedInRange'
    BY <1>2, <2>1 DEF StartSet, runVars, RepeatIsAsked, AskedInRange
  <2> QED
    BY <2>2, <2>3
<1>3. ASSUME NEW c \in Callers, StartReset(c) PROVE CountInv'
  BY <1>3, CountsOn DEF StartReset, CallbacksDoNot, ExpiredIsOver, Starting
<1>4. ASSUME NEW c \in Callers, Spawn(c) PROVE CountInv'
  <2>1. c = Owner /\ Working = {} /\ repeat = arg[c].repeat /\ arg[c] \in Args
    BY <1>4 DEF Spawn, CallbacksDoNot, ExpiredIsOver, Starting, RepeatIsAsked
  <2>2. PICK r \in Runs :
          /\ wpc[r] = "none" /\ wpc' = [wpc EXCEPT ![r] = "test"]
          /\ once' = [once EXCEPT ![r] = arg[c].once]
          /\ fired' = [fired EXCEPT ![r] = 0]
          /\ asked' = [asked EXCEPT ![r] = repeat]
    BY <1>4, <2>1 DEF Spawn
  <2>3. UNCHANGED <<kind, repeat, try>>
    BY <1>4 DEF Spawn
  <2>4. repeat \in Nat /\ repeat + 1 <= MaxFired
    BY <2>1, ArgsAre
  <2>5. AskedInRange' /\ RepeatIsAsked'
    BY <1>4, <2>1, <2>2, <2>4 DEF AskedInRange, RepeatIsAsked, Spawn
  <2>6. ASSUME NEW s \in Runs, Counted(s)'
        PROVE  /\ fired'[s] <= Times(s)'
               /\ wpc'[s] \in {"test", "sleep", "check"} => fired'[s] + Left(s)' + 1 = Times(s)'
               /\ wpc'[s] = "callback" => fired'[s] + Left(s)' = Times(s)'
               /\ wpc'[s] = "lock" /\ ~try' => fired'[s] = Times(s)'
    <3>1. CASE s = r
      BY <2>2, <2>3, <2>4, <3>1 DEF Times, Left
    <3>2. CASE s # r
      BY <2>1, <2>2, <2>3, <2>6, <3>2 DEF CountsDown, Counted, Times, Working, InLoop
    <3> QED
      BY <3>1, <3>2
  <2> QED
    BY <2>5, <2>6 DEF CountsDown
<1>5. ASSUME NEW c \in Callers,
             (\E d \in BOOLEAN : Stop(c, d)) \/ StopTest(c) \/ StopSet(c) \/ WakeSpuriously(c)
      PROVE  CountInv'
  BY <1>5, CountsOn DEF Stop, StopTest, StopSet, StopGoesOn, WakeSpuriously, runVars
<1>6. ASSUME NEW c \in Callers, StopLock(c) PROVE CountInv'
  BY <1>6, CountsOn DEF StopLock, StopGoesOn, ExpiredIsOver
<1>7. ASSUME NEW r \in Runs, UNCHANGED <<kind, once, asked, pc, arg, repeat, fired, try>>,
             Test(r) \/ Sleep(r) \/ Expire(r) \/ Check(r), wpc'[r] # "callback"
      PROVE  CountInv'
  <2>1. r \in Working /\ \A s \in Runs \ {r} : wpc'[s] = wpc[s]
    BY <1>7 DEF Test, Sleep, Expire, Check, Working, InLoop
  <2>2. \/ wpc[r] \in {"test", "sleep", "check"} /\ wpc'[r] \in {"test", "sleep", "check"}
        \/ wpc'[r] = "lock" /\ try
        \/ wpc'[r] = "notify"
    BY <1>7 DEF Test, Sleep, Expire, Check, NextCheck
  <2>3. CountsDown'
    BY <1>7, <2>1, <2>2, CountsDownOne DEF CountsDown, Left
  <2> QED
    BY <1>7, <2>3 DEF RepeatIsAsked, AskedInRange
<1>8. ASSUME NEW r \in Runs, Check(r), UNCHANGED fired, wpc'[r] # "callback" PROVE CountInv'
  BY <1>7, <1>8 DEF Check
<1>9. ASSUME NEW r \in Runs, Check(r), wpc' = [wpc EXCEPT ![r] = "callback"],
             fired' = [fired EXCEPT ![r] = IF @ <= MaxFired THEN @ + 1 ELSE @]
      PROVE  CountInv'
  <2>1. /\ r \in Working /\ wpc[r] = "check" /\ \A s \in Runs \ {r} : wpc'[s] = wpc[s]
        /\ UNCHANGED <<kind, once, asked, pc, arg, repeat>>
    BY <1>9 DEF Check, Working, InLoop
  <2>2. Counted(r) => fired[r] + Left(r) + 1 = Times(r)
    BY <2>1 DEF CountsDown
  <2>3. Counted(r) => fired[r] <= MaxFired
    BY <2>1, <2>2 DEF Left, Times, AskedInRange
  <2>4. /\ wpc'[r] = "callback" /\ Left(r)' = Left(r) /\ Left(r) \in Nat
        /\ Counted(r) => fired'[r] = fired[r] + 1
        /\ \A s \in Runs \ {r} : fired'[s] = fired[s]
    BY <1>9, <2>1, <2>3 DEF Left
  <2>5. Counted(r) => fired'[r] + Left(r)' = Times(r) /\ fired'[r] <= Times(r)
    BY <2>2, <2>4 DEF Times
  <2>6. CountsDown'
    BY <2>1, <2>4, <2>5, CountsDownOne
  <2> QED
    BY <2>1, <2>6 DEF RepeatIsAsked, AskedInRange
<1>10. ASSUME NEW r \in Runs, Return(r) PROVE CountInv'
  <2>1. /\ r \in Working /\ wpc[r] = "callback" /\ \A s \in Runs \ {r} : wpc'[s] = wpc[s]
        /\ UNCHANGED <<kind, once, asked, pc, arg, fired, try>>
    BY <1>10 DEF Return, Working, InLoop
  <2>2. Counted(r) => fired[r] + Left(r) = Times(r) /\ fired[r] <= Times(r)
    BY <2>1 DEF CountsDown
  <2>3. CASE Over(r) /\ wpc'[r] = "lock" /\ UNCHANGED repeat
    <3>1. Counted(r) => fired[r] = Times(r)
      BY <2>2, <2>3 DEF Over, Counted, Left, Times
    <3> QED
      BY <2>1, <2>3, <3>1, CountsDownOne DEF RepeatIsAsked, AskedInRange
  <2>4. CASE ~Over(r) /\ wpc'[r] = "test" /\ repeat' = IF kind = "Timer" THEN repeat - 1 ELSE repeat
    <3>1. Counted(r) => kind = "Timer" /\ repeat > 0
      BY <2>4 DEF Over, Counted
    <3>2. Counted(r) => fired[r] + Left(r)' + 1 = Times(r)
      BY <2>1, <2>2, <2>4, <3>1 DEF Left, Times
    <3>3. CountsDown'
      BY <2>1, <2>2, <2>4, <3>2, CountsDownOne
    <3>4. RepeatIsAsked' /\ AskedInRange'
      BY <2>1 DEF RepeatIsAsked, AskedInRange, ExpiredIsOver, Starting
    <3> QED
      BY <3>3, <3>4
  <2> QED
    BY <1>10, <2>3, <2>4 DEF Return
<1>11. ASSUME NEW r \in Runs, Notify(r) PROVE CountInv'
  <2>1. /\ wpc[r] = "notify" /\ wpc' = [wpc EXCEPT ![r] = "none"]
        /\ UNCHANGED <<kind, once, asked, arg, repeat, fired, try>>
        /\ pc'[Owner] \in {"reset", "spawn"} => pc[Owner] \in {"reset", "spawn"}
    BY <1>11 DEF Notify
  <2> QED
    BY <2>1 DEF CountsDown, Counted, Times, Left, RepeatIsAsked, AskedInRange
<1>12. CASE UNCHANGED vars
  BY <1>12, CountsOn DEF vars
<1>13. ASSUME NEW r \in Runs, Test(r) \/ Sleep(r) \/ Expire(r) PROVE CountInv'
  BY <1>7, <1>13 DEF Test, Sleep, NextCheck, Expire
<1>14. ASSUME NEW r \in Runs, Check(r) PROVE CountInv'
  BY <1>8, <1>9, <1>14 DEF Check
<1> QED
  BY <1>1, <1>2, <1>3, <1>4, <1>5, <1>6, <1>10, <1>11, <1>12, <1>13, <1>14
  DEF Next, Begin, Continue, Run

\* In every state the callbacks that are left are counted.
LEMMA AlwaysCounted ==
  ASSUME Users = {Owner}
  PROVE  Spec => []CountInv
<1>1. Init => CountInv
  <2>1. MaxFired \in Nat /\ 1 <= MaxFired
    BY MaxFiredIs
  <2> QED
    BY <2>1 DEF Init, CountInv, CountsDown, RepeatIsAsked, AskedInRange, Counted, Times, Callers
<1>2. Users = {Owner}
  OBVIOUS
<1>3. TypeOK /\ TimerInv /\ CountInv /\ [Next]_vars => CountInv'
  BY <1>2, CountStep
<1> QED
  BY <1>1, <1>3, TimerTypes, AlwaysTimerInv, PTL DEF Spec

\* A Timer that nobody stops calls back once more than its repeat argument says and a
\* StartOnce once, and no run does so more often, whatever the arguments are.
THEOREM CallsBackAsAsked ==
  ASSUME Users = {Owner}
  PROVE  Spec => []RepeatsAsked
<1>1. CountInv => RepeatsAsked
  BY DEF CountInv, CountsDown, Counted, Times, RepeatsAsked
<1> QED
  BY <1>1, AlwaysCounted, PTL

-----------------------------------------------------------------------------
(* The contract. *)

\* The only element is the one that is chosen.
LEMMA OnlyChoice ==
  ASSUME NEW S, NEW r, S = {r}
  PROVE  (CHOOSE s \in S : TRUE) = r
OBVIOUS

\* There is a poll before each call, and one per period.
LEMMA DueIs ==
  ASSUME NEW p \in Nat
  PROVE  /\ Contract!Due(p) \in Nat /\ 1 <= Contract!Due(p) /\ p <= Contract!Due(p)
         /\ \A n \in Nat : 1 <= n /\ p <= n /\ n <= Contract!Due(p) => n = Contract!Due(p)
BY DEF Contract!Due

\* Every step keeps the polls.
LEMMA PolledStep ==
  ASSUME Users = {Owner}, TypeOK, TimerInv, Polled, [Next]_vars
  PROVE  Polled'
<1> USE DEF TypeOK, Goto, Move
<1> DEFINE Fine(r) ==
      LET due == Contract!Due(periods[r])
      IN /\ wpc[r] \in {"test", "sleep"} => count[r] < due
         /\ wpc[r] = "check" => /\ 1 <= count[r] /\ count[r] <= due
                                /\ kind = "Timer" => periods[r] <= count[r]
         /\ wpc[r] = "callback" => count[r] = due
<1>1. \A r \in Working : Fine(r)
  BY DEF Polled
<1>2. ASSUME NEW c \in Callers, Spawn(c) PROVE Polled'
  <2>1. c = Owner /\ Working = {}
    BY <1>2 DEF Spawn, TimerInv, CallbacksDoNot, ExpiredIsOver, Starting, Callers
  <2>2. PICK r \in Runs : wpc' = [wpc EXCEPT ![r] = "test"] /\ count' = [count EXCEPT ![r] = 0]
    BY <1>2 DEF Spawn
  <2>3. Working' \subseteq {r}
    BY <2>1, <2>2 DEF Working
  <2>4. wpc'[r] = "test" /\ count'[r] = 0 /\ periods'[r] \in Nat
    BY <1>2, <2>2, TypeStep DEF Next, Continue
  <2> QED
    BY <2>3, <2>4, DueIs DEF Polled
<1>3. ASSUME NEW r \in Runs, Test(r) \/ Sleep(r) \/ Check(r) \/ Return(r) PROVE Polled'
  <2>1. /\ r \in Working /\ Working' = Working /\ Working = {r}
        /\ UNCHANGED <<kind, periods>>
    BY <1>3 DEF Test, Sleep, Check, Return, Working, InLoop, NextCheck, TimerInv, Alone
  <2>2. periods[r] \in Nat /\ count[r] \in Nat /\ Fine(r)
    BY <1>1, <2>1
  <2> DEFINE due == Contract!Due(periods[r])
  <2>3. due \in Nat /\ 1 <= due /\ periods[r] <= due
        /\ \A n \in Nat : 1 <= n /\ periods[r] <= n /\ n <= due => n = due
    BY <2>2, DueIs
  <2> HIDE DEF due
  <2>4. CASE Test(r)
    <3>1. wpc[r] = "test" /\ wpc'[r] \in {"lock", "sleep"} /\ UNCHANGED count
      BY <2>4 DEF Test
    <3> QED
      BY <2>1, <2>2, <3>1 DEF Polled
  <2>5. CASE Sleep(r)
    <3>1. wpc[r] = "sleep" /\ wpc'[r] = NextCheck(r) /\ count'[r] = count[r] + 1
      BY <2>5 DEF Sleep
    <3>2. count[r] < due
      BY <2>2, <3>1 DEF due
    <3>3. /\ wpc'[r] \in {"test", "check"} /\ 1 <= count'[r] /\ count'[r] <= due
          /\ wpc'[r] = "test" => count'[r] < due
          /\ wpc'[r] = "check" /\ kind = "Timer" => periods[r] <= count'[r]
      BY <2>2, <2>3, <3>1, <3>2 DEF NextCheck
    <3> QED
      BY <2>1, <3>3 DEF Polled, due
  <2>6. CASE Check(r)
    <3>1. /\ wpc[r] = "check" /\ UNCHANGED count
          /\ \/ wpc'[r] = "lock"
             \/ wpc'[r] = "test" /\ count[r] < periods[r]
             \/ wpc'[r] = "callback" /\ count[r] >= periods[r]
      BY <2>6 DEF Check
    <3>2. 1 <= count[r] /\ count[r] <= due
      BY <2>2, <3>1 DEF due
    <3>3. /\ wpc'[r] = "test" => count[r] < due
          /\ wpc'[r] = "callback" => count[r] = due
      BY <2>2, <2>3, <3>1, <3>2
    <3> QED
      BY <2>1, <3>1, <3>3 DEF Polled, due
  <2>7. CASE Return(r)
    <3>1. CASE Over(r)
      BY <2>1, <2>7, <3>1 DEF Return, Polled
    <3>2. CASE ~Over(r)
      <4>1. wpc'[r] = "test" /\ count'[r] = 0
        BY <2>7, <3>2 DEF Return
      <4> QED
        BY <2>1, <2>3, <4>1 DEF Polled, due
    <3> QED
      BY <3>1, <3>2
  <2> QED
    BY <1>3, <2>4, <2>5, <2>6, <2>7
<1>4. ASSUME UNCHANGED <<kind, periods, count>>, Working' \subseteq Working,
             \A r \in Working' : wpc'[r] = wpc[r]
      PROVE  Polled'
  BY <1>1, <1>4 DEF Polled
<1>5. ASSUME NEW r \in Runs, Expire(r) \/ Notify(r) PROVE Polled'
  <2>1. /\ Working' \subseteq Working /\ UNCHANGED <<kind, periods, count>>
        /\ \A s \in Working' : wpc'[s] = wpc[s]
    BY <1>5 DEF Expire, Notify, Working, InLoop
  <2> QED
    BY <1>4, <2>1
<1>6. ASSUME UNCHANGED <<kind, runVars>> PROVE Polled'
  BY <1>4, <1>6 DEF runVars, Working
<1> QED
  BY <1>2, <1>3, <1>5, <1>6
  DEF Next, Begin, Continue, Run, Start, StartSet, StartReset, Stop, StopTest, StopSet,
      StopLock, WakeSpuriously, vars

\* A thread wakes one that waits, and does nothing else to who uses the timer.
LEMMA RunLeavesCallers ==
  ASSUME Users = {Owner}, TypeOK, CallbacksDoNot, NEW r \in Runs, Run(r)
  PROVE  pc'[Owner] = pc[Owner] \/ (pc[Owner] = "waiting" /\ pc'[Owner] = "stopLock")
<1>1. CASE Notify(r)
  <2>1. UNCHANGED pc \/ \E c \in Callers : pc[c] = "waiting" /\ pc' = [pc EXCEPT ![c] = "stopLock"]
    BY <1>1 DEF Notify, Goto
  <2> QED
    BY <2>1 DEF Callers, CallbacksDoNot, TypeOK
<1>2. CASE ~Notify(r)
  <2>1. UNCHANGED pc
    BY <1>2 DEF Run, Test, Sleep, Check, Return, Expire
  <2> QED
    BY <2>1
<1> QED
  BY <1>1, <1>2

\* Every step keeps requests and what the destructor has left.
LEMMA RequestStep ==
  ASSUME Users = {Owner}, TypeOK, TimerInv, PollInv, [Next]_vars
  PROVE  EndsOnRequest' /\ RequestStands' /\ GoneIsOver'
<1> USE DEF TypeOK, TimerInv, PollInv, EndsOnRequest, RequestStands, GoneIsOver,
        ExpiredIsOver, CallbacksDoNot, TryIsWaitedFor, Starting, Goto, Move, Callers
<1>1. ASSUME NEW c \in Callers, (\E a \in Args : Start(c, a)) \/ StartSet(c) \/ StartReset(c)
      PROVE  EndsOnRequest' /\ RequestStands' /\ GoneIsOver'
  <2>1. c = Owner
    BY <1>1 DEF Start, MayCall, StartsIfExpired, StartSet, StartReset, Working, InLoop
  <2>2. UNCHANGED <<kind, runVars, destroyed, dying>> /\ Working = {}
    BY <1>1, <2>1 DEF Start, MayCall, StartsIfExpired, StartSet, StartReset
  <2>3. EndsOnRequest'
    BY <2>2 DEF Working, Counted, runVars
  <2> QED
    BY <1>1, <2>1, <2>2, <2>3 DEF Start, StartSet, StartReset, MayCall
<1>2. ASSUME NEW c \in Callers, Spawn(c)
      PROVE  EndsOnRequest' /\ RequestStands' /\ GoneIsOver'
  <2>1. c = Owner /\ Working = {} /\ UNCHANGED <<expired, destroyed, dying>>
    BY <1>2 DEF Spawn
  <2>2. \A r \in Runs : wpc'[r] # "lock"
    BY <1>2, <2>1 DEF Spawn, Working
  <2> QED
    BY <1>2, <2>1, <2>2 DEF Spawn
<1>3. ASSUME NEW c \in Callers,
             (\E d \in BOOLEAN : Stop(c, d)) \/ StopTest(c) \/ StopSet(c) \/ StopLock(c)
             \/ WakeSpuriously(c)
      PROVE  EndsOnRequest' /\ RequestStands' /\ GoneIsOver'
  <2>1. c = Owner /\ UNCHANGED <<kind, runVars, expired>>
    BY <1>3 DEF Stop, StopTest, StopSet, StopLock, WakeSpuriously
  <2>2. try' = try \/ try' = TRUE \/ expired
    BY <1>3 DEF Stop, StopTest, StopSet, StopLock, WakeSpuriously
  <2>3. EndsOnRequest'
    BY <2>1, <2>2 DEF Counted, runVars, Working
  <2>4. CASE \E d \in BOOLEAN : Stop(c, d)
    BY <2>1, <2>3, <2>4 DEF Stop, StopGoesOn, MayCall
  <2>5. CASE StopTest(c)
    BY <2>1, <2>3, <2>5 DEF StopTest, StopGoesOn
  <2>6. CASE StopSet(c) \/ WakeSpuriously(c)
    BY <2>1, <2>3, <2>6 DEF StopSet, WakeSpuriously
  <2>7. CASE StopLock(c)
    <3>1. /\ pc[Owner] = "stopLock" /\ try' = (try /\ ~expired)
          /\ pc'[Owner] = IF expired THEN "idle" ELSE "waiting"
          /\ destroyed' = (dying /\ expired) /\ UNCHANGED <<expired, dying>>
      BY <2>1, <2>7 DEF StopLock, StopGoesOn
    <3> QED
      BY <2>3, <3>1
  <2> QED
    BY <1>3, <2>4, <2>5, <2>6, <2>7
<1>4. ASSUME NEW r \in Runs, Run(r)
      PROVE  EndsOnRequest' /\ RequestStands' /\ GoneIsOver'
  <2>1. UNCHANGED <<kind, once, try, destroyed, dying>> /\ (expired => expired')
    BY <1>4 DEF Run, Test, Sleep, Check, Return, Expire, Notify
  <2>2. EndsOnRequest'
    <3>1. ASSUME NEW s \in Runs, wpc'[s] = "lock", ~Counted(s)', ~try' PROVE FALSE
      <4>1. ~Counted(s) /\ ~try /\ wpc[s] # "lock"
        BY <2>1, <3>1 DEF Counted
      <4>2. s = r
        BY <1>4, <3>1, <4>1 DEF Run, Test, Sleep, Check, Return, Expire, Notify
      <4>3. Return(r) /\ Over(r)
        BY <1>4, <3>1, <4>1, <4>2
        DEF Run, Test, Sleep, NextCheck, Check, Return, Expire, Notify
      <4> QED
        BY <4>1, <4>2, <4>3 DEF Over, Counted
    <3> QED
      BY <3>1
  <2>3. pc'[Owner] = pc[Owner] \/ (pc[Owner] = "waiting" /\ pc'[Owner] = "stopLock")
    BY <1>4, RunLeavesCallers
  <2> QED
    BY <2>1, <2>2, <2>3
<1>5. CASE UNCHANGED vars
  BY <1>5 DEF vars, runVars, Counted
<1> QED
  BY <1>1, <1>2, <1>3, <1>4, <1>5 DEF Next, Begin, Continue

\* Every step keeps what is needed for the contract.
LEMMA PollStep ==
  ASSUME Users = {Owner}, TypeOK, TimerInv, PollInv, [Next]_vars
  PROVE  PollInv'
<1>1. Polled'
  BY PolledStep DEF PollInv
<1> QED
  BY <1>1, RequestStep DEF PollInv

\* The present schedule is the one of the thread that works, ...
LEMMA ScheduleIs ==
  ASSUME NEW r, Working = {r}
  PROVE  Schedule = ScheduleOf(r)
<1>1. (CHOOSE s \in Working : TRUE) = r
  BY OnlyChoice
<1> QED
  BY <1>1 DEF Schedule

\* ... after a step, too.
LEMMA ScheduleWillBe ==
  ASSUME NEW r, Working' = {r}
  PROVE  Schedule' = ScheduleOf(r)'
<1>1. (CHOOSE s \in Working' : TRUE) = r
  BY OnlyChoice
<1> QED
  BY <1>1 DEF Schedule

\* A schedule that does not change hands.
LEMMA ScheduleStays ==
  ASSUME UNCHANGED <<kind, runVars, arg>>,
         (pc'[Owner] \in {"reset", "spawn"}) <=> (pc[Owner] \in {"reset", "spawn"})
  PROVE  UNCHANGED Schedule
<1>1. Working' = Working
  BY DEF Working, runVars
<1>2. ASSUME NEW r PROVE ScheduleOf(r)' = ScheduleOf(r)
  BY DEF ScheduleOf, Remaining, Counted, Times, runVars
<1>3. AskedFor(arg[Owner])' = AskedFor(arg[Owner])
  BY DEF AskedFor
<1> QED
  BY <1>1, <1>2, <1>3 DEF Schedule

\* A thread that works and moves.
Moves(r) == Test(r) \/ Sleep(r) \/ Check(r) \/ Return(r)

\* Every step is one of the contract, or none.
LEMMA TimerContractStep ==
  ASSUME Users = {Owner}, TypeOK, TimerInv, CountInv, PollInv, [Next]_vars
  PROVE  [Contract!TimerNext]_Contract!timerVars
<1> DEFINE Calling  == \E r \in Runs : wpc[r] = "callback"
           Stopping == pc[Owner] \in {"stopLock", "waiting"}
           Stutter  == UNCHANGED <<expired, Calling, Stopping, destroyed, Schedule>>
<1>0. Stutter => [Contract!TimerNext]_Contract!timerVars
  BY DEF Contract!timerVars
<1> USE DEF Callers
<1>1. ASSUME NEW c \in Callers, NEW a \in Args, Start(c, a) PROVE Stutter
  <2>1. c = Owner
    BY <1>1 DEF Start, MayCall, StartsIfExpired, TimerInv, ExpiredIsOver, Working, InLoop
  <2>2. /\ pc[Owner] = "idle" /\ pc'[Owner] = "set"
        /\ UNCHANGED <<expired, destroyed, kind, runVars>> /\ Working = {}
    BY <1>1, <2>1 DEF Start, MayCall, StartsIfExpired, Goto, TypeOK, TimerInv, ExpiredIsOver
  <2>3. Working' = Working /\ UNCHANGED Calling
    BY <2>2 DEF Working, runVars
  <2>4. UNCHANGED Schedule
    BY <2>2, <2>3 DEF Schedule
  <2> QED
    BY <2>2, <2>3, <2>4
<1>2. ASSUME NEW c \in Callers, StartSet(c)
      PROVE  \E n \in {k + 1 : k \in Repeats} \cup {1, Forever},
                p \in {ms \div 100 : ms \in Timeouts} : Contract!Begin(n, p)
  <2>1. c = Owner
    BY <1>2 DEF StartSet, TimerInv, CallbacksDoNot
  <2> DEFINE a == arg[Owner]
  <2>2. /\ pc[Owner] = "set" /\ pc'[Owner] = "reset" /\ expired /\ expired' = FALSE
        /\ Working = {} /\ a \in Args
        /\ UNCHANGED <<kind, arg, destroyed, runVars>>
    BY <1>2, <2>1 DEF StartSet, Goto, TypeOK, TimerInv, ExpiredIsOver, Starting
  <2>3. Working' = {} /\ ~Calling /\ ~Calling' /\ ~Stopping /\ ~Stopping' /\ ~destroyed
    BY <2>2 DEF Working, runVars, InLoop, PollInv, GoneIsOver
  <2>4. Schedule' = [left |-> AskedFor(a), period |-> a.ms \div 100, polls |-> 0]
    BY <2>2, <2>3 DEF Schedule, AskedFor
  <2>5. /\ AskedFor(a) \in {k + 1 : k \in Repeats} \cup {1, Forever}
        /\ a.ms \div 100 \in {ms \div 100 : ms \in Timeouts}
    BY <2>2, ArgsAre DEF AskedFor, Args
  <2>6. Contract!Begin(AskedFor(a), a.ms \div 100)
    BY <2>2, <2>3, <2>4 DEF Contract!Begin
  <2> QED
    BY <2>5, <2>6
<1>3. ASSUME NEW c \in Callers, StartReset(c) PROVE Stutter
  <2>1. c = Owner
    BY <1>3 DEF StartReset, TimerInv, CallbacksDoNot
  <2>2. /\ pc[Owner] = "reset" /\ pc'[Owner] = "spawn"
        /\ UNCHANGED <<expired, destroyed, kind, arg, runVars>>
    BY <1>3, <2>1 DEF StartReset, Goto, TypeOK
  <2> QED
    BY <2>2, ScheduleStays DEF runVars
<1>4. ASSUME NEW c \in Callers, Spawn(c) PROVE Stutter
  <2>1. c = Owner
    BY <1>4 DEF Spawn, TimerInv, CallbacksDoNot
  <2>2. PICK r \in Runs :
          /\ wpc[r] = "none" /\ wpc' = [wpc EXCEPT ![r] = "test"]
          /\ periods' = [periods EXCEPT ![r] = arg[Owner].ms \div 100]
          /\ once' = [once EXCEPT ![r] = arg[Owner].once]
          /\ count' = [count EXCEPT ![r] = 0]
          /\ fired' = [fired EXCEPT ![r] = 0]
          /\ asked' = [asked EXCEPT ![r] = arg[Owner].repeat]
    BY <1>4, <2>1 DEF Spawn, Move
  <2>3. /\ pc[Owner] = "spawn" /\ pc'[Owner] = "idle" /\ arg[Owner] \in Args
        /\ Working = {} /\ UNCHANGED <<expired, destroyed, kind>>
    BY <1>4, <2>1 DEF Spawn, Goto, TypeOK, TimerInv, ExpiredIsOver, Starting
  <2>4. Working' = {r} /\ ~Calling /\ ~Calling'
    BY <2>2, <2>3 DEF Working, InLoop, TypeOK
  <2>5. /\ wpc'[r] = "test" /\ periods'[r] = arg[Owner].ms \div 100 /\ once'[r] = arg[Owner].once
        /\ count'[r] = 0 /\ fired'[r] = 0 /\ asked'[r] = arg[Owner].repeat
    BY <2>2 DEF TypeOK
  <2>6. arg[Owner].repeat \in Nat
    BY <2>3, ArgsAre
  <2>7. Remaining(r)' = AskedFor(arg[Owner])
    BY <2>3, <2>5, <2>6 DEF Remaining, Counted, Times, AskedFor
  <2>8. ScheduleOf(r)' = [left |-> AskedFor(arg[Owner]), period |-> arg[Owner].ms \div 100, polls |-> 0]
    BY <2>5, <2>7 DEF ScheduleOf
  <2>9. Schedule = [left |-> AskedFor(arg[Owner]), period |-> arg[Owner].ms \div 100, polls |-> 0]
    BY <2>3 DEF Schedule
  <2> QED
    BY <2>3, <2>4, <2>8, <2>9, ScheduleWillBe
<1>5. ASSUME NEW c \in Callers, NEW d \in BOOLEAN, Stop(c, d)
      PROVE  Stutter \/ Contract!Vanish
  <2>1. /\ c = Owner /\ pc[Owner] = "idle" /\ ~destroyed
        /\ UNCHANGED <<expired, kind, arg, runVars>>
    BY <1>5 DEF Stop, MayCall, PollInv, GoneIsOver
  <2>2. /\ pc'[Owner] = IF expired THEN "idle" ELSE "stopTest"
        /\ destroyed' = (d /\ expired)
    BY <1>5, <2>1 DEF Stop, StopGoesOn, Goto, TypeOK
  <2>3. UNCHANGED <<Schedule, Calling, Stopping>> /\ ~Stopping'
    BY <2>1, <2>2, ScheduleStays DEF runVars
  <2>4. CASE d /\ expired
    <3>1. destroyed' = TRUE /\ ~expired' = ~expired
      BY <2>1, <2>2, <2>4
    <3>2. /\ ~destroyed /\ ~(~expired)
          /\ (pc'[Owner] \in {"stopLock", "waiting"}) = FALSE
          /\ UNCHANGED <<~expired, \E r \in Runs : wpc[r] = "callback", Schedule>>
      BY <2>1, <2>3, <2>4, <3>1
    <3> QED
      BY <3>1, <3>2 DEF Contract!Vanish
  <2>5. CASE ~(d /\ expired)
    <3>1. UNCHANGED destroyed
      BY <2>1, <2>2, <2>5 DEF TypeOK
    <3> QED
      BY <2>1, <2>3, <3>1
  <2> QED
    BY <2>4, <2>5
<1>6. ASSUME NEW c \in Callers, StopTest(c) PROVE Stutter
  <2>1. /\ c = Owner /\ pc[Owner] = "stopTest" /\ UNCHANGED <<expired, kind, arg, runVars>>
    BY <1>6 DEF StopTest, TimerInv, CallbacksDoNot
  <2>2. pc'[Owner] = "stopSet" /\ destroyed' = FALSE /\ ~destroyed
    BY <1>6, <2>1 DEF StopTest, StopGoesOn, Goto, TypeOK, TimerInv, TryIsWaitedFor, PollInv,
       GoneIsOver
  <2> QED
    <3>1. UNCHANGED <<Schedule, Calling, Stopping>>
      BY <2>1, <2>2, ScheduleStays DEF runVars
    <3>2. UNCHANGED destroyed
      BY <2>2 DEF TypeOK
    <3> QED
      BY <2>1, <3>1, <3>2
<1>7. ASSUME NEW c \in Callers, StopSet(c) PROVE Contract!AskToStop
  <2>1. /\ c = Owner /\ pc[Owner] = "stopSet" /\ pc'[Owner] = "stopLock"
        /\ ~destroyed /\ UNCHANGED <<expired, kind, arg, runVars, destroyed>>
    BY <1>7 DEF StopSet, Goto, TypeOK, TimerInv, CallbacksDoNot, PollInv, GoneIsOver
  <2> QED
    BY <2>1, ScheduleStays DEF runVars, Contract!AskToStop
<1>8. ASSUME NEW c \in Callers, StopLock(c)
      PROVE  Stutter \/ Contract!StopReturns \/ Contract!Vanish
  <2>1. /\ c = Owner /\ pc[Owner] = "stopLock" /\ ~destroyed
        /\ UNCHANGED <<expired, kind, arg, runVars>>
    BY <1>8 DEF StopLock, TimerInv, CallbacksDoNot, PollInv, GoneIsOver
  <2>2. /\ pc'[Owner] = IF expired THEN "idle" ELSE "waiting"
        /\ destroyed' = (dying /\ expired)
    BY <1>8, <2>1 DEF StopLock, StopGoesOn, Goto, TypeOK
  <2>3. UNCHANGED <<Schedule, Calling>>
    BY <2>1, <2>2, ScheduleStays DEF runVars
  <2>4. CASE ~expired
    BY <2>1, <2>2, <2>3, <2>4 DEF TypeOK
  <2>5. CASE expired /\ ~dying
    BY <2>1, <2>2, <2>3, <2>5 DEF Contract!StopReturns, TypeOK
  <2>6. CASE expired /\ dying
    <3>1. destroyed' = TRUE /\ ~expired' = ~expired /\ ~Stopping'
      BY <2>1, <2>2, <2>6
    <3>2. /\ ~destroyed /\ ~(~expired)
          /\ (pc'[Owner] \in {"stopLock", "waiting"}) = FALSE
          /\ UNCHANGED <<~expired, \E r \in Runs : wpc[r] = "callback", Schedule>>
      BY <2>1, <2>3, <2>6, <3>1
    <3> QED
      BY <3>1, <3>2 DEF Contract!Vanish
  <2> QED
    BY <2>4, <2>5, <2>6
<1>9. ASSUME NEW c \in Callers, WakeSpuriously(c) PROVE Stutter
  <2>1. /\ c = Owner /\ pc[Owner] = "waiting" /\ pc'[Owner] = "stopLock"
        /\ UNCHANGED <<expired, kind, arg, runVars, destroyed>>
    BY <1>9 DEF WakeSpuriously, Goto, TypeOK, TimerInv, CallbacksDoNot
  <2> QED
    BY <2>1, ScheduleStays DEF runVars
<1>10. ASSUME NEW r \in Runs, Notify(r) PROVE Stutter
  <2>1. /\ wpc[r] = "notify" /\ wpc' = [wpc EXCEPT ![r] = "none"]
        /\ UNCHANGED <<expired, kind, periods, once, count, fired, asked, arg, destroyed>>
    BY <1>10 DEF Notify, Move
  <2>2. pc'[Owner] = pc[Owner] \/ (pc[Owner] = "waiting" /\ pc'[Owner] = "stopLock")
    BY <1>10, RunLeavesCallers DEF Run, TimerInv
  <2>3. Working' = Working /\ \A s \in Working : wpc'[s] = wpc[s]
    BY <2>1 DEF Working, InLoop, TypeOK
  <2>4. UNCHANGED <<Calling, Stopping>>
    BY <2>1, <2>2 DEF TypeOK
  <2>5. CASE Working = {}
    BY <2>1, <2>2, <2>3, <2>4, <2>5 DEF Schedule, AskedFor
  <2>6. CASE Working # {}
    <3>1. PICK s \in Runs : Working = {s}
      BY <2>6 DEF TimerInv, Alone, Working
    <3>2. Schedule = ScheduleOf(s) /\ Schedule' = ScheduleOf(s)'
      BY <2>3, <3>1, ScheduleIs, ScheduleWillBe
    <3>3. ScheduleOf(s)' = ScheduleOf(s)
      BY <2>1, <2>3, <3>1 DEF ScheduleOf, Remaining, Counted, Times
    <3> QED
      BY <2>1, <2>4, <3>2, <3>3
  <2> QED
    BY <2>5, <2>6
<1>11. ASSUME NEW r \in Runs, Moves(r) \/ Expire(r)
       PROVE  /\ Working = {r} /\ ~expired /\ ~destroyed
              /\ pc[Owner] \notin Starting
              /\ UNCHANGED <<kind, periods, once, asked, arg, pc, destroyed>>
              /\ Calling <=> wpc[r] = "callback"
              /\ Schedule = ScheduleOf(r)
  <2>1. r \in Working
    BY <1>11 DEF Moves, Test, Sleep, Check, Return, Expire, Working, InLoop
  <2>2. Working = {r}
    BY <2>1 DEF TimerInv, Alone
  <2>3. Calling <=> wpc[r] = "callback"
    BY <2>2 DEF Working, InLoop
  <2>4. UNCHANGED <<kind, periods, once, asked, arg, pc, destroyed>>
    BY <1>11 DEF Moves, Test, Sleep, Check, Return, Expire
  <2>5. ~expired /\ ~destroyed /\ pc[Owner] \notin Starting
    BY <2>1 DEF TimerInv, ExpiredIsOver, PollInv, GoneIsOver
  <2> QED
    BY <2>2, <2>3, <2>4, <2>5, ScheduleIs
<1>12. ASSUME NEW r \in Runs, Moves(r)
       PROVE  /\ Working' = {r} /\ UNCHANGED <<expired, try>>
              /\ Calling' <=> wpc'[r] = "callback"
              /\ Schedule' = ScheduleOf(r)'
              /\ periods[r] \in Nat /\ count[r] \in Nat
  <2>1. Working = {r} /\ UNCHANGED <<expired, try>>
    BY <1>11, <1>12 DEF Moves, Test, Sleep, Check, Return
  <2>2. Working' = {r}
    BY <1>12, <2>1
    DEF Moves, Test, Sleep, Check, Return, Move, NextCheck, Working, InLoop, TypeOK
  <2>3. Calling' <=> wpc'[r] = "callback"
    BY <2>2 DEF Working, InLoop
  <2> QED
    BY <2>1, <2>2, <2>3, ScheduleWillBe DEF TypeOK
\* In the loop there are calls left, and after the last there are none.
<1>13. ASSUME NEW r \in Working, wpc[r] \in {"test", "sleep", "check"}
       PROVE  Remaining(r) # 0 /\ Remaining(r) \in Int
  <2>1. /\ r \in Runs /\ asked[r] \in Nat /\ fired[r] \in Nat /\ repeat \in Nat
    BY MaxFiredIs DEF Working, TypeOK
  <2>2. Counted(r) => fired[r] + Left(r) + 1 = Times(r)
    BY <1>13, <2>1 DEF CountInv, CountsDown
  <2> QED
    BY <2>1, <2>2 DEF Remaining, Left, Times, Forever
<1>14. ASSUME NEW r \in Runs, Test(r) PROVE Stutter
  <2>1. /\ wpc[r] = "test" /\ wpc'[r] \in {"lock", "sleep"} /\ UNCHANGED <<count, fired>>
    BY <1>14 DEF Test, Move, TypeOK
  <2>2. ScheduleOf(r)' = ScheduleOf(r)
    BY <1>11, <1>13, <1>14, <2>1 DEF Moves, ScheduleOf, Remaining, Counted, Times
  <2> QED
    BY <1>11, <1>12, <1>14, <2>1, <2>2 DEF Moves
<1>15. ASSUME NEW r \in Runs, Sleep(r) PROVE Contract!Poll
  <2>1. /\ wpc[r] = "sleep" /\ wpc'[r] \in {"test", "check"} /\ UNCHANGED fired
        /\ count'[r] = count[r] + 1
    BY <1>15 DEF Sleep, Move, NextCheck, TypeOK
  <2>2. count[r] < Contract!Due(periods[r])
    BY <1>11, <1>15, <2>1 DEF Moves, PollInv, Polled
  <2>3. /\ Schedule  = [left |-> Remaining(r), period |-> periods[r], polls |-> count[r]]
        /\ Schedule' = [left |-> Remaining(r), period |-> periods[r], polls |-> count[r] + 1]
    BY <1>11, <1>12, <1>15, <2>1 DEF Moves, ScheduleOf, Remaining, Counted, Times
  <2>4. Remaining(r) # 0
    BY <1>11, <1>13, <1>15, <2>1 DEF Moves
  <2> QED
    BY <1>11, <1>12, <1>15, <2>1, <2>2, <2>3, <2>4 DEF Moves, Contract!Poll
<1>16. ASSUME NEW r \in Runs, Check(r) PROVE Stutter \/ Contract!CallBack
  <2>1. /\ wpc[r] = "check" /\ UNCHANGED count
        /\ \/ wpc'[r] \in {"lock", "test"} /\ UNCHANGED fired
           \/ /\ ~try /\ wpc'[r] = "callback" /\ count[r] >= periods[r]
              /\ fired'[r] = IF fired[r] <= MaxFired THEN fired[r] + 1 ELSE fired[r]
    BY <1>16 DEF Check, Move, TypeOK
  <2>2. Remaining(r) # 0 /\ Remaining(r) \in Int
    BY <1>11, <1>13, <1>16, <2>1 DEF Moves
  <2>3. CASE wpc'[r] \in {"lock", "test"} /\ UNCHANGED fired
    <3>1. ScheduleOf(r)' = ScheduleOf(r)
      BY <1>11, <1>16, <2>1, <2>2, <2>3 DEF Moves, ScheduleOf, Remaining, Counted, Times
    <3> QED
      BY <1>11, <1>12, <1>16, <2>1, <2>3, <3>1 DEF Moves
  <2>4. CASE /\ ~try /\ wpc'[r] = "callback" /\ count[r] >= periods[r]
             /\ fired'[r] = IF fired[r] <= MaxFired THEN fired[r] + 1 ELSE fired[r]
    <3>1. count[r] = Contract!Due(periods[r])
      BY <1>11, <1>12, <1>16, <2>1, <2>4, DueIs DEF Moves, PollInv, Polled
    <3>2. Remaining(r)' = Contract!Without(Remaining(r))
      <4>1. fired[r] \in Nat /\ repeat \in Nat /\ asked[r] \in Nat /\ MaxFired \in Nat
        BY MaxFiredIs DEF TypeOK
      <4>2. Counted(r) => fired[r] + Left(r) + 1 = Times(r)
        BY <2>1 DEF CountInv, CountsDown
      <4>3. Counted(r) => fired'[r] = fired[r] + 1
        BY <2>4, <4>1, <4>2 DEF Left, Times, CountInv, AskedInRange
      <4>4. /\ Counted(r)' <=> Counted(r)
            /\ Times(r)' = Times(r)
        BY <1>11, <1>16 DEF Moves, Counted, Times
      <4>5. CASE Counted(r)
        BY <2>2, <4>1, <4>2, <4>3, <4>4, <4>5
        DEF Remaining, Times, Left, Contract!Without, Contract!Forever
      <4>6. CASE ~Counted(r)
        BY <4>4, <4>6 DEF Remaining, Forever, Contract!Without, Contract!Forever
      <4> QED
        BY <4>5, <4>6
    <3>3. /\ Schedule  = [left |-> Remaining(r), period |-> periods[r], polls |-> count[r]]
          /\ Schedule' = [left |-> Remaining(r)', period |-> periods[r], polls |-> count[r]]
      BY <1>11, <1>12, <1>16, <2>1, <2>4 DEF Moves, ScheduleOf
    <3>4. ~Stopping /\ UNCHANGED Stopping
      BY <1>11, <1>16, <2>4 DEF Moves, PollInv, RequestStands
    <3> QED
      BY <1>11, <1>12, <1>16, <2>1, <2>2, <2>4, <3>1, <3>2, <3>3, <3>4 DEF Moves, Contract!CallBack
  <2> QED
    BY <2>1, <2>3, <2>4
<1>17. ASSUME NEW r \in Runs, Return(r) PROVE Contract!Return
  <2>1. /\ wpc[r] = "callback" /\ UNCHANGED fired
        /\ \/ Over(r) /\ wpc'[r] = "lock" /\ UNCHANGED count
           \/ ~Over(r) /\ wpc'[r] = "test" /\ count'[r] = 0
    BY <1>17 DEF Return, Move, TypeOK
  <2>2. Remaining(r)' = Remaining(r)
    BY <1>11, <1>17, <2>1 DEF Moves, Remaining, Counted, Times
  <2>3. Over(r) => Remaining(r) = 0
    <3>1. fired[r] \in Nat /\ repeat \in Nat /\ asked[r] \in Nat
      BY MaxFiredIs DEF TypeOK
    <3>2. Counted(r) => fired[r] + Left(r) = Times(r)
      BY <2>1 DEF CountInv, CountsDown
    <3> QED
      BY <3>1, <3>2 DEF Over, Counted, Remaining, Left, Times
  <2>4. /\ Schedule  = [left |-> Remaining(r), period |-> periods[r], polls |-> count[r]]
        /\ Schedule' = [left |-> Remaining(r), period |-> periods[r], polls |-> 0]
    BY <1>11, <1>12, <1>17, <2>1, <2>2, <2>3 DEF Moves, ScheduleOf
  <2> QED
    BY <1>11, <1>12, <1>17, <2>1, <2>4 DEF Moves, Contract!Return
<1>18. ASSUME NEW r \in Runs, Expire(r) PROVE Contract!End
  <2>1. wpc[r] = "lock" /\ expired' = TRUE /\ wpc' = [wpc EXCEPT ![r] = "notify"]
    BY <1>18 DEF Expire, Move
  <2>2. Working' = {} /\ ~Calling' /\ ~Calling
    BY <1>11, <1>18, <2>1 DEF Working, InLoop, TypeOK
  <2>3. Schedule' = [left |-> 0, period |-> 0, polls |-> 0]
    BY <1>11, <1>18, <2>2 DEF Schedule, Starting
  <2>4. Schedule.left = 0 \/ Stopping
    <3>1. fired[r] \in Nat /\ asked[r] \in Nat
      BY MaxFiredIs DEF TypeOK
    <3>2. CASE try
      BY <3>2 DEF TimerInv, TryIsWaitedFor
    <3>3. CASE ~try
      <4>1. Counted(r) /\ fired[r] = Times(r)
        BY <2>1, <3>3 DEF CountInv, CountsDown, PollInv, EndsOnRequest
      <4>2. Remaining(r) = 0
        BY <3>1, <4>1 DEF Remaining, Times
      <4> QED
        BY <1>11, <1>18, <4>2 DEF ScheduleOf
    <3> QED
      BY <3>2, <3>3
  <2> QED
    BY <1>11, <1>18, <2>1, <2>2, <2>3, <2>4 DEF Contract!End, Contract!Unscheduled
<1>19. CASE UNCHANGED vars
  <2>1. UNCHANGED <<expired, kind, arg, pc, destroyed, runVars>>
    BY <1>19 DEF vars
  <2>2. UNCHANGED Schedule
    BY <2>1, ScheduleStays
  <2>3. UNCHANGED <<Calling, Stopping>>
    BY <2>1 DEF runVars
  <2>4. Stutter
    BY <2>1, <2>2, <2>3
  <2> QED
    BY <1>0, <2>4
<1>20. CASE \E c \in Callers : Begin(c) \/ Continue(c) \/ WakeSpuriously(c)
  BY <1>0, <1>1, <1>2, <1>3, <1>4, <1>5, <1>6, <1>7, <1>8, <1>9, <1>20
  DEF Begin, Continue, Contract!TimerNext
<1>21. CASE \E r \in Runs : Run(r)
  BY <1>0, <1>10, <1>14, <1>15, <1>16, <1>17, <1>18, <1>21 DEF Run, Contract!TimerNext
<1> QED
  BY <1>0, <1>19, <1>20, <1>21 DEF Next

\* If one thread starts and stops the timer, callbacks begin when the polls of a period
\* have passed and not later, as often as asked for, one at a time, and none after the
\* request to stop; and Stop returns when the timer is over, whatever the arguments are.
THEOREM TimerImplements ==
  ASSUME Users = {Owner}
  PROVE  Spec => ImplementsContract
<1>1. Users = {Owner}
  OBVIOUS
<1>2. Init => PollInv
  BY DEF Init, PollInv, Polled, EndsOnRequest, RequestStands, GoneIsOver, Working, InLoop,
     Callers
<1>3. Init => Contract!TimerInit
  <2> SUFFICES ASSUME Init PROVE Contract!TimerInit
    OBVIOUS
  <2>1. Working = {} /\ pc[Owner] = "idle"
    BY DEF Init, Working, InLoop, Callers
  <2>2. Schedule = [left |-> 0, period |-> 0, polls |-> 0]
    BY <2>1 DEF Schedule
  <2> QED
    BY <2>1, <2>2 DEF Init, Contract!TimerInit, Contract!Unscheduled
<1>4. TypeOK /\ TimerInv /\ PollInv /\ [Next]_vars => PollInv'
  BY <1>1, PollStep
<1>5. TypeOK /\ TimerInv /\ CountInv /\ PollInv /\ [Next]_vars
        => [Contract!TimerNext]_Contract!timerVars
  BY <1>1, TimerContractStep
<1>6. Spec => []CountInv
  BY <1>1, AlwaysCounted
<1>7. Spec => []TimerInv
  BY <1>1, AlwaysTimerInv
<1> QED
  BY <1>2, <1>3, <1>4, <1>5, <1>6, <1>7, TimerTypes, PTL
  DEF Spec, ImplementsContract, Contract!TimerSpec
=============================================================================
