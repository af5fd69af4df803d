---------------------------- MODULE ThreadProofs ----------------------------
(***************************************************************************)
(* Theorems about Thread, for every set of clients and tasks, every set of *)
(* methods in use, every delay, every clock and every counter width.       *)
(***************************************************************************)
EXTENDS Thread, FiniteSetTheorems, TLAPS

\* The initial messages_ is a queue of tasks.
LEMMA EmptyQueue == <<>> \in Seq(Tasks)
OBVIOUS

\* A delay in milliseconds is an integer.
LEMMA DelayMsInt ==
  ASSUME NEW us \in Int
  PROVE  DelayMs(us) \in Int
BY DEF DelayMs

\* ++delayed_next_num_ stays in the range of the counter.
LEMMA NextNumType ==
  ASSUME ThreadAssumption, TypeOK
  PROVE  NextNum \in 0 .. NumMod - 1
BY DEF NextNum, ThreadAssumption, TypeOK

\* TypeOK is an invariant; the clause on Holding makes it inductive, since
\* PushMessage appends arg[c] to messages.
THEOREM TypeCorrect == Spec => []TypeOK
<1> USE ThreadAssumption
<1>1. Init => TypeOK
  <2> SUFFICES ASSUME Init PROVE TypeOK
    OBVIOUS
  <2> USE DEF Init, TypeOK
  <2>1. messages \in Seq(Tasks) /\ delayed \subseteq Tasks
    OBVIOUS
  <2>2. /\ run_time \in [Tasks -> Int] /\ number \in [Tasks -> Int]
        /\ due \in [Tasks -> Int]
    OBVIOUS
  <2>3. /\ next_num \in 0 .. NumMod - 1 /\ now \in 0 .. MaxTick
        /\ wcur \in 0 .. MaxTick /\ wnext \in Int
    BY DEF ThreadAssumption, Forever
  <2>4. /\ pc \in [Callers -> CallerPCs] /\ arg \in [Callers -> Tasks \cup {NoTask}]
        /\ done \in [Callers -> BOOLEAN]
    BY DEF CallerPCs
  <2>5. \A c \in Callers : pc[c] \in Holding => arg[c] \in Tasks
    BY DEF Holding
  <2>6. waiter \in [Tasks -> Callers \cup {NoOne}] /\ fate \in [Tasks -> Fates]
    BY DEF Fates
  <2> QED
    BY <2>1, <2>2, <2>3, <2>4, <2>5, <2>6 DEF WorkerPCs
<1>2. TypeOK /\ [Next]_vars => TypeOK'
  <2> SUFFICES ASSUME TypeOK, [Next]_vars PROVE TypeOK'
    OBVIOUS
  <2> USE DEF TypeOK, queueVars, workerVars, callVars, Goto
  <2>1. ASSUME NEW c \in Callers, NEW t \in Tasks, PostTask(c, t) \/ PostDelayedTask(c, t)
        PROVE  TypeOK'
    <3>1. pc' \in [Callers -> CallerPCs]
      <4>1. \/ pc' = pc
            \/ pc' = [pc EXCEPT ![c] = "push"]
            \/ pc' = [pc EXCEPT ![c] = "stamp"]
        BY <2>1 DEF PostTask, PostDelayedTask
      <4>2. pc \in [Callers -> CallerPCs] /\ "push" \in CallerPCs /\ "stamp" \in CallerPCs
        BY DEF CallerPCs
      <4> HIDE DEF TypeOK
      <4> QED
        BY <2>1, <4>1, <4>2
    <3>2. arg' \in [Callers -> Tasks \cup {NoTask}]
      BY SMTT(30), <2>1 DEF PostTask, PostDelayedTask
    <3>3. \A e \in Callers : pc'[e] \in Holding => arg'[e] \in Tasks
      <4>1. CASE PostTask(c, t)
        BY <4>1 DEF PostTask, Holding
      <4>2. CASE PostDelayedTask(c, t)
        BY <4>2 DEF PostDelayedTask, Holding
      <4> QED
        BY <2>1, <4>1, <4>2
    <3>4. fate' \in [Tasks -> Fates]
      BY <2>1 DEF PostTask, PostDelayedTask, Fates
    <3> QED
      BY <2>1, <3>1, <3>2, <3>3, <3>4 DEF PostTask, PostDelayedTask
  <2>2. ASSUME NEW c \in Callers, PushMessage(c) PROVE TypeOK'
    <3>1. arg[c] \in Tasks
      BY <2>2 DEF PushMessage, Holding
    <3>2. messages' \in Seq(Tasks)
      BY <2>2, <3>1 DEF PushMessage
    <3>3. pc' \in [Callers -> CallerPCs] /\ arg' \in [Callers -> Tasks \cup {NoTask}]
      BY <2>2 DEF PushMessage, CallerPCs
    <3>4. \A e \in Callers : pc'[e] \in Holding => arg'[e] \in Tasks
      BY <2>2 DEF PushMessage, Holding
    <3>5. fate' \in [Tasks -> Fates]
      BY <2>2 DEF PushMessage, Fates
    <3> QED
      BY <2>2, <3>2, <3>3, <3>4, <3>5 DEF PushMessage
  <2>3. ASSUME NEW c \in Callers, NEW us \in Delays, StampDelayed(c, us) PROVE TypeOK'
    <3> DEFINE r == now + DelayMs(us)
               d == 1000 * now + us
    <3>1. r \in Int /\ d \in Int
      BY DelayMsInt DEF ThreadAssumption
    <3>2. run_time' = [run_time EXCEPT ![arg[c]] = r] /\ due' = [due EXCEPT ![arg[c]] = d]
      BY <2>3 DEF StampDelayed
    <3> HIDE DEF r, d
    <3>5. run_time' \in [Tasks -> Int] /\ due' \in [Tasks -> Int]
      BY <3>1, <3>2
    <3>3. pc' \in [Callers -> CallerPCs]
      BY <2>3 DEF StampDelayed, CallerPCs
    <3>4. \A e \in Callers : pc'[e] \in Holding => arg'[e] \in Tasks
      BY <2>3 DEF StampDelayed, Holding
    <3> QED
      BY <2>3, <3>5, <3>3, <3>4 DEF StampDelayed
  <2>4. ASSUME NEW c \in Callers, PushDelayed(c) PROVE TypeOK'
    <3>1. arg[c] \in Tasks
      BY <2>4 DEF PushDelayed, Holding
    <3>2. next_num' \in 0 .. NumMod - 1
      BY <2>4, NextNumType DEF PushDelayed
    <3>3. number' \in [Tasks -> Int]
      <4>1. next_num \in Int
        BY DEF ThreadAssumption
      <4> QED
        BY <2>4, <4>1 DEF PushDelayed
    <3>4. pc' \in [Callers -> CallerPCs] /\ arg' \in [Callers -> Tasks \cup {NoTask}]
      BY <2>4 DEF PushDelayed, CallerPCs
    <3>5. \A e \in Callers : pc'[e] \in Holding => arg'[e] \in Tasks
      BY <2>4 DEF PushDelayed, Holding
    <3>6. fate' \in [Tasks -> Fates]
      BY <2>4 DEF PushDelayed, Fates
    <3> QED
      BY <2>4, <3>1, <3>2, <3>3, <3>4, <3>5, <3>6 DEF PushDelayed
  <2>5. ASSUME NEW c \in Callers, WakeUp(c) PROVE TypeOK'
    BY <2>5 DEF WakeUp, AfterWake, CallerPCs, Holding
  <2>6. ASSUME NEW c \in Callers, NEW t \in Tasks, BlockingCall(c, t) PROVE TypeOK'
    <3>1. pc' \in [Callers -> CallerPCs]
      BY <2>6 DEF BlockingCall, CallerPCs
    <3>2. arg' \in [Callers -> Tasks \cup {NoTask}]
      <4>1. arg' = arg \/ arg' = [arg EXCEPT ![c] = t]
        BY <2>6 DEF BlockingCall
      <4> QED
        BY <4>1
    <3>5. waiter' \in [Tasks -> Callers \cup {NoOne}]
      <4>1. waiter' = waiter \/ waiter' = [waiter EXCEPT ![t] = c]
        BY <2>6 DEF BlockingCall
      <4>2. waiter \in [Tasks -> Callers \cup {NoOne}]
        BY DEF TypeOK
      <4> HIDE DEF TypeOK
      <4> QED
        BY <2>6, <4>1, <4>2
    <3>3. \A e \in Callers : pc'[e] \in Holding => arg'[e] \in Tasks
      <4>1. CASE pc' = pc /\ arg' = arg
        BY <4>1
      <4>2. CASE pc' = [pc EXCEPT ![c] = "callPost"] /\ arg' = [arg EXCEPT ![c] = t]
        <5> SUFFICES ASSUME NEW e \in Callers, pc'[e] \in Holding
                     PROVE  arg'[e] \in Tasks
          OBVIOUS
        <5>1. CASE e = c
          BY <4>2, <5>1
        <5>2. CASE e # c
          BY <4>2, <5>2
        <5> QED
          BY <5>1, <5>2
      <4> QED
        BY <2>6, <4>1, <4>2 DEF BlockingCall
    <3>4. fate' \in [Tasks -> Fates]
      BY <2>6 DEF BlockingCall, Fates
    <3> QED
      BY <2>6, <3>1, <3>2, <3>3, <3>4, <3>5 DEF BlockingCall
  <2>7. ASSUME NEW c \in Callers, CallPost(c) PROVE TypeOK'
    <3>1. pc' \in [Callers -> CallerPCs]
      BY <2>7 DEF CallPost, CallerPCs
    <3>2. \A e \in Callers : pc'[e] \in Holding => arg'[e] \in Tasks
      BY <2>7 DEF CallPost, Holding
    <3>3. fate' \in [Tasks -> Fates]
      BY <2>7 DEF CallPost, Fates
    <3>4. done' \in [Callers -> BOOLEAN]
      BY <2>7 DEF CallPost, Signal
    <3> QED
      BY <2>7, <3>1, <3>2, <3>3, <3>4 DEF CallPost
  <2>8. ASSUME NEW c \in Callers, CallReturn(c) PROVE TypeOK'
    BY <2>8 DEF CallReturn, CallerPCs, Holding
  <2>9. ASSUME NEW c \in Callers, Quit(c) \/ Restart(c) PROVE TypeOK'
    BY <2>9 DEF Quit, Restart, CallerPCs, Holding
  <2>10. CASE Start \/ CreateThread
    <3>1. pc' \in [Callers -> CallerPCs]
      BY <2>10 DEF Start, CreateThread, CallerPCs
    <3>2. \A e \in Callers : pc'[e] \in Holding => arg'[e] \in Tasks
      BY <2>10 DEF Start, CreateThread, Holding
    <3>3. wpc' \in WorkerPCs /\ thread' \in BOOLEAN /\ stop' \in BOOLEAN
      BY <2>10 DEF Start, CreateThread, WorkerPCs
    <3> QED
      BY <2>10, <3>1, <3>2, <3>3 DEF Start, CreateThread
  <2>11. CASE Stop \/ Join
    <3>1. pc' \in [Callers -> CallerPCs]
      BY <2>11 DEF Stop, Join, CallerPCs
    <3>2. \A e \in Callers : pc'[e] \in Holding => arg'[e] \in Tasks
      BY <2>11 DEF Stop, Join, Holding
    <3>3. wpc' \in WorkerPCs /\ thread' \in BOOLEAN /\ stop' \in BOOLEAN
      BY <2>11 DEF Stop, Join, WorkerPCs
    <3> QED
      BY <2>11, <3>1, <3>2, <3>3 DEF Stop, Join
  <2>12. CASE DoDestroy
    <3>1. fate' \in [Tasks -> Fates]
      BY <2>12 DEF DoDestroy, Fates
    <3>2. done' \in [Callers -> BOOLEAN]
      BY <2>12 DEF DoDestroy, Signal
    <3>3. /\ pc' \in [Callers -> CallerPCs]
          /\ \A e \in Callers : pc'[e] \in Holding => arg'[e] \in Tasks
      BY <2>12 DEF DoDestroy, CallerPCs, Holding
    <3> QED
      BY <2>12, <3>1, <3>2, <3>3 DEF DoDestroy
  <2>13. CASE PreRun \/ ReadClock \/ LockQueues \/ CheckQuit \/ EndWait
    BY <2>13 DEF PreRun, ReadClock, LockQueues, CheckQuit, EndWait, WorkerPCs
  <2>14. ASSUME NEW t \in Tasks, MoveDue(t) PROVE TypeOK'
    BY <2>14 DEF MoveDue, Fates
  <2>15. CASE TakeMessage
    BY <2>15 DEF TakeMessage, WorkerPCs, Fates
  <2>16. CASE FindNothing
    BY <2>16 DEF FindNothing, NextWait, Forever, WorkerPCs
  <2>17. CASE FinishTask
    BY <2>17 DEF FinishTask, Signal, WorkerPCs, Fates
  <2>18. CASE Tick
    BY <2>18 DEF Tick, ThreadAssumption
  <2>19. CASE UNCHANGED vars
    BY <2>19 DEF vars
  <2> QED
    BY <2>1, <2>2, <2>3, <2>4, <2>5, <2>6, <2>7, <2>8, <2>9, <2>10, <2>11,
       <2>12, <2>13, <2>14, <2>15, <2>16, <2>17, <2>18, <2>19
    DEF Next, Begin, Continue, Control, Loop
<1> QED
  BY <1>1, <1>2, PTL DEF Spec

-----------------------------------------------------------------------------
\* The owner and the worker are two callers; the markers are not values.
LEMMA CallerFacts ==
  /\ Owner \in Callers /\ Worker \in Callers /\ Owner # Worker
  /\ NoOne \notin Callers /\ NoTask \notin Tasks
BY ThreadAssumption DEF ThreadAssumption, Callers

\* The part of TypeOK about the callers and the task objects.
LEMMA CallTypes ==
  ASSUME TypeOK
  PROVE  /\ pc \in [Callers -> CallerPCs] /\ arg \in [Callers -> Tasks \cup {NoTask}]
         /\ waiter \in [Tasks -> Callers \cup {NoOne}] /\ done \in [Callers -> BOOLEAN]
         /\ fate \in [Tasks -> Fates]
         /\ \A c \in Callers : pc[c] \in Holding => arg[c] \in Tasks
BY DEF TypeOK


\* A task that is not in messages changes its state.
LEMMA SameMessages ==
  ASSUME TypeOK, InMessages, NEW t \in Tasks, NEW f,
         fate[t] # "queued", f # "queued",
         messages' = messages, fate' = [fate EXCEPT ![t] = f]
  PROVE  InMessages'
<1>1. messages \in Seq(Tasks) /\ fate \in [Tasks -> Fates]
  BY DEF TypeOK
<1>2. \A i \in DOMAIN messages : messages[i] \in Tasks
  BY <1>1
<1> QED
  BY <1>1, <1>2 DEF InMessages

\* messages_.push of a task that is not in messages_.
LEMMA AppendMessage ==
  ASSUME TypeOK, InMessages, NEW t \in Tasks, fate[t] # "queued",
         messages' = Append(messages, t), fate' = [fate EXCEPT ![t] = "queued"]
  PROVE  InMessages'
<1>1. messages \in Seq(Tasks) /\ fate \in [Tasks -> Fates]
  BY DEF TypeOK
<1> DEFINE n == Len(messages)
<1>2. n \in Nat /\ DOMAIN messages = 1 .. n /\ DOMAIN messages' = 1 .. (n + 1)
  BY <1>1
<1>3. \A i \in 1 .. n : messages'[i] = messages[i] /\ messages[i] \in Tasks
  BY <1>1
<1>4. messages'[n + 1] = t
  BY <1>1
<1> HIDE DEF n
<1>5. \A i \in 1 .. n : messages[i] # t /\ fate[messages[i]] = "queued"
  BY <1>2 DEF InMessages
<1>6. \A i, j \in DOMAIN messages' :
        fate'[messages'[i]] = "queued" /\ (messages'[i] = messages'[j] => i = j)
  <2> SUFFICES ASSUME NEW i \in 1 .. (n + 1), NEW j \in 1 .. (n + 1)
               PROVE  /\ fate'[messages'[i]] = "queued"
                      /\ messages'[i] = messages'[j] => i = j
    BY <1>2
  <2>1. (i \in 1 .. n \/ i = n + 1) /\ (j \in 1 .. n \/ j = n + 1)
    BY <1>2
  <2> QED
    BY SMTT(30), <2>1, <1>1, <1>2, <1>3, <1>4, <1>5 DEF InMessages
<1>7. ASSUME NEW u \in Tasks, fate'[u] = "queued"
      PROVE  \E i \in DOMAIN messages' : messages'[i] = u
  <2>1. CASE u = t
    BY <2>1, <1>2, <1>4
  <2>2. CASE u # t
    <3>1. PICK i \in 1 .. n : messages[i] = u
      BY <2>2, <1>1, <1>2, <1>7 DEF InMessages
    <3>2. i \in 1 .. (n + 1)
      BY <1>2
    <3> QED
      BY <3>1, <3>2, <1>2, <1>3
  <2> QED
    BY <2>1, <2>2
<1> QED
  BY <1>6, <1>7 DEF InMessages

\* messages_.pop of a task that goes to the worker.
LEMMA RemoveMessage ==
  ASSUME TypeOK, InMessages, messages # <<>>, messages' = Tail(messages),
         fate' = [fate EXCEPT ![Head(messages)] = "running"]
  PROVE  InMessages' /\ Head(messages) \in Tasks /\ fate[Head(messages)] = "queued"
<1>1. messages \in Seq(Tasks) /\ fate \in [Tasks -> Fates]
  BY DEF TypeOK
<1> DEFINE n == Len(messages) - 1
           t == messages[1]
<1>2. /\ n \in Nat /\ DOMAIN messages = 1 .. (n + 1) /\ DOMAIN messages' = 1 .. n
      /\ t \in Tasks /\ Head(messages) = t
  BY <1>1
<1>3. \A i \in 1 .. n : messages'[i] = messages[i + 1] /\ messages[i + 1] \in Tasks
  BY <1>1
<1> HIDE DEF n
<1>4. \A i \in 1 .. n : i + 1 \in DOMAIN messages /\ i + 1 # 1 /\ 1 \in DOMAIN messages
  BY <1>2
<1>5. \A i \in 1 .. n : messages[i + 1] # t /\ fate[messages[i + 1]] = "queued"
  BY <1>4 DEF InMessages
<1>6. \A i, j \in DOMAIN messages' :
        fate'[messages'[i]] = "queued" /\ (messages'[i] = messages'[j] => i = j)
  <2> SUFFICES ASSUME NEW i \in 1 .. n, NEW j \in 1 .. n
               PROVE  /\ fate'[messages'[i]] = "queued"
                      /\ messages'[i] = messages'[j] => i = j
    BY <1>2
  <2>1. fate'[messages'[i]] = "queued"
    BY <1>1, <1>2, <1>3, <1>5
  <2>2. ASSUME messages'[i] = messages'[j] PROVE i = j
    <3>1. i + 1 = j + 1
      BY <2>2, <1>3, <1>4 DEF InMessages
    <3> QED
      BY <3>1
  <2> QED
    BY <2>1, <2>2
<1>7. ASSUME NEW u \in Tasks, fate'[u] = "queued"
      PROVE  \E i \in DOMAIN messages' : messages'[i] = u
  <2>1. u # t /\ fate[u] = "queued"
    BY <1>1, <1>2, <1>7
  <2>2. PICK k \in 1 .. (n + 1) : messages[k] = u
    BY <2>1, <1>2 DEF InMessages
  <2>3. k - 1 \in 1 .. n /\ (k - 1) + 1 = k
    BY <2>1, <2>2, <1>2
  <2> QED
    BY <2>2, <2>3, <1>2, <1>3
<1>8. fate[t] = "queued"
  BY <1>2 DEF InMessages
<1> QED
  BY <1>2, <1>6, <1>7, <1>8 DEF InMessages

\* No step puts a task object in two places or loses one.
LEMMA PlacesStep ==
  ASSUME TypeOK, Places, Roles, [Next]_vars
  PROVE  Places'
<1> USE CallerFacts, CallTypes DEF Places, InHands, InDelayed, AtWork, Posting, Holding,
         queueVars, workerVars, callVars, Goto, MayCall
<1>1. ASSUME NEW c \in Callers, NEW t \in Tasks, PostTask(c, t)
      PROVE  Places'
  <2>1. PICK f \in {"posting", "refused"} : fate' = [fate EXCEPT ![t] = f]
    BY <1>1 DEF PostTask
  <2>2. InMessages'
    BY <1>1, <2>1, SameMessages DEF PostTask
  <2>3. InHands' /\ InDelayed' /\ AtWork'
    BY <1>1 DEF PostTask, TypeOK
  <2> QED
    BY <2>2, <2>3
<1>2. ASSUME NEW c \in Callers, NEW t \in Tasks, PostDelayedTask(c, t)
      PROVE  Places'
  <2>1. PICK f \in {"posting", "refused"} : fate' = [fate EXCEPT ![t] = f]
    BY <1>2 DEF PostDelayedTask
  <2>2. InMessages'
    BY <1>2, <2>1, SameMessages DEF PostDelayedTask
  <2>3. InHands' /\ InDelayed' /\ AtWork'
    BY <1>2 DEF PostDelayedTask, TypeOK
  <2> QED
    BY <2>2, <2>3
<1>3. ASSUME NEW c \in Callers, PushMessage(c) PROVE Places'
  <2>1. arg[c] \in Tasks /\ fate[arg[c]] = "posting"
    BY <1>3 DEF PushMessage
  <2>2. InMessages'
    BY <1>3, <2>1, AppendMessage DEF PushMessage
  <2>3. InHands'
    BY <1>3 DEF PushMessage
  <2>4. InDelayed' /\ AtWork'
    BY <1>3, <2>1 DEF PushMessage
  <2> QED
    BY <2>2, <2>3, <2>4
<1>4. ASSUME NEW c \in Callers, NEW us \in Delays, StampDelayed(c, us)
      PROVE  Places'
  BY <1>4 DEF StampDelayed, InMessages, TypeOK
<1>5. ASSUME NEW c \in Callers, PushDelayed(c) PROVE Places'
  <2>1. arg[c] \in Tasks /\ fate[arg[c]] = "posting"
    BY <1>5 DEF PushDelayed
  <2>2. InMessages'
    BY <1>5, <2>1, SameMessages DEF PushDelayed
  <2>3. InHands'
    BY <1>5 DEF PushDelayed
  <2>4. InDelayed' /\ AtWork'
    BY <1>5, <2>1 DEF PushDelayed
  <2> QED
    BY <2>2, <2>3, <2>4
<1>6. ASSUME NEW c \in Callers, WakeUp(c) PROVE Places'
  BY <1>6 DEF WakeUp, AfterWake, InMessages, TypeOK
<1>7. ASSUME NEW c \in Callers, NEW t \in Tasks, BlockingCall(c, t)
      PROVE  Places'
  <2>1. PICK f \in {"posting", "inline", "refused"} : fate' = [fate EXCEPT ![t] = f]
    BY <1>7 DEF BlockingCall
  <2>2. InMessages'
    BY <1>7, <2>1, SameMessages DEF BlockingCall
  <2>3. InHands'
    BY <1>7 DEF BlockingCall
  <2>4. InDelayed' /\ AtWork'
    BY <1>7, <2>1, CallTypes DEF BlockingCall, TypeOK
  <2> QED
    BY <2>2, <2>3, <2>4
<1>8. ASSUME NEW c \in Callers, CallPost(c) PROVE Places'
  <2>1. arg[c] \in Tasks /\ fate[arg[c]] = "posting"
    BY <1>8 DEF CallPost
  <2>2. InMessages'
    BY <1>8, <2>1, SameMessages DEF CallPost, InMessages
  <2>3. InHands' /\ InDelayed' /\ AtWork'
    BY <1>8, <2>1 DEF CallPost
  <2> QED
    BY <2>2, <2>3
<1>9. ASSUME NEW c \in Callers, CallReturn(c) PROVE Places'
  BY <1>9 DEF CallReturn, Answered, InMessages, TypeOK
<1>10. ASSUME NEW c \in Callers, Quit(c) PROVE Places'
  BY <1>10 DEF Quit, InMessages, TypeOK
<1>11. ASSUME NEW c \in Callers, Restart(c) PROVE Places'
  BY <1>11 DEF Restart, InMessages, TypeOK
<1>12. CASE Start
  BY <1>12 DEF Start, InMessages, TypeOK
<1>13. CASE CreateThread
  BY <1>13 DEF CreateThread, Roles, InMessages, TypeOK
<1>14. CASE Stop \/ Join
  BY <1>14 DEF Stop, Join, Joinable, InMessages, TypeOK
<1>15. CASE DoDestroy
  BY <1>15 DEF DoDestroy, InMessages, TypeOK
<1>16. CASE PreRun \/ ReadClock \/ LockQueues \/ FindNothing \/ CheckQuit \/ EndWait
  BY <1>16 DEF PreRun, ReadClock, LockQueues, FindNothing, CheckQuit, EndWait, InMessages, TypeOK
<1>17. ASSUME NEW t \in Tasks, MoveDue(t) PROVE Places'
  <2>1. fate[t] = "delayed"
    BY <1>17 DEF MoveDue, Top
  <2>2. InMessages'
    BY <1>17, <2>1, AppendMessage DEF MoveDue
  <2>3. InHands' /\ InDelayed' /\ AtWork'
    BY <1>17, <2>1 DEF MoveDue
  <2> QED
    BY <2>2, <2>3
<1>18. CASE TakeMessage
  <2> DEFINE h == Head(messages)
  <2>1. InMessages' /\ h \in Tasks /\ fate[h] = "queued"
    BY <1>18, RemoveMessage DEF TakeMessage
  <2>2. /\ fate' = [fate EXCEPT ![h] = "running"]
        /\ wtask' = h /\ wpc' = "run" /\ delayed' = delayed
        /\ wpc = "scan" /\ UNCHANGED callVars
    BY <1>18 DEF TakeMessage
  <2> HIDE DEF h
  <2>3. InHands' /\ InDelayed' /\ AtWork'
    BY <2>1, <2>2
  <2> QED
    BY <2>1, <2>3
<1>19. CASE FinishTask
  BY <1>19 DEF FinishTask, InMessages, TypeOK
<1>20. CASE Tick
  BY <1>20 DEF Tick, InMessages, TypeOK
<1>21. CASE UNCHANGED vars
  BY <1>21 DEF vars, InMessages, TypeOK
<1> QED
  BY <1>1, <1>2, <1>3, <1>4, <1>5, <1>6, <1>7, <1>8, <1>9, <1>10, <1>11, 
     <1>12, <1>13, <1>14, <1>15, <1>16, <1>17, <1>18, <1>19, <1>20, 
     <1>21
  DEF Next, Begin, Continue, Control, Loop

\* No step brings a caller where it may not be.
LEMMA RolesStep ==
  ASSUME TypeOK, Places, Roles, [Next]_vars
  PROVE  Roles'
<1> USE CallerFacts DEF TypeOK, Places, AtWork, Roles, Posting, Calling, Controlling,
         queueVars, workerVars, callVars, Goto, MayCall
<1>1. ASSUME NEW c \in Callers, NEW t \in Tasks, PostTask(c, t)
      PROVE  Roles'
  BY <1>1 DEF PostTask
<1>2. ASSUME NEW c \in Callers, NEW t \in Tasks, PostDelayedTask(c, t)
      PROVE  Roles'
  BY <1>2 DEF PostDelayedTask
<1>3. ASSUME NEW c \in Callers, PushMessage(c) PROVE Roles'
  BY <1>3 DEF PushMessage
<1>4. ASSUME NEW c \in Callers, NEW us \in Delays, StampDelayed(c, us)
      PROVE  Roles'
  BY <1>4 DEF StampDelayed
<1>5. ASSUME NEW c \in Callers, PushDelayed(c) PROVE Roles'
  BY <1>5 DEF PushDelayed
<1>6. ASSUME NEW c \in Callers, WakeUp(c) PROVE Roles'
  BY <1>6 DEF WakeUp, AfterWake
<1>7. ASSUME NEW c \in Callers, NEW t \in Tasks, BlockingCall(c, t)
      PROVE  Roles'
  BY <1>7 DEF BlockingCall
<1>8. ASSUME NEW c \in Callers, CallPost(c) PROVE Roles'
  BY SMTT(30), <1>8 DEF CallPost
<1>9. ASSUME NEW c \in Callers, CallReturn(c) PROVE Roles'
  BY <1>9 DEF CallReturn, Answered
<1>10. ASSUME NEW c \in Callers, Quit(c) PROVE Roles'
  BY <1>10 DEF Quit
<1>11. ASSUME NEW c \in Callers, Restart(c) PROVE Roles'
  BY <1>11 DEF Restart
<1>12. CASE Start
  BY <1>12 DEF Start
<1>13. CASE CreateThread
  BY <1>13 DEF CreateThread
<1>14. CASE Stop
  BY <1>14 DEF Stop
<1>15. CASE Join
  BY <1>15 DEF Join, Joinable
<1>16. CASE DoDestroy
  BY <1>16 DEF DoDestroy
<1>17. CASE PreRun \/ ReadClock \/ LockQueues \/ FindNothing \/ CheckQuit \/ EndWait
  BY <1>17 DEF PreRun, ReadClock, LockQueues, FindNothing, CheckQuit, EndWait
<1>18. ASSUME NEW t \in Tasks, MoveDue(t) PROVE Roles'
  BY <1>18 DEF MoveDue
<1>19. CASE TakeMessage
  BY <1>19 DEF TakeMessage
<1>20. CASE FinishTask
  BY <1>20 DEF FinishTask
<1>21. CASE Tick
  BY <1>21 DEF Tick
<1>22. CASE UNCHANGED vars
  BY <1>22 DEF vars
<1> QED
  BY <1>1, <1>2, <1>3, <1>4, <1>5, <1>6, <1>7, <1>8, <1>9, <1>10, <1>11, 
     <1>12, <1>13, <1>14, <1>15, <1>16, <1>17, <1>18, <1>19, <1>20, 
     <1>21, <1>22
  DEF Next, Begin, Continue, Control, Loop

\* Whoever waits for a task that DoDestroy drops is released.
LEMMA DestroyReleases ==
  ASSUME TypeOK, Roles, Calls, DoDestroy
  PROVE  CallerKnowsTask'
<1> USE CallTypes, CallerFacts DEF DoDestroy, Calls, CallerKnowsTask, Calling, Holding, Signal, Goto
<1> SUFFICES ASSUME NEW e \in Callers
             PROVE  /\ done'[e] => pc'[e] \in {"callWake", "await"}
                    /\ pc'[e] \in Calling =>
                         /\ waiter'[arg'[e]] = e
                         /\ done'[e] \/ fate'[arg'[e]] \in {"posting", "queued", "running"}
  OBVIOUS
<1>1. CASE pc[e] \in Calling
  <2>1. e # Owner /\ pc[e] = "await" /\ pc'[e] = "await"
    BY <1>1
  <2>2. arg[e] \in Tasks /\ waiter[arg[e]] = e
        /\ (done[e] \/ fate[arg[e]] \in {"posting", "queued", "running"})
    BY <1>1
  <2>3. arg'[e] = arg[e] /\ waiter'[arg[e]] = e
    BY <2>2
  <2>4. CASE done[e] \/ fate[arg[e]] = "queued"
    <3>1. done'[e]
      BY <2>2, <2>4
    <3> QED
      BY <2>1, <2>2, <2>3, <3>1
  <2>5. CASE fate[arg[e]] \in {"posting", "running"}
    <3>1. fate'[arg[e]] = fate[arg[e]]
      BY <2>2, <2>5
    <3> QED
      BY <2>1, <2>2, <2>3, <2>5, <3>1
  <2> QED
    BY <2>2, <2>4, <2>5
<1>2. CASE pc[e] \notin Calling
  BY <1>2 DEF Roles, TaskKnowsCaller
<1> QED
  BY <1>1, <1>2

\* No step separates a BlockingCall from its task before the event is set.
LEMMA CallsStep ==
  ASSUME TypeOK, Places, Roles, Calls, [Next]_vars
  PROVE  Calls'
<1> USE CallerFacts, CallTypes DEF Places, InHands, InDelayed, AtWork, Roles, Calls,
         TaskKnowsCaller, CallerKnowsTask, Posting, Holding, Calling, Signal, MayCall,
         queueVars, workerVars, callVars, Goto
<1>1. ASSUME NEW c \in Callers, NEW t \in Tasks, PostTask(c, t)
      PROVE  Calls'
  BY <1>1 DEF PostTask
<1>2. ASSUME NEW c \in Callers, NEW t \in Tasks, PostDelayedTask(c, t)
      PROVE  Calls'
  BY <1>2 DEF PostDelayedTask
<1>3. ASSUME NEW c \in Callers, PushMessage(c) PROVE Calls'
  BY <1>3 DEF PushMessage
<1>4. ASSUME NEW c \in Callers, NEW us \in Delays, StampDelayed(c, us)
      PROVE  Calls'
  BY <1>4 DEF StampDelayed
<1>5. ASSUME NEW c \in Callers, PushDelayed(c) PROVE Calls'
  BY <1>5 DEF PushDelayed
<1>6. ASSUME NEW c \in Callers, WakeUp(c) PROVE Calls'
  BY <1>6 DEF WakeUp, AfterWake
<1>7. ASSUME NEW c \in Callers, NEW t \in Tasks, BlockingCall(c, t)
      PROVE  Calls'
  BY <1>7 DEF BlockingCall
<1>8. ASSUME NEW c \in Callers, CallPost(c) PROVE Calls'
  <2>1. waiter[arg[c]] = c /\ arg[c] \in Tasks
    BY <1>8 DEF CallPost
  <2>2. TaskKnowsCaller'
    BY <1>8 DEF CallPost
  <2>3. CASE stop
    <3>1. done' = [e \in Callers |-> done[e] \/ \E t \in {arg[c]} : waiter[t] = e]
      BY <1>8, <2>3 DEF CallPost
    <3>2. \A e \in Callers : done[e] \in BOOLEAN
      OBVIOUS
    <3>3. done'[c] /\ \A e \in Callers : e # c => done'[e] = done[e]
      BY ONLY <3>1, <3>2, <2>1, <1>8
    <3>4. \A e \in Callers : pc[e] \in Calling /\ e # c => arg[e] # arg[c]
      BY <2>1
    <3>5. CallerKnowsTask'
      BY <1>8, <2>1, <2>3, <3>3, <3>4 DEF CallPost
    <3> QED
      BY <2>2, <3>5
  <2>4. CASE ~stop
    BY <1>8, <2>2, <2>4 DEF CallPost
  <2> QED
    BY <2>3, <2>4
<1>9. ASSUME NEW c \in Callers, CallReturn(c) PROVE Calls'
  BY <1>9 DEF CallReturn, Answered
<1>10. ASSUME NEW c \in Callers, Quit(c) PROVE Calls'
  BY <1>10 DEF Quit
<1>11. ASSUME NEW c \in Callers, Restart(c) PROVE Calls'
  BY <1>11 DEF Restart
<1>12. CASE Start
  BY <1>12 DEF Start
<1>13. CASE CreateThread
  BY <1>13 DEF CreateThread
<1>14. CASE Stop
  BY <1>14 DEF Stop
<1>15. CASE Join
  BY <1>15 DEF Join, Joinable
<1>16. CASE DoDestroy
  <2>1. TaskKnowsCaller'
    BY <1>16 DEF DoDestroy
  <2>2. CallerKnowsTask'
    BY <1>16, DestroyReleases
  <2> QED
    BY <2>1, <2>2
<1>17. CASE PreRun \/ ReadClock \/ LockQueues \/ FindNothing \/ CheckQuit \/ EndWait
  BY <1>17 DEF PreRun, ReadClock, LockQueues, FindNothing, CheckQuit, EndWait
<1>18. ASSUME NEW t \in Tasks, MoveDue(t) PROVE Calls'
  <2>1. fate[t] = "delayed"
    BY <1>18 DEF MoveDue, Top
  <2> QED
    BY <1>18, <2>1 DEF MoveDue
<1>19. CASE TakeMessage
  <2>1. Head(messages) \in Tasks /\ fate[Head(messages)] = "queued"
    BY <1>19, RemoveMessage DEF TakeMessage
  <2> QED
    BY <1>19, <2>1 DEF TakeMessage
<1>20. CASE FinishTask
  <2>1. wtask \in Tasks /\ fate[wtask] = "running"
    BY <1>20 DEF FinishTask, TypeOK
  <2>2. TaskKnowsCaller'
    BY <1>20, <2>1 DEF FinishTask
  <2>3. ASSUME NEW e \in Callers
        PROVE  /\ done'[e] => pc'[e] \in {"callWake", "await"}
               /\ pc'[e] \in Calling =>
                    /\ waiter'[arg'[e]] = e
                    /\ done'[e] \/ fate'[arg'[e]] \in {"posting", "queued", "running"}
    <3>1. CASE waiter[wtask] = e
      BY <1>20, <2>1, <3>1 DEF FinishTask
    <3>2. CASE waiter[wtask] # e
      BY <1>20, <2>1, <3>2 DEF FinishTask
    <3> QED
      BY <3>1, <3>2
  <2> QED
    BY <2>2, <2>3
<1>21. CASE Tick
  BY <1>21 DEF Tick
<1>22. CASE UNCHANGED vars
  BY <1>22 DEF vars
<1> QED
  BY <1>1, <1>2, <1>3, <1>4, <1>5, <1>6, <1>7, <1>8, <1>9, <1>10, <1>11, 
     <1>12, <1>13, <1>14, <1>15, <1>16, <1>17, <1>18, <1>19, <1>20, 
     <1>21, <1>22
  DEF Next, Begin, Continue, Control, Loop

\* No step makes the worker sleep through what it waits for.
LEMMA WakesStep ==
  ASSUME TypeOK, Places, Roles, NoLostWakeup, [Next]_vars
  PROVE  NoLostWakeup'
<1> USE CallerFacts DEF TypeOK, NoLostWakeup, MessageWakes, StopWakes, DelayWakes, queueVars, workerVars, callVars, Goto, MayCall
<1>1. ASSUME NEW c \in Callers, NEW t \in Tasks, PostTask(c, t)
      PROVE  NoLostWakeup'
  BY <1>1 DEF PostTask
<1>2. ASSUME NEW c \in Callers, NEW t \in Tasks, PostDelayedTask(c, t)
      PROVE  NoLostWakeup'
  BY <1>2 DEF PostDelayedTask
<1>3. ASSUME NEW c \in Callers, PushMessage(c) PROVE NoLostWakeup'
  BY <1>3 DEF PushMessage
<1>4. ASSUME NEW c \in Callers, NEW us \in Delays, StampDelayed(c, us)
      PROVE  NoLostWakeup'
  BY <1>4 DEF StampDelayed, Places, InHands, InDelayed, Posting
<1>5. ASSUME NEW c \in Callers, PushDelayed(c) PROVE NoLostWakeup'
  BY <1>5 DEF PushDelayed
<1>6. ASSUME NEW c \in Callers, WakeUp(c) PROVE NoLostWakeup'
  BY <1>6 DEF WakeUp, AfterWake
<1>7. ASSUME NEW c \in Callers, NEW t \in Tasks, BlockingCall(c, t)
      PROVE  NoLostWakeup'
  BY <1>7 DEF BlockingCall
<1>8. ASSUME NEW c \in Callers, CallPost(c) PROVE NoLostWakeup'
  BY <1>8 DEF CallPost
<1>9. ASSUME NEW c \in Callers, CallReturn(c) PROVE NoLostWakeup'
  BY <1>9 DEF CallReturn, Answered
<1>10. ASSUME NEW c \in Callers, Quit(c) PROVE NoLostWakeup'
  BY <1>10 DEF Quit
<1>11. ASSUME NEW c \in Callers, Restart(c) PROVE NoLostWakeup'
  BY <1>11 DEF Restart
<1>12. CASE Start
  BY <1>12 DEF Start
<1>13. CASE CreateThread
  BY <1>13 DEF CreateThread
<1>14. CASE Stop
  BY <1>14 DEF Stop
<1>15. CASE Join
  BY <1>15 DEF Join, Joinable
<1>16. CASE DoDestroy
  BY <1>16 DEF DoDestroy
<1>17. CASE PreRun \/ ReadClock \/ LockQueues
  BY <1>17 DEF PreRun, ReadClock, LockQueues, AtWork, Places
<1>18. ASSUME NEW t \in Tasks, MoveDue(t) PROVE NoLostWakeup'
  BY <1>18 DEF MoveDue
<1>19. CASE TakeMessage
  BY <1>19 DEF TakeMessage
<1>20. CASE FindNothing
  <2>1. MessageWakes' /\ StopWakes'
    BY <1>20 DEF FindNothing
  <2>2. CASE delayed = {}
    BY <1>20, <2>1, <2>2 DEF FindNothing
  <2>3. CASE delayed # {}
    <3>1. PICK t \in delayed : Top(t) /\ wnext' = run_time[t] - wcur
      BY <1>20, <2>3 DEF FindNothing, NextWait
    <3>2. ~ Due(t)
      BY <1>20, <3>1 DEF FindNothing, NothingDue
    <3>3. \A u \in delayed : run_time[t] <= run_time[u]
      BY <3>1 DEF Top, Before
    <3>4. DelayWakes'
      BY <1>20, <3>1, <3>2, <3>3 DEF FindNothing, Due
    <3> QED
      BY <2>1, <3>4
  <2> QED
    BY <2>2, <2>3
<1>21. CASE CheckQuit
  BY <1>21 DEF CheckQuit
<1>22. CASE EndWait
  BY <1>22 DEF EndWait
<1>23. CASE FinishTask
  BY <1>23 DEF FinishTask
<1>24. CASE Tick
  BY <1>24 DEF Tick
<1>25. CASE UNCHANGED vars
  BY <1>25 DEF vars
<1> QED
  BY <1>1, <1>2, <1>3, <1>4, <1>5, <1>6, <1>7, <1>8, <1>9, <1>10, <1>11, 
     <1>12, <1>13, <1>14, <1>15, <1>16, <1>17, <1>18, <1>19, <1>20, 
     <1>21, <1>22, <1>23, <1>24, <1>25
  DEF Next, Begin, Continue, Control, Loop

-----------------------------------------------------------------------------
\* The inductive invariant holds.
THEOREM Invariance == Spec => []IInv
<1>1. Init => Places /\ Roles /\ Calls /\ NoLostWakeup
  BY CallerFacts
  DEF Init, Places, InHands, InMessages, InDelayed, AtWork, Posting, Roles, Calling,
      Controlling, Calls, TaskKnowsCaller, CallerKnowsTask, NoLostWakeup,
      MessageWakes, StopWakes, DelayWakes
<1>2. /\ TypeOK /\ Places /\ Roles /\ Calls /\ NoLostWakeup /\ [Next]_vars
      => (Places /\ Roles /\ Calls /\ NoLostWakeup)'
  BY PlacesStep, RolesStep, CallsStep, WakesStep
<1> QED
  BY <1>1, <1>2, TypeCorrect, PTL DEF Spec, IInv

\* The worker never sleeps through a message, a trigger time or a stop request.
THEOREM NeverSleepsThrough == Spec => []NoLostWakeup
<1>1. IInv => NoLostWakeup
  BY DEF IInv
<1> QED
  BY <1>1, Invariance, PTL

\* The functor of a BlockingCall outlives its task.
THEOREM FunctorOutlivesTask == Spec => []FunctorLifetime
<1>1. IInv => FunctorLifetime
  BY DEF IInv, Calls, TaskKnowsCaller, FunctorLifetime
<1> QED
  BY <1>1, Invariance, PTL

\* A caller that waits has its answer or a task that will give it.
THEOREM WaiterHasTask == Spec => []CallerReleased
<1>1. IInv => CallerReleased
  <2> SUFFICES ASSUME IInv, NEW c \in Callers, pc[c] = "await", ~done[c]
               PROVE  waiter[arg[c]] = c /\ fate[arg[c]] \in {"queued", "running"}
    BY DEF CallerReleased
  <2>1. arg[c] \in Tasks /\ c # NoOne
    BY CallTypes, CallerFacts DEF IInv, Holding
  <2>2. waiter[arg[c]] = c /\ fate[arg[c]] \in {"posting", "queued", "running"}
    BY DEF IInv, Calls, CallerKnowsTask, Calling
  <2> QED
    BY <2>1, <2>2 DEF IInv, Calls, TaskKnowsCaller
<1> QED
  BY <1>1, Invariance, PTL

\* When Stop returns, no task is running.
THEOREM StopMeansIdle == Spec => []StoppedIsIdle
<1>1. IInv => StoppedIsIdle
  BY CallerFacts DEF IInv, Roles, Places, AtWork, StoppedIsIdle, TypeOK
<1> QED
  BY <1>1, Invariance, PTL
-----------------------------------------------------------------------------
(* The contract of TaskQueueBase. *)

\* A step that moves no task object in or out of messages, or of the worker's
\* hands, is a stuttering step of the contract.
LEMMA Stutter ==
  ASSUME UNCHANGED <<messages, wtask, destroyed>>,
         \A t \in Tasks : fate'[t] \in {"running", "ran"} <=> fate[t] \in {"running", "ran"}
  PROVE  UNCHANGED Queue!tqVars
BY DEF Queue!tqVars

\* A task enters messages_.
LEMMA Accepts ==
  ASSUME IInv, ~destroyed, NEW t \in Tasks, fate[t] \in {"posting", "delayed"},
         messages' = Append(messages, t), fate' = [fate EXCEPT ![t] = "queued"],
         UNCHANGED <<wtask, destroyed>>
  PROVE  Queue!Accept(t)
<1>1. fate \in [Tasks -> Fates]
  BY DEF IInv, TypeOK
<1>2. \A i \in DOMAIN messages : messages[i] # t
  BY DEF IInv, Places, InMessages
<1>3. {u \in Tasks : fate'[u] \in {"running", "ran"}} = {u \in Tasks : fate[u] \in {"running", "ran"}}
  BY <1>1
<1> QED
  BY <1>2, <1>3 DEF Queue!Accept

\* Every step of the thread is a step of the contract, or none.
LEMMA StepRefines ==
  ASSUME IInv, [Next]_vars
  PROVE  [Queue!TQNext]_Queue!tqVars
<1> USE CallerFacts, CallTypes DEF IInv
<1> USE DEF queueVars, workerVars, callVars
<1>1. ASSUME NEW c \in Callers, PushMessage(c) PROVE Queue!TQNext
  <2>1. arg[c] \in Tasks /\ fate[arg[c]] = "posting" /\ ~destroyed
    BY <1>1 DEF PushMessage, Holding, Places, InHands, Posting, Roles
  <2> QED
    BY <1>1, <2>1, Accepts DEF PushMessage, Queue!TQNext
<1>2. ASSUME NEW t \in Tasks, MoveDue(t) PROVE Queue!TQNext
  <2>1. fate[t] = "delayed" /\ ~destroyed
    BY <1>2 DEF MoveDue, Top, Places, InDelayed, Roles
  <2> QED
    BY <1>2, <2>1, Accepts DEF MoveDue, Queue!TQNext
<1>3. CASE TakeMessage
  <2> DEFINE h == Head(messages)
  <2>1. h \in Tasks /\ fate[h] = "queued"
    BY <1>3, RemoveMessage DEF TakeMessage, Places
  <2>2. ~destroyed /\ wtask = NoTask
    BY <1>3 DEF TakeMessage, Roles, Places, AtWork
  <2>3. /\ messages # <<>> /\ messages' = Tail(messages)
        /\ wtask' = h /\ destroyed' = destroyed
        /\ fate' = [fate EXCEPT ![h] = "running"]
    BY <1>3 DEF TakeMessage
  <2>4. /\ h \notin {t \in Tasks : fate[t] \in {"running", "ran"}}
        /\ {t \in Tasks : fate'[t] \in {"running", "ran"}}
             = {t \in Tasks : fate[t] \in {"running", "ran"}} \cup {h}
    <3> HIDE DEF h
    <3> QED
      BY <2>1, <2>3
  <2> QED
    BY <2>2, <2>3, <2>4 DEF Queue!TQNext, Queue!Begin
<1>4. CASE FinishTask
  <2>1. wtask # NoTask /\ wtask \in Tasks /\ fate[wtask] = "running"
    BY <1>4 DEF FinishTask, Places, AtWork, TypeOK
  <2>2. {t \in Tasks : fate'[t] \in {"running", "ran"}}
          = {t \in Tasks : fate[t] \in {"running", "ran"}}
    BY <1>4, <2>1 DEF FinishTask
  <2> QED
    BY <1>4, <2>1, <2>2 DEF FinishTask, Queue!TQNext, Queue!End
<1>5. CASE DoDestroy
  <2>1. ~destroyed /\ wtask = NoTask
    BY <1>5 DEF DoDestroy, Roles, Places, AtWork
  <2>2. {t \in Tasks : fate'[t] \in {"running", "ran"}}
          = {t \in Tasks : fate[t] \in {"running", "ran"}}
    BY <1>5 DEF DoDestroy
  <2> QED
    BY <1>5, <2>1, <2>2 DEF DoDestroy, Queue!TQNext, Queue!Delete
<1>6. ASSUME NEW c \in Callers, NEW t \in Tasks,
             PostTask(c, t) \/ PostDelayedTask(c, t) \/ BlockingCall(c, t)
      PROVE  UNCHANGED Queue!tqVars
  <2>1. PICK f \in {"posting", "inline", "refused"} :
          fate[t] = "fresh" /\ fate' = [fate EXCEPT ![t] = f]
    BY <1>6 DEF PostTask, PostDelayedTask, BlockingCall
  <2> QED
    BY <1>6, <2>1, Stutter DEF PostTask, PostDelayedTask, BlockingCall
<1>7. ASSUME NEW c \in Callers, PushDelayed(c) \/ CallPost(c) PROVE UNCHANGED Queue!tqVars
  <2>1. arg[c] \in Tasks /\ fate[arg[c]] = "posting"
    BY <1>7 DEF PushDelayed, CallPost, Holding, Places, InHands, Posting
  <2>2. PICK f \in {"posting", "delayed", "refused"} : fate' = [fate EXCEPT ![arg[c]] = f]
    BY <1>7, <2>1 DEF PushDelayed, CallPost
  <2> QED
    BY <1>7, <2>1, <2>2, Stutter DEF PushDelayed, CallPost
<1>8. ASSUME NEW c \in Callers,
             \/ \E us \in Delays : StampDelayed(c, us)
             \/ WakeUp(c) \/ CallReturn(c) \/ Quit(c) \/ Restart(c)
      PROVE  UNCHANGED Queue!tqVars
  BY <1>8, Stutter DEF StampDelayed, WakeUp, CallReturn, Quit, Restart
<1>9. CASE Start \/ CreateThread \/ Stop \/ Join
  BY <1>9, Stutter DEF Start, CreateThread, Stop, Join
<1>10. CASE PreRun \/ ReadClock \/ LockQueues \/ FindNothing \/ CheckQuit \/ EndWait \/ Tick
  BY <1>10, Stutter
  DEF PreRun, ReadClock, LockQueues, FindNothing, CheckQuit, EndWait, Tick
<1>11. CASE UNCHANGED vars
  BY <1>11, Stutter DEF vars
<1> QED
  BY <1>1, <1>2, <1>3, <1>4, <1>5, <1>6, <1>7, <1>8, <1>9, <1>10, <1>11
  DEF Next, Begin, Continue, Control, Loop

\* The thread implements the contract of TaskQueueBase: FIFO, no overlap, at most
\* once, and nothing after Delete.
THEOREM Refinement == Spec => ImplementsTaskQueue
<1>1. Init => Queue!TQInit
  BY DEF Init, Queue!TQInit
<1> QED
  BY <1>1, StepRefines, Invariance, PTL
  DEF Spec, ImplementsTaskQueue, Queue!TQSpec

-----------------------------------------------------------------------------
(* Delayed tasks are never early, as long as the clock does not wrap. *)

\* The rounding of PostDelayedHighPrecisionTask is upward, also of negatives.
LEMMA RoundsUp ==
  ASSUME NEW us \in Int
  PROVE  us <= 1000 * DelayMs(us)
BY DEF DelayMs

\* The clock value that the loop uses is not ahead of the clock, ...
ClockRead == wcur <= now

\* ... a trigger time is not before the moment it stands for, ...
TriggerAfterDue == \A t \in Tasks : due[t] <= 1000 * run_time[t]

\* ... a message has its number only from when it is in the priority queue, ...
NumberedLate == \A t \in Tasks : fate[t] \in {"fresh", "posting"} => number[t] = -1

\* ... and leaves it when its trigger time has come.
ReadyAfterTrigger ==
  \A t \in Tasks :
    number[t] # -1 /\ fate[t] \in {"queued", "running", "ran"} => run_time[t] <= now

Timing == ClockRead /\ TriggerAfterDue /\ NumberedLate /\ ReadyAfterTrigger

\* What Timing needs of TypeOK.
LEMMA TimeTypes ==
  ASSUME TypeOK
  PROVE  /\ run_time \in [Tasks -> Int] /\ due \in [Tasks -> Int]
         /\ number \in [Tasks -> Int] /\ fate \in [Tasks -> Fates]
         /\ now \in Nat /\ wcur \in Nat /\ next_num \in Nat
         /\ \A c \in Callers : pc[c] \in Holding => arg[c] \in Tasks
BY ThreadAssumption DEF TypeOK, ThreadAssumption

\* No step makes a trigger time too early, or lets a message go before it.
LEMMA TimingStep ==
  ASSUME Wraps = FALSE, IInv, Timing, [Next]_vars
  PROVE  Timing'
<1> USE TimeTypes, CallTypes
    DEF IInv, Timing, ClockRead, TriggerAfterDue, NumberedLate, ReadyAfterTrigger,
        queueVars, workerVars, callVars
<1>1. ASSUME NEW c \in Callers, NEW us \in Delays, StampDelayed(c, us) PROVE Timing'
  <2>1. arg[c] \in Tasks /\ fate[arg[c]] = "posting"
    BY <1>1 DEF StampDelayed, Holding, Places, InHands, Posting
  <2> DEFINE r == now + DelayMs(us)
             d == 1000 * now + us
  <2>2. us \in Int /\ DelayMs(us) \in Int /\ r \in Int /\ d \in Int /\ d <= 1000 * r
    BY DelayMsInt, RoundsUp, ThreadAssumption DEF ThreadAssumption
  <2>3. run_time' = [run_time EXCEPT ![arg[c]] = r] /\ due' = [due EXCEPT ![arg[c]] = d]
    BY <1>1 DEF StampDelayed
  <2> HIDE DEF r, d
  <2> QED
    BY <1>1, <2>1, <2>2, <2>3 DEF StampDelayed
<1>2. ASSUME NEW c \in Callers, PushDelayed(c) PROVE Timing'
  BY <1>2 DEF PushDelayed, Holding
<1>3. ASSUME NEW c \in Callers, PushMessage(c) PROVE Timing'
  <2>1. arg[c] \in Tasks /\ fate[arg[c]] = "posting"
    BY <1>3 DEF PushMessage, Holding, Places, InHands, Posting
  <2> QED
    BY SMTT(30), <1>3, <2>1 DEF PushMessage
<1>4. ASSUME NEW t \in Tasks, MoveDue(t) PROVE Timing'
  BY <1>4 DEF MoveDue, Due
<1>5. CASE TakeMessage
  <2>1. Head(messages) \in Tasks /\ fate[Head(messages)] = "queued"
    BY <1>5, RemoveMessage DEF TakeMessage, Places
  <2> QED
    BY SMTT(30), <1>5, <2>1 DEF TakeMessage
<1>6. CASE FinishTask
  <2>1. wtask \in Tasks /\ fate[wtask] = "running"
    BY <1>6 DEF FinishTask, Places, AtWork, TypeOK
  <2> QED
    BY <1>6, <2>1 DEF FinishTask
<1>7. CASE DoDestroy
  BY <1>7 DEF DoDestroy
<1>8. ASSUME NEW c \in Callers, NEW t \in Tasks,
             PostTask(c, t) \/ PostDelayedTask(c, t) \/ BlockingCall(c, t)
      PROVE  Timing'
  <2>1. PICK f \in {"posting", "inline", "refused"} :
          fate[t] = "fresh" /\ fate' = [fate EXCEPT ![t] = f]
    BY <1>8 DEF PostTask, PostDelayedTask, BlockingCall
  <2> QED
    BY <1>8, <2>1 DEF PostTask, PostDelayedTask, BlockingCall
<1>9. ASSUME NEW c \in Callers, CallPost(c) PROVE Timing'
  BY <1>9 DEF CallPost, Holding
<1>10. ASSUME NEW c \in Callers, WakeUp(c) \/ CallReturn(c) \/ Quit(c) \/ Restart(c)
       PROVE  Timing'
  BY <1>10 DEF WakeUp, CallReturn, Quit, Restart
<1>11. CASE Start \/ CreateThread \/ Stop \/ Join
  BY <1>11 DEF Start, CreateThread, Stop, Join
<1>12. CASE PreRun \/ ReadClock \/ LockQueues \/ FindNothing \/ CheckQuit \/ EndWait
  BY <1>12 DEF PreRun, ReadClock, LockQueues, FindNothing, CheckQuit, EndWait
<1>13. CASE Tick
  BY <1>13 DEF Tick
<1>14. CASE UNCHANGED vars
  BY <1>14 DEF vars
<1> QED
  BY <1>1, <1>2, <1>3, <1>4, <1>5, <1>6, <1>7, <1>8, <1>9, <1>10, <1>11, <1>12,
     <1>13, <1>14
  DEF Next, Begin, Continue, Control, Loop

\* No delayed task is ready before its delay is over.
THEOREM NeverEarly ==
  ASSUME Wraps = FALSE
  PROVE  Spec => []NotEarly
<1>1. Init => Timing
  BY DEF Init, Timing, ClockRead, TriggerAfterDue, NumberedLate, ReadyAfterTrigger
<1>2. Timing /\ TypeOK => NotEarly
  BY TimeTypes DEF Timing, TriggerAfterDue, ReadyAfterTrigger, NotEarly
<1>3. IInv => TypeOK
  BY DEF IInv
<1>4. Wraps = FALSE
  OBVIOUS
<1>5. IInv /\ Timing /\ [Next]_vars => Timing'
  BY <1>4, TimingStep
<1> QED
  BY <1>1, <1>2, <1>3, <1>5, Invariance, PTL DEF Spec

-----------------------------------------------------------------------------
(* Delayed tasks keep their order, as long as the message number does not wrap: *)
(* fewer tasks are posted than the counter has values.                         *)

\* The tasks that were pushed with a delay.
Given == {t \in Tasks : number[t] # -1}

\* The counter counts them, and every number was given before.
Numbered ==
  /\ NumberedLate
  /\ \A t \in Tasks : -1 <= number[t] /\ number[t] < next_num
  /\ next_num = Cardinality(Given)

\* A delayed message takes a number greater than every other.
LEMMA CountsUp ==
  ASSUME IsFiniteSet(Tasks), Cardinality(Tasks) < NumMod, IInv, Numbered,
         NEW c \in Callers, PushDelayed(c)
  PROVE  Numbered'
<1>1. PICK a \in Tasks : a = arg[c] /\ fate[a] = "posting"
  BY DEF IInv, TypeOK, PushDelayed, Holding, Posting, Places, InHands
<1>2. /\ number \in [Tasks -> Int] /\ next_num \in Nat /\ NumMod \in Nat \ {0}
      /\ fate \in [Tasks -> Fates] /\ number[a] = -1
  BY <1>1, ThreadAssumption DEF ThreadAssumption, IInv, TypeOK, Numbered, NumberedLate
<1>3. number' = [number EXCEPT ![a] = next_num] /\ fate' = [fate EXCEPT ![a] = "delayed"]
  BY <1>1 DEF PushDelayed
<1>4. Given' = Given \cup {a} /\ a \notin Given /\ Given' \subseteq Tasks
  BY <1>1, <1>2, <1>3 DEF Given
<1>5. IsFiniteSet(Given) /\ Cardinality(Given) \in Nat
  <2>1. Given \subseteq Tasks
    BY DEF Given
  <2> QED
    BY <2>1, FS_Subset, FS_CardinalityType
<1>6. Cardinality(Given \cup {a}) =
        IF a \in Given THEN Cardinality(Given) ELSE Cardinality(Given) + 1
  BY <1>5, FS_AddElement
<1>7. Cardinality(Given') = Cardinality(Given) + 1
  BY <1>4, <1>6
<1>8. Cardinality(Given') <= Cardinality(Tasks) /\ Cardinality(Tasks) \in Nat
  BY <1>4, FS_Subset, FS_CardinalityType
<1>9. next_num' = next_num + 1
  <2>1. next_num + 1 \in 0 .. NumMod - 1
    BY <1>2, <1>5, <1>7, <1>8 DEF Numbered
  <2>2. (next_num + 1) % NumMod = next_num + 1
    BY <1>2, <2>1
  <2> QED
    BY <2>2 DEF PushDelayed, NextNum
<1>10. next_num' = Cardinality(Given')
  BY <1>7, <1>9 DEF Numbered
<1>11. \A t \in Tasks : -1 <= number'[t] /\ number'[t] < next_num'
  <2>1. ASSUME NEW t \in Tasks PROVE -1 <= number'[t] /\ number'[t] < next_num'
    <3>1. number'[t] = IF t = a THEN next_num ELSE number[t]
      BY <1>2, <1>3
    <3>2. number[t] \in Int /\ -1 <= number[t] /\ number[t] < next_num
      BY <1>2 DEF Numbered
    <3> QED
      BY <1>2, <1>9, <3>1, <3>2
  <2> QED
    BY <2>1
<1>12. NumberedLate'
  BY <1>1, <1>2, <1>3 DEF Numbered, NumberedLate
<1> QED
  BY <1>10, <1>11, <1>12 DEF Numbered

\* No other step gives a number, and no task returns to those who post it.
LEMMA NumberedStep ==
  ASSUME IsFiniteSet(Tasks), Cardinality(Tasks) < NumMod, IInv, Numbered, [Next]_vars
  PROVE  Numbered'
<1> USE DEF queueVars, workerVars, callVars
<1>1. ASSUME UNCHANGED <<number, next_num>>,
             \A t \in Tasks : fate'[t] \in {"fresh", "posting"} => fate[t] \in {"fresh", "posting"}
      PROVE  Numbered'
  BY <1>1 DEF Numbered, NumberedLate, Given
<1>2. fate \in [Tasks -> Fates]
  BY DEF IInv, TypeOK
<1>3. ASSUME NEW c \in Callers, PushDelayed(c) PROVE Numbered'
  BY <1>3, CountsUp
<1>4. ASSUME NEW c \in Callers, NEW t \in Tasks,
             PostTask(c, t) \/ PostDelayedTask(c, t) \/ BlockingCall(c, t)
      PROVE  Numbered'
  BY <1>1, <1>2, <1>4 DEF PostTask, PostDelayedTask, BlockingCall
<1>5. ASSUME NEW c \in Callers,
             \/ PushMessage(c) \/ (\E us \in Delays : StampDelayed(c, us))
             \/ WakeUp(c) \/ CallPost(c) \/ CallReturn(c) \/ Quit(c) \/ Restart(c)
      PROVE  Numbered'
  BY <1>1, <1>2, <1>5 DEF PushMessage, StampDelayed, WakeUp, CallPost, CallReturn, Quit, Restart
<1>6. ASSUME NEW t \in Tasks, MoveDue(t) PROVE Numbered'
  BY <1>1, <1>2, <1>6 DEF MoveDue
<1>7. CASE TakeMessage \/ FinishTask \/ DoDestroy
  BY <1>1, <1>2, <1>7 DEF TakeMessage, FinishTask, DoDestroy
<1>8. CASE Start \/ CreateThread \/ Stop \/ Join
  BY <1>1, <1>8 DEF Start, CreateThread, Stop, Join
<1>9. CASE PreRun \/ ReadClock \/ LockQueues \/ FindNothing \/ CheckQuit \/ EndWait \/ Tick
  BY <1>1, <1>9 DEF PreRun, ReadClock, LockQueues, FindNothing, CheckQuit, EndWait, Tick
<1>10. CASE UNCHANGED vars
  BY <1>1, <1>10 DEF vars
<1> QED
  BY <1>3, <1>4, <1>5, <1>6, <1>7, <1>8, <1>9, <1>10 DEF Next, Begin, Continue, Control, Loop

\* DelayedFifo, of two tasks.
Follows(t, u) ==
  number[t] # -1 /\ number[t] < number[u] /\ run_time[t] <= run_time[u] =>
    /\ fate[t] = "delayed" => fate[u] = "delayed"
    /\ \A i, j \in DOMAIN messages : messages[i] = t /\ messages[j] = u => i < j

\* A step that changes neither the queues nor the numbers keeps the order, whatever
\* becomes of a task that is not delayed.
LEMMA OrderKept ==
  ASSUME NEW t \in Tasks, NEW u \in Tasks, Follows(t, u),
         UNCHANGED <<messages, number, run_time>>,
         fate'[t] = "delayed" => fate[t] = "delayed",
         fate[u] = "delayed" => fate'[u] = "delayed"
  PROVE  Follows(t, u)'
BY DEF Follows

\* The delayed task that goes to messages_ is the first of the delayed, and goes to
\* the end.
LEMMA MoveKeepsOrder ==
  ASSUME IInv, Numbered, NEW t \in Tasks, NEW u \in Tasks, Follows(t, u),
         NEW x \in Tasks, MoveDue(x)
  PROVE  Follows(t, u)'
<1> USE DEF IInv, MoveDue, Follows
<1>1. /\ messages \in Seq(Tasks) /\ fate \in [Tasks -> Fates]
      /\ number \in [Tasks -> Int] /\ run_time \in [Tasks -> Int]
  BY DEF TypeOK
<1>2. fate[x] = "delayed" /\ fate' = [fate EXCEPT ![x] = "queued"]
  BY DEF Places, InDelayed, Top
<1> DEFINE n == Len(messages)
<1>3. /\ n \in Nat /\ DOMAIN messages = 1 .. n /\ DOMAIN messages' = 1 .. n + 1
      /\ messages'[n + 1] = x
      /\ \A i \in 1 .. n : messages'[i] = messages[i] /\ messages[i] # x
                           /\ fate[messages[i]] = "queued"
  BY <1>1, <1>2 DEF Places, InMessages
<1> HIDE DEF n
<1>4. SUFFICES ASSUME number[t] # -1, number[t] < number[u], run_time[t] <= run_time[u]
               PROVE  /\ fate'[t] = "delayed" => fate'[u] = "delayed"
                      /\ \A i, j \in DOMAIN messages' :
                           messages'[i] = t /\ messages'[j] = u => i < j
  OBVIOUS
<1>5. t # u /\ (fate[t] = "delayed" => u # x)
  <2>1. t # u
    BY <1>1, <1>4
  <2>2. ASSUME fate[t] = "delayed", u = x PROVE FALSE
    <3>1. t \in delayed /\ Before(t, x)
      BY <1>1, <1>4, <2>2 DEF Before, Places, InDelayed
    <3> QED
      BY <3>1 DEF Top
  <2> QED
    BY <2>1, <2>2
<1>6. fate'[t] = "delayed" => fate'[u] = "delayed"
  BY <1>1, <1>2, <1>4, <1>5
<1>7. ASSUME NEW i \in 1 .. n + 1, NEW j \in 1 .. n + 1, messages'[i] = t, messages'[j] = u
      PROVE  i < j
  <2>1. CASE i \in 1 .. n /\ j \in 1 .. n
    BY <1>3, <1>4, <1>7, <2>1
  <2>2. CASE i = n + 1
    <3>1. t = x /\ fate[u] = "delayed"
      BY <1>2, <1>3, <1>4, <1>7, <2>2
    <3>2. j \in 1 .. n
      BY <1>3, <1>5, <1>7, <2>2, <3>1
    <3> QED
      BY <1>3, <1>7, <3>1, <3>2
  <2>3. CASE i \in 1 .. n /\ j = n + 1
    BY <1>3, <2>3
  <2> QED
    BY <1>3, <2>1, <2>2, <2>3
<1> QED
  BY <1>3, <1>6, <1>7

\* The first message is taken: the others keep their order.
LEMMA TakeKeepsOrder ==
  ASSUME IInv, NEW t \in Tasks, NEW u \in Tasks, Follows(t, u), TakeMessage
  PROVE  Follows(t, u)'
<1> USE DEF IInv, TakeMessage, Follows
<1>1. messages \in Seq(Tasks) /\ messages # <<>> /\ fate \in [Tasks -> Fates]
  BY DEF TypeOK
<1> DEFINE n == Len(messages) - 1
<1>2. /\ n \in Nat /\ DOMAIN messages = 1 .. n + 1 /\ DOMAIN messages' = 1 .. n
      /\ \A i \in 1 .. n : messages'[i] = messages[i + 1]
      /\ Head(messages) \in Tasks
  BY <1>1
<1> HIDE DEF n
<1>3. fate[Head(messages)] = "queued"
  BY RemoveMessage DEF Places
<1>4. SUFFICES ASSUME number[t] # -1, number[t] < number[u], run_time[t] <= run_time[u]
               PROVE  /\ fate'[t] = "delayed" => fate'[u] = "delayed"
                      /\ \A i, j \in DOMAIN messages' :
                           messages'[i] = t /\ messages'[j] = u => i < j
  OBVIOUS
<1>5. fate'[t] = "delayed" => fate'[u] = "delayed"
  <2>1. fate' = [fate EXCEPT ![Head(messages)] = "running"]
    OBVIOUS
  <2>2. fate[t] = "delayed" => fate[u] = "delayed"
    BY <1>4
  <2> HIDE DEF TakeMessage, Follows
  <2> QED
    BY <1>1, <1>2, <1>3, <2>1, <2>2
<1>6. ASSUME NEW i \in 1 .. n, NEW j \in 1 .. n, messages'[i] = t, messages'[j] = u
      PROVE  i < j
  <2>1. i + 1 \in 1 .. n + 1 /\ j + 1 \in 1 .. n + 1
    BY <1>2
  <2>2. i + 1 < j + 1
    BY <1>2, <1>4, <1>6, <2>1
  <2> QED
    BY <2>2
<1> QED
  BY <1>2, <1>5, <1>6

\* A task enters messages_ or the delayed ones: it has no number, or the greatest.
LEMMA PushKeepsOrder ==
  ASSUME IInv, Numbered, Numbered', NEW t \in Tasks, NEW u \in Tasks, Follows(t, u),
         NEW c \in Callers,
         PushMessage(c) \/ PushDelayed(c) \/ \E us \in Delays : StampDelayed(c, us)
  PROVE  Follows(t, u)'
<1> USE DEF IInv, Numbered
<1>1. PICK a \in Tasks : a = arg[c] /\ fate[a] = "posting"
  BY DEF TypeOK, PushMessage, PushDelayed, StampDelayed, Holding, Posting, Places, InHands
<1>2. /\ messages \in Seq(Tasks) /\ fate \in [Tasks -> Fates] /\ number[a] = -1
      /\ number \in [Tasks -> Int] /\ run_time \in [Tasks -> Int] /\ next_num \in Nat
      /\ \A v \in Tasks : number[v] \in Int /\ -1 <= number[v] /\ number[v] < next_num
  BY <1>1 DEF TypeOK, NumberedLate
<1>3. CASE PushMessage(c)
  <2>1. CASE t = a \/ u = a
    <3>1. ~(number'[t] # -1 /\ number'[t] < number'[u])
      BY <1>2, <1>3, <2>1 DEF PushMessage
    <3> QED
      BY <3>1 DEF Follows
  <2>2. CASE t # a /\ u # a
    <3> DEFINE n == Len(messages)
    <3>1. /\ n \in Nat /\ DOMAIN messages = 1 .. n /\ DOMAIN messages' = 1 .. n + 1
          /\ messages'[n + 1] = a /\ \A i \in 1 .. n : messages'[i] = messages[i]
      BY <1>1, <1>2, <1>3 DEF PushMessage
    <3> HIDE DEF n
    <3>2. fate'[t] = fate[t] /\ fate'[u] = fate[u] /\ UNCHANGED <<number, run_time>>
      BY <1>1, <1>2, <1>3, <2>2 DEF PushMessage
    <3>3. \A i \in DOMAIN messages' :
            messages'[i] \in {t, u} => i \in DOMAIN messages /\ messages'[i] = messages[i]
      BY <2>2, <3>1
    <3> QED
      BY <3>2, <3>3 DEF Follows
  <2> QED
    BY <2>1, <2>2
<1>4. CASE PushDelayed(c)
  <2>1. /\ number' = [number EXCEPT ![a] = next_num] /\ fate' = [fate EXCEPT ![a] = "delayed"]
        /\ UNCHANGED <<messages, run_time>>
    BY <1>1, <1>4 DEF PushDelayed
  <2>2. CASE t = a
    <3>1. number'[t] = next_num /\ (number'[u] = next_num \/ number'[u] = number[u])
      BY <1>2, <2>1, <2>2
    <3>2. ~(number'[t] < number'[u])
      BY <1>2, <3>1
    <3> QED
      BY <3>2 DEF Follows
  <2>3. CASE t # a /\ u = a
    <3>1. \A j \in DOMAIN messages' : messages'[j] # u
      BY <1>1, <2>1, <2>3 DEF Places, InMessages
    <3>2. fate'[u] = "delayed"
      BY <1>2, <2>1, <2>3
    <3> QED
      BY <3>1, <3>2 DEF Follows
  <2>4. CASE t # a /\ u # a
    BY <1>2, <2>1, <2>4 DEF Follows
  <2> QED
    BY <2>2, <2>3, <2>4
<1>5. CASE \E us \in Delays : StampDelayed(c, us)
  <2>1. PICK r : run_time' = [run_time EXCEPT ![a] = r] /\ UNCHANGED <<messages, number, fate>>
    BY <1>1, <1>5 DEF StampDelayed
  <2>2. CASE t = a \/ u = a
    <3>1. ~(number'[t] # -1 /\ number'[t] < number'[u])
      BY <1>2, <2>1, <2>2
    <3> QED
      BY <3>1 DEF Follows
  <2>3. CASE t # a /\ u # a
    BY <1>2, <2>1, <2>3 DEF Follows
  <2> QED
    BY <2>2, <2>3
<1> QED
  BY <1>3, <1>4, <1>5

\* No step turns two delayed tasks round.
LEMMA OrderStep ==
  ASSUME IInv, Numbered, Numbered', NEW t \in Tasks, NEW u \in Tasks, Follows(t, u),
         [Next]_vars
  PROVE  Follows(t, u)'
<1> USE DEF queueVars, workerVars, callVars
<1>1. fate \in [Tasks -> Fates]
  BY DEF IInv, TypeOK
<1>2. ASSUME NEW c \in Callers,
             PushMessage(c) \/ PushDelayed(c) \/ \E us \in Delays : StampDelayed(c, us)
      PROVE  Follows(t, u)'
  BY <1>2, PushKeepsOrder
<1>3. ASSUME NEW x \in Tasks, MoveDue(x) PROVE Follows(t, u)'
  BY <1>3, MoveKeepsOrder
<1>4. CASE TakeMessage
  BY <1>4, TakeKeepsOrder
<1>5. ASSUME NEW c \in Callers, NEW x \in Tasks,
             PostTask(c, x) \/ PostDelayedTask(c, x) \/ BlockingCall(c, x)
      PROVE  Follows(t, u)'
  BY <1>1, <1>5, OrderKept DEF PostTask, PostDelayedTask, BlockingCall
<1>6. ASSUME NEW c \in Callers, CallPost(c) PROVE Follows(t, u)'
  <2>1. arg[c] \in Tasks /\ fate[arg[c]] = "posting"
    BY <1>6 DEF IInv, TypeOK, CallPost, Holding, Posting, Places, InHands
  <2> QED
    BY <1>1, <1>6, <2>1, OrderKept DEF CallPost
<1>7. CASE FinishTask
  <2>1. wtask \in Tasks /\ fate[wtask] = "running"
    BY <1>7 DEF FinishTask, IInv, Places, AtWork, TypeOK
  <2> QED
    BY <1>1, <1>7, <2>1, OrderKept DEF FinishTask
<1>8. CASE DoDestroy
  <2>1. fate'[t] # "delayed" /\ messages' = <<>>
    BY <1>8 DEF DoDestroy
  <2> QED
    BY <2>1 DEF Follows
<1>9. ASSUME NEW c \in Callers, WakeUp(c) \/ CallReturn(c) \/ Quit(c) \/ Restart(c)
      PROVE  Follows(t, u)'
  BY <1>9, OrderKept DEF WakeUp, CallReturn, Quit, Restart
<1>10. CASE Start \/ CreateThread \/ Stop \/ Join
  BY <1>10, OrderKept DEF Start, CreateThread, Stop, Join
<1>11. CASE PreRun \/ ReadClock \/ LockQueues \/ FindNothing \/ CheckQuit \/ EndWait \/ Tick
  BY <1>11, OrderKept DEF PreRun, ReadClock, LockQueues, FindNothing, CheckQuit, EndWait, Tick
<1>12. CASE UNCHANGED vars
  BY <1>12, OrderKept DEF vars
<1> QED
  BY <1>2, <1>3, <1>4, <1>5, <1>6, <1>7, <1>8, <1>9, <1>10, <1>11, <1>12
  DEF Next, Begin, Continue, Control, Loop

\* Delayed tasks are executed in the order of their trigger times, and with equal ones
\* in the order of posting, whatever the clock does.
THEOREM DelayedInOrder ==
  ASSUME IsFiniteSet(Tasks), Cardinality(Tasks) < NumMod
  PROVE  Spec => []DelayedFifo
<1> DEFINE Order == \A t, u \in Tasks : Follows(t, u)
<1>1. Init => Numbered /\ Order
  <2> SUFFICES ASSUME Init PROVE Numbered /\ Order
    OBVIOUS
  <2>1. Given = {}
    BY DEF Init, Given
  <2>2. Cardinality(Given) = 0
    BY <2>1, FS_EmptySet
  <2> QED
    BY <2>2 DEF Init, Numbered, NumberedLate, Follows
<1>2. IsFiniteSet(Tasks) /\ Cardinality(Tasks) < NumMod
  OBVIOUS
<1>3. IInv /\ Numbered /\ [Next]_vars => Numbered'
  BY <1>2, NumberedStep
<1>4. IInv /\ Numbered /\ Order /\ [Next]_vars => Numbered' /\ Order'
  BY <1>3, OrderStep
<1>5. Order => DelayedFifo
  BY DEF Follows, DelayedFifo
<1> HIDE DEF Order
<1> QED
  BY <1>1, <1>4, <1>5, Invariance, PTL DEF Spec
=============================================================================
