--------------------------- MODULE IdentityProofs ---------------------------
(***************************************************************************)
(* Theorems about ThreadIdentity: the worker always recognises itself, and *)
(* where the system gives no identifier twice nobody else is taken for it. *)
(***************************************************************************)
EXTENDS ThreadIdentity, FiniteSetTheorems, TLAPS

USE ThreadIdentityAssumption DEF ThreadIdentityAssumption

\* Threads have identifiers that were given, ...
Given == \A c \in Callers : id[c] # NoId => id[c] \in given

\* ... and they are where their roles allow them to be.
Roles ==
  /\ id[Owner] # NoId
  /\ \A c \in Callers : pc[c] # "idle" => id[c] # NoId
  /\ \A c \in Callers : pc[c] \in {"create", "join"} => c = Owner
  /\ pc[Owner] = "create" => ~thread
  /\ pc[Owner] = "join" => thread
  /\ wpc = "none" <=> ~thread
  /\ pc[Worker] # "idle" => wpc = "task"
  /\ pc[Worker] \in {"idle", "current", "inline"}
  /\ wpc \in {"loop", "task", "exited"} => cur_thread_id = id[Worker]

Known == TypeOK /\ Given /\ Roles

\* The invariant holds at first,
LEMMA KnownInit == Init => Known
<1> SUFFICES ASSUME Init PROVE Known
  OBVIOUS
<1>1. PICK i \in Ids :
        id = [c \in Callers |-> IF c = Owner THEN i ELSE NoId] /\ given = {i}
  BY DEF Init
<1>2. TypeOK
  <2>1. id \in [Callers -> Ids \cup {NoId}] /\ given \subseteq Ids
    BY <1>1
  <2>2. \A c, d \in Callers : id[c] = id[d] /\ id[c] # NoId => c = d
    BY <1>1
  <2>3. queue \in Seq(Clients \cup {Post}) /\ pc \in [Callers -> {"idle"}]
    BY DEF Init
  <2>4. id[Worker] = NoId
    BY <1>1 DEF Callers
  <2> QED
    BY <1>1, <2>1, <2>2, <2>3, <2>4 DEF Init, TypeOK
<1>3. Given /\ Roles
  BY <1>1 DEF Init, Given, Roles, Callers
<1> QED
  BY <1>2, <1>3 DEF Known

\* A new identifier is nobody's.
LEMMA FreeIsNew ==
  ASSUME TypeOK, Given, NEW i \in Free
  PROVE  i \in Ids /\ i # NoId /\ \A c \in Callers : id[c] # i
BY DEF TypeOK, Given, Free

\* every step keeps types and the difference of identifiers,
LEMMA TypeStep ==
  ASSUME Known, [Next]_vars
  PROVE  TypeOK'
<1> USE DEF Known, TypeOK, Callers
<1>1. ASSUME NEW c \in Clients, Appear(c) PROVE TypeOK'
  <2>1. PICK i \in Free : id' = [id EXCEPT ![c] = i] /\ given' = given \cup {i}
    BY <1>1 DEF Appear, Assign
  <2>2. i \in Ids /\ i # NoId /\ \A d \in Callers : id[d] # i
    BY <2>1, FreeIsNew
  <2> QED
    BY <1>1, <2>1, <2>2 DEF Appear
<1>2. ASSUME NEW c \in Clients, Vanish(c) PROVE TypeOK'
  BY <1>2 DEF Vanish
<1>3. ASSUME NEW c \in Callers, PostTask(c) PROVE TypeOK'
  BY <1>3 DEF PostTask, osVars
<1>4. ASSUME NEW c \in Callers, BlockingCall(c) \/ TestCurrent(c) \/ ReturnInline(c)
      PROVE  TypeOK'
  BY <1>4 DEF BlockingCall, TestCurrent, ReturnInline, Goto, osVars
<1>5. ASSUME NEW c \in Callers, PostFunctor(c) PROVE TypeOK'
  <2>1. c \in Clients
    BY <1>5 DEF PostFunctor, Roles
  <2> QED
    BY <1>5, <2>1 DEF PostFunctor, Goto, osVars
<1>6. CASE Start \/ Stop
  <2>1. pc' \in [Callers -> {"idle", "current", "post", "await", "inline", "create", "join"}]
    BY <1>6 DEF Start, Stop, Goto
  <2>2. /\ UNCHANGED <<id, given, cur_thread_id, thread, queue, wpc, wtask>>
        /\ stop' \in BOOLEAN
    BY <1>6 DEF Start, Stop, osVars
  <2> QED
    BY <2>1, <2>2
<1>7. CASE CreateThread
  <2>1. PICK i \in Free : id' = [id EXCEPT ![Worker] = i] /\ given' = given \cup {i}
    BY <1>7 DEF CreateThread, Assign
  <2>2. i \in Ids /\ i # NoId /\ \A d \in Callers : id[d] # i
    BY <2>1, FreeIsNew
  <2> QED
    BY <1>7, <2>1, <2>2 DEF CreateThread, Goto
<1>8. CASE Join
  BY <1>8 DEF Join, Goto
<1>9. CASE PreRun
  BY <1>9 DEF PreRun, osVars, Roles, Given
<1>10. CASE Take
  BY <1>10 DEF Take, osVars
<1>11. CASE Finish \/ Exit
  BY <1>11 DEF Finish, Exit, osVars
<1>12. CASE UNCHANGED vars
  BY <1>12 DEF vars, osVars
<1> QED
  BY <1>1, <1>2, <1>3, <1>4, <1>5, <1>6, <1>7, <1>8, <1>9, <1>10, <1>11, <1>12
  DEF Next, Use, Control, Loop

\* every living thread has an identifier that was given,
LEMMA GivenStep ==
  ASSUME Known, [Next]_vars
  PROVE  Given'
<1> USE DEF Known, TypeOK, Given, Callers
<1>1. ASSUME NEW c \in Callers, Assign(c) PROVE Given'
  BY <1>1 DEF Assign
<1>2. ASSUME NEW c \in Clients, Vanish(c) PROVE Given'
  BY <1>2 DEF Vanish
<1>3. CASE Join
  BY <1>3 DEF Join
<1>4. CASE UNCHANGED osVars
  BY <1>4 DEF osVars
<1> QED
  BY <1>1, <1>2, <1>3, <1>4
  DEF Next, Appear, Use, PostTask, BlockingCall, TestCurrent, PostFunctor, ReturnInline,
      Control, Start, CreateThread, Stop, Loop, PreRun, Take, Finish, Exit, vars, osVars

\* and the worker and the owner are where their states say.
LEMMA RolesStep ==
  ASSUME Known, [Next]_vars
  PROVE  Roles'
<1> USE DEF Known, TypeOK, Roles, Callers
<1>1. ASSUME NEW c \in Clients, Appear(c) PROVE Roles'
  <2>1. PICK i \in Free : id' = [id EXCEPT ![c] = i]
    BY <1>1 DEF Appear, Assign
  <2>2. i # NoId
    BY <2>1, FreeIsNew
  <2> QED
    BY <1>1, <2>1, <2>2 DEF Appear
<1>2. ASSUME NEW c \in Clients, Vanish(c) PROVE Roles'
  BY <1>2 DEF Vanish
<1>3. ASSUME NEW c \in Callers, PostTask(c) PROVE Roles'
  BY <1>3 DEF PostTask, osVars
<1>4. ASSUME NEW c \in Callers, BlockingCall(c) PROVE Roles'
  BY <1>4 DEF BlockingCall, MayCall, Goto, osVars
<1>5. ASSUME NEW c \in Callers, TestCurrent(c) PROVE Roles'
  BY <1>5 DEF TestCurrent, IsCurrent, Goto, osVars
<1>6. ASSUME NEW c \in Callers, PostFunctor(c) \/ ReturnInline(c) PROVE Roles'
  BY <1>6 DEF PostFunctor, ReturnInline, Goto, osVars
<1>7. CASE Start \/ Stop
  BY <1>7 DEF Start, Stop, MayCall, Goto, osVars
<1>8. CASE CreateThread
  <2>1. PICK i \in Free : id' = [id EXCEPT ![Worker] = i]
    BY <1>8 DEF CreateThread, Assign
  <2>2. i # NoId
    BY <2>1, FreeIsNew
  <2> QED
    BY <1>8, <2>1, <2>2 DEF CreateThread, Goto
<1>9. CASE Join
  BY <1>9 DEF Join, Goto
<1>10. CASE PreRun \/ Take \/ Exit
  BY <1>10 DEF PreRun, Take, Exit, osVars
<1>11. CASE Finish
  BY <1>11 DEF Finish, osVars
<1>12. CASE UNCHANGED vars
  BY <1>12 DEF vars, osVars
<1> QED
  BY <1>1, <1>2, <1>3, <1>4, <1>5, <1>6, <1>7, <1>8, <1>9, <1>10, <1>11, <1>12
  DEF Next, Use, Control, Loop

\* So it holds for ever, whether identifiers are reused or not.
LEMMA AlwaysKnown == Spec => []Known
<1>1. Known /\ [Next]_vars => Known'
  BY TypeStep, GivenStep, RolesStep DEF Known
<1> QED
  BY KnownInit, <1>1, PTL DEF Spec

\* Every state is well typed; in particular threads that exist at the same time have
\* different identifiers, and the worker has one as long as its handle is open.
THEOREM IdentityTypes == Spec => []TypeOK
<1>1. Known => TypeOK
  BY DEF Known
<1> QED
  BY <1>1, AlwaysKnown, PTL

\* The worker never waits for itself in BlockingCall, whether or not the system
\* gives identifiers twice, and however often the thread is started again.
THEOREM SelfRecognised == Spec => []WorkerDoesNotWait
<1>1. Known => WorkerDoesNotWait
  BY DEF Known, Roles, WorkerDoesNotWait
<1> QED
  BY <1>1, AlwaysKnown, PTL

-----------------------------------------------------------------------------
\* No client has the identifier that is stored, and so none executes a functor.
NobodyElse ==
  \A c \in Clients : (id[c] # NoId => id[c] # cur_thread_id) /\ pc[c] # "inline"

\* If none is reused, a client never has the identifier in cur_thread_id_: it may
\* hold that of a worker that is gone, which nobody will ever have again.
LEMMA NobodyElseStep ==
  ASSUME Recycle = FALSE, Known, NobodyElse, [Next]_vars
  PROVE  NobodyElse'
<1> USE DEF Known, TypeOK, Roles, NobodyElse, Callers
<1>1. ASSUME NEW c \in Clients, Appear(c) PROVE NobodyElse'
  <2>1. PICK i \in Free : id' = [id EXCEPT ![c] = i]
    BY <1>1 DEF Appear, Assign
  <2>2. i \notin given /\ i # NoId
    BY <2>1 DEF Free
  <2> QED
    BY <1>1, <2>1, <2>2 DEF Appear
<1>2. ASSUME NEW c \in Clients, Vanish(c) PROVE NobodyElse'
  BY <1>2 DEF Vanish
<1>3. ASSUME NEW c \in Callers, PostTask(c) PROVE NobodyElse'
  BY <1>3 DEF PostTask, osVars
<1>4. ASSUME NEW c \in Callers, TestCurrent(c) PROVE NobodyElse'
  BY <1>4 DEF TestCurrent, IsCurrent, Goto, osVars
<1>5. ASSUME NEW c \in Callers, BlockingCall(c) \/ PostFunctor(c) \/ ReturnInline(c)
      PROVE  NobodyElse'
  BY <1>5 DEF BlockingCall, PostFunctor, ReturnInline, Goto, osVars
<1>6. CASE Start \/ Stop \/ Join
  BY <1>6 DEF Start, Stop, Join, Goto, osVars
<1>7. CASE CreateThread
  BY <1>7 DEF CreateThread, Assign, Goto
<1>8. CASE PreRun
  <2>1. \A c \in Clients : id[c] # NoId => id[c] # id[Worker]
    OBVIOUS
  <2> QED
    BY <1>8, <2>1 DEF PreRun, osVars
<1>9. CASE Take \/ Finish \/ Exit
  BY <1>9 DEF Take, Finish, Exit, osVars
<1>10. CASE UNCHANGED vars
  BY <1>10 DEF vars, osVars
<1> QED
  BY <1>1, <1>2, <1>3, <1>4, <1>5, <1>6, <1>7, <1>8, <1>9, <1>10
  DEF Next, Use, Control, Loop

\* Tasks of the object never overlap, if the system gives no identifier twice.
THEOREM NoOverlap ==
  ASSUME Recycle = FALSE
  PROVE  Spec => []TasksDoNotOverlap
<1>1. Init => NobodyElse
  BY DEF Init, NobodyElse, Callers
<1>2. NobodyElse => TasksDoNotOverlap
  <2>1. SUFFICES ASSUME NobodyElse PROVE Cardinality(Executing) <= 1
    BY DEF TasksDoNotOverlap
  <2>2. Executing = {} \/ Executing = {Worker}
    BY <2>1 DEF Executing, NobodyElse
  <2> QED
    BY <2>2, FS_EmptySet, FS_Singleton
<1>3. Recycle = FALSE
  OBVIOUS
<1>4. Known /\ NobodyElse /\ [Next]_vars => NobodyElse'
  BY <1>3, NobodyElseStep
<1> QED
  BY <1>1, <1>2, <1>4, AlwaysKnown, PTL DEF Spec
=============================================================================
