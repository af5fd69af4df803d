----------------------------- MODULE BusProofs ------------------------------
(***************************************************************************)
(* Theorems about EventBus and its composition with Thread: no handler is  *)
(* called that is gone, and every event reaches every handler, for any     *)
(* number of threads, handlers and types of event.                         *)
(***************************************************************************)
EXTENDS BusThreads, SequenceTheorems, FiniteSetTheorems, TLAPS

USE EventBusAssumption DEF EventBusAssumption

-----------------------------------------------------------------------------
(* The bus. *)

\* Where h is registered for ty, ...
Places(s, h) == {i \in 1 .. Len(s) : s[i] = h}

\* ... which is as often as held says; and who is registered exists.
Registered ==
  \A h \in Handlers, ty \in Types :
    /\ held[h][ty] = Cardinality(Places(handlers[ty], h))
    /\ held[h][ty] > 0 => h \in alive

\* There is room for those who are about to register, ...
Adding(ty) == {d \in Threads : pc[d] = "add" /\ type[d] = ty}

Room == \A ty \in Types : Len(handlers[ty]) + Cardinality(Adding(ty)) <= MaxHolders

\* ... which they do for an object that they own and that exists.
TargetsExist ==
  \A c \in Threads : pc[c] \in {"add", "remove"} =>
    target[c] \in alive /\ OwnerOf(target[c]) = c

\* The holders to which c has dispatched its event.
Reached(c) == IF pc[c] = "onEvent" THEN next[c] ELSE next[c] - 1

\* A sender that holds the mutex has dispatched to the first holders, in their order.
Dispatching ==
  \A c \in Threads :
    /\ pc[c] \in {"loop", "onEvent"} =>
         /\ Reached(c) = Len(seen[c]) /\ Reached(c) <= Len(handlers[type[c]])
         /\ \A i \in 1 .. Len(seen[c]) : seen[c][i] = handlers[type[c]][i]
    /\ IF pc[c] = "onEvent" THEN running[c] = handlers[type[c]][next[c]]
                            ELSE running[c] = NoHandler

BusInv == TypeOK /\ Registered /\ Room /\ TargetsExist /\ Dispatching

-----------------------------------------------------------------------------
(* The list of holders. *)

\* A set of numbers that is not empty has a smallest.
LEMMA SmallestIs ==
  ASSUME NEW S \in SUBSET Nat, S # {}
  PROVE  Min(S) \in S /\ \A n \in S : Min(S) <= n
<1> DEFINE Up == {1 .. n : n \in S}
<1>1. Up \subseteq FiniteSubsetsOf(Nat) /\ Up # {}
  <2>1. ASSUME NEW n \in S PROVE 1 .. n \in SUBSET Nat /\ IsFiniteSet(1 .. n)
    <3>1. 1 \in Int /\ n \in Int /\ 1 .. n \in SUBSET Nat
      OBVIOUS
    <3> QED
      BY <3>1, FS_Interval
  <2> QED
    BY <2>1 DEF FiniteSubsetsOf
<1>2. PICK x \in Up : \A y \in Up : <<y, x>> \notin StrictSubsetOrdering(Nat)
  BY <1>1, FS_StrictSubsetOrderingWellFounded, WFMin
<1>3. PICK m \in S : x = 1 .. m
  OBVIOUS
<1>4. ASSUME NEW n \in S, n < m PROVE FALSE
  <2>1. 1 .. n \in Up /\ 1 .. n \subseteq 1 .. m /\ m \in 1 .. m /\ m \notin 1 .. n
    BY <1>4
  <2>2. <<1 .. n, x>> \in StrictSubsetOrdering(Nat)
    BY <1>1, <1>3, <2>1 DEF StrictSubsetOrdering
  <2> QED
    BY <1>2, <2>1, <2>2
<1>5. \A n \in S : m <= n
  BY <1>4
<1> QED
  BY <1>5 DEF Min

\* Without leaves out the oldest holder of h, and nothing else.
LEMMA WithoutIs ==
  ASSUME NEW S, NEW s \in Seq(S), NEW h
  PROVE  IF Places(s, h) = {} THEN Without(s, h) = s
         ELSE \E k \in Places(s, h) :
                /\ \A i \in Places(s, h) : k <= i
                /\ Without(s, h) \in Seq(S) /\ Len(Without(s, h)) = Len(s) - 1
                /\ \A i \in 1 .. Len(s) - 1 :
                     Without(s, h)[i] = IF i < k THEN s[i] ELSE s[i + 1]
<1>1. CASE Places(s, h) = {}
  BY <1>1 DEF Places, Without, RemoveFirst
<1>2. CASE Places(s, h) # {}
  <2> DEFINE k == Min(Places(s, h))
  <2>1. k \in Places(s, h) /\ \A i \in Places(s, h) : k <= i
    <3>1. Places(s, h) \in SUBSET Nat
      BY DEF Places
    <3> QED
      BY <1>2, <3>1, SmallestIs
  <2>2. SelectInSeq(s, LAMBDA v : v = h) = k
    BY <1>2 DEF SelectInSeq, Places
  <2>3. Without(s, h) = SubSeq(s, 1, k - 1) \o SubSeq(s, k + 1, Len(s))
    BY <1>2, <2>2 DEF Places, Without, RemoveFirst, RemoveAt
  <2> HIDE DEF k
  <2>4. k \in 1 .. Len(s) /\ Len(s) \in Nat
    BY <2>1 DEF Places
  <2>5. /\ SubSeq(s, 1, k - 1) \in Seq(S) /\ Len(SubSeq(s, 1, k - 1)) = k - 1
        /\ \A i \in 1 .. k - 1 : SubSeq(s, 1, k - 1)[i] = s[i]
    BY <2>4, SubSeqProperties
  <2>6. /\ SubSeq(s, k + 1, Len(s)) \in Seq(S) /\ Len(SubSeq(s, k + 1, Len(s))) = Len(s) - k
        /\ \A i \in 1 .. Len(s) - k : SubSeq(s, k + 1, Len(s))[i] = s[k + i]
    BY <2>4, SubSeqProperties
  <2>7. /\ Without(s, h) \in Seq(S) /\ Len(Without(s, h)) = Len(s) - 1
        /\ \A i \in 1 .. Len(s) - 1 :
             Without(s, h)[i] = IF i < k THEN s[i] ELSE s[i + 1]
    <3> DEFINE a == SubSeq(s, 1, k - 1)
               b == SubSeq(s, k + 1, Len(s))
    <3>1. a \in Seq(S) /\ Len(a) = k - 1 /\ \A i \in 1 .. k - 1 : a[i] = s[i]
      BY <2>5
    <3>2. b \in Seq(S) /\ Len(b) = Len(s) - k /\ \A i \in 1 .. Len(s) - k : b[i] = s[k + i]
      BY <2>6
    <3>3. Without(s, h) = a \o b
      BY <2>3
    <3> HIDE DEF a, b
    <3>4. /\ a \o b \in Seq(S) /\ Len(a \o b) = Len(a) + Len(b)
          /\ \A i \in 1 .. Len(a) + Len(b) :
               (a \o b)[i] = IF i <= Len(a) THEN a[i] ELSE b[i - Len(a)]
      BY <3>1, <3>2, ConcatProperties
    <3>5. Len(a) + Len(b) = Len(s) - 1
      BY <3>1, <3>2, <2>4
    <3>6. ASSUME NEW i \in 1 .. Len(s) - 1
          PROVE  (a \o b)[i] = IF i < k THEN s[i] ELSE s[i + 1]
      <4>1. CASE i < k
        BY <4>1, <2>4, <3>1, <3>4, <3>5
      <4>2. CASE i >= k
        <5>1. i - Len(a) \in 1 .. Len(s) - k /\ k + (i - Len(a)) = i + 1 /\ ~(i <= Len(a))
          BY <4>2, <2>4, <3>1
        <5> QED
          BY <4>2, <5>1, <2>4, <3>2, <3>4, <3>5
      <4>3. i < k \/ i >= k
        BY <2>4
      <4> QED
        BY <4>1, <4>2, <4>3
    <3> QED
      BY <3>3, <3>4, <3>5, <3>6
  <2> QED
    BY <1>2, <2>1, <2>7
<1> QED
  BY <1>1, <1>2

\* The places of a handler in the list are finitely many,
LEMMA PlacesFinite ==
  ASSUME NEW S, NEW s \in Seq(S), NEW h
  PROVE  IsFiniteSet(Places(s, h)) /\ Cardinality(Places(s, h)) \in Nat
         /\ Cardinality(Places(s, h)) <= Len(s)
<1>1. Places(s, h) \subseteq 1 .. Len(s) /\ Len(s) \in Nat
  BY DEF Places
<1>2. IsFiniteSet(1 .. Len(s)) /\ Cardinality(1 .. Len(s)) = Len(s)
  <2>1. Len(s) \in Int /\ 1 \in Int
    BY <1>1
  <2>2. /\ IsFiniteSet(1 .. Len(s))
        /\ Cardinality(1 .. Len(s)) = IF 1 > Len(s) THEN 0 ELSE Len(s) - 1 + 1
    BY <2>1, FS_Interval
  <2> QED
    BY <1>1, <2>2
<1> QED
  BY <1>1, <1>2, FS_Subset, FS_CardinalityType

\* one more when it registers,
LEMMA PlacesAppend ==
  ASSUME NEW S, NEW s \in Seq(S), NEW g \in S, NEW h
  PROVE  Cardinality(Places(Append(s, g), h)) =
           Cardinality(Places(s, h)) + (IF g = h THEN 1 ELSE 0)
<1>1. Len(s) \in Nat /\ Len(s) + 1 \notin Places(s, h)
  BY DEF Places
<1>2. Places(Append(s, g), h) = IF g = h THEN Places(s, h) \cup {Len(s) + 1} ELSE Places(s, h)
  BY DEF Places
<1>3. IsFiniteSet(Places(s, h)) /\ Cardinality(Places(s, h)) \in Nat
  BY PlacesFinite
<1>4. Cardinality(Places(s, h) \cup {Len(s) + 1}) =
        IF Len(s) + 1 \in Places(s, h)
          THEN Cardinality(Places(s, h)) ELSE Cardinality(Places(s, h)) + 1
  BY <1>3, FS_AddElement
<1> QED
  BY <1>1, <1>2, <1>3, <1>4

\* and one less when it deregisters.
LEMMA PlacesWithout ==
  ASSUME NEW S, NEW s \in Seq(S), NEW g, NEW h
  PROVE  Cardinality(Places(Without(s, g), h)) =
           Cardinality(Places(s, h)) - (IF g = h /\ Places(s, h) # {} THEN 1 ELSE 0)
<1>1. CASE Places(s, g) = {}
  BY <1>1, WithoutIs, PlacesFinite
<1>2. CASE Places(s, g) # {}
  <2> DEFINE w == Without(s, g)
  <2>1. PICK k \in Places(s, g) :
          /\ w \in Seq(S) /\ Len(w) = Len(s) - 1
          /\ \A i \in 1 .. Len(s) - 1 : w[i] = IF i < k THEN s[i] ELSE s[i + 1]
    BY <1>2, WithoutIs
  <2> HIDE DEF w
  <2>2. k \in 1 .. Len(s) /\ s[k] = g /\ Len(s) \in Nat
    BY <2>1 DEF Places
  <2> DEFINE Rest == Places(s, h) \ {k}
             f == [i \in Places(w, h) |-> IF i < k THEN i ELSE i + 1]
  <2>3. \A i \in Places(w, h) : f[i] \in Rest
    BY <2>1, <2>2 DEF Places
  <2>4. f \in Injection(Places(w, h), Rest)
    <3>1. \A i, j \in Places(w, h) : f[i] = f[j] => i = j
      BY <2>2 DEF Places
    <3> QED
      BY <2>3, <3>1 DEF Injection, IsInjective
  <2>5. ASSUME NEW j \in Rest PROVE \E i \in Places(w, h) : f[i] = j
    <3>1. CASE j < k
      <4>1. j \in Places(w, h)
        BY <2>1, <2>2, <3>1 DEF Places
      <4> QED
        BY <3>1, <4>1
    <3>2. CASE j > k
      <4>1. j - 1 \in Places(w, h)
        BY <2>1, <2>2, <3>2 DEF Places
      <4>2. f[j - 1] = j
        BY <2>2, <3>2, <4>1 DEF Places
      <4> QED
        BY <4>1, <4>2
    <3> QED
      BY <2>2, <3>1, <3>2 DEF Places
  <2>6. f \in Bijection(Places(w, h), Rest)
    BY <2>4, <2>5 DEF Bijection, Surjection, Injection
  <2>7. Cardinality(Places(w, h)) = Cardinality(Rest)
    <3>1. ExistsBijection(Places(w, h), Rest)
      BY <2>6 DEF ExistsBijection
    <3> QED
      BY <2>1, <3>1, PlacesFinite, FS_Bijection
  <2>8. Cardinality(Rest) =
          IF k \in Places(s, h) THEN Cardinality(Places(s, h)) - 1 ELSE Cardinality(Places(s, h))
    BY PlacesFinite, FS_RemoveElement
  <2>9. k \in Places(s, h) <=> g = h
    BY <2>2 DEF Places
  <2>10. Cardinality(Places(s, h)) \in Nat
    BY PlacesFinite
  <2> QED
    BY <1>2, <2>7, <2>8, <2>9, <2>10 DEF w
<1> QED
  BY <1>1, <1>2

-----------------------------------------------------------------------------
(* The invariant. *)

\* Those who are about to register are finitely many.
LEMMA AddingFinite ==
  ASSUME NEW ty
  PROVE  IsFiniteSet(Adding(ty)) /\ Cardinality(Adding(ty)) \in Nat
<1>1. Adding(ty) \subseteq Threads
  BY DEF Adding
<1> QED
  BY <1>1, FS_Subset, FS_CardinalityType

\* The bound holds for those who have registered alone.
LEMMA InRoom ==
  ASSUME TypeOK, Room, NEW ty \in Types
  PROVE  /\ handlers[ty] \in Seq(Handlers) /\ Len(handlers[ty]) \in 0 .. MaxHolders
         /\ DOMAIN handlers[ty] = 1 .. Len(handlers[ty])
<1>1. handlers[ty] \in Seq(Handlers)
  BY DEF TypeOK
<1>2. Len(handlers[ty]) \in Nat /\ DOMAIN handlers[ty] = 1 .. Len(handlers[ty])
  BY <1>1
<1> QED
  BY <1>1, <1>2, AddingFinite DEF Room

\* There is room as long as nobody registers or is about to.
LEMMA RoomStays ==
  ASSUME TypeOK, Room, handlers' = handlers,
         \A ty \in Types : Adding(ty)' \subseteq Adding(ty)
  PROVE  Room'
<1>1. ASSUME NEW ty \in Types
      PROVE  Len(handlers'[ty]) + Cardinality(Adding(ty)') <= MaxHolders
  <2>1. Cardinality(Adding(ty)') \in Nat /\ Cardinality(Adding(ty)') <= Cardinality(Adding(ty))
    BY AddingFinite, FS_Subset, FS_CardinalityType
  <2>2. Cardinality(Adding(ty)) \in Nat
    BY AddingFinite
  <2>3. Len(handlers[ty]) \in Nat /\ Len(handlers[ty]) + Cardinality(Adding(ty)) <= MaxHolders
    BY InRoom DEF Room
  <2> QED
    BY <2>1, <2>2, <2>3
<1> QED
  BY <1>1 DEF Room

\* At first nobody is registered and nobody calls.
LEMMA BusInit == Init => BusInv
<1> SUFFICES ASSUME Init PROVE BusInv
  OBVIOUS
<1>1. TypeOK
  BY DEF Init, TypeOK
<1>2. Registered
  <2>1. ASSUME NEW h \in Handlers, NEW ty \in Types PROVE Cardinality(Places(handlers[ty], h)) = 0
    <3>1. Places(handlers[ty], h) = {}
      BY DEF Init, Places
    <3> QED
      BY <3>1, FS_EmptySet
  <2> QED
    BY <2>1 DEF Init, Registered
<1>3. Room
  <2>1. ASSUME NEW ty PROVE Cardinality(Adding(ty)) = 0
    <3>1. Adding(ty) = {}
      BY DEF Init, Adding
    <3> QED
      BY <3>1, FS_EmptySet
  <2> QED
    BY <2>1 DEF Init, Room
<1>4. TargetsExist /\ Dispatching
  BY DEF Init, TargetsExist, Dispatching
<1> QED
  BY <1>1, <1>2, <1>3, <1>4 DEF BusInv

\* An object is created: nothing else changes.
LEMMA CreateStep ==
  ASSUME BusInv, NEW c \in Threads, NEW h \in Handlers, Create(c, h)
  PROVE  BusInv'
<1> USE DEF BusInv, Create, callVars
<1>1. TypeOK'
  BY DEF TypeOK
<1>2. Registered'
  BY DEF Registered
<1>3. Room'
  BY RoomStays DEF Adding
<1>4. TargetsExist'
  BY DEF TargetsExist
<1>5. Dispatching'
  BY DEF Dispatching, Reached
<1> QED
  BY <1>1, <1>2, <1>3, <1>4, <1>5

\* An object that is destroyed is not registered, and its thread calls nobody for it.
LEMMA DestroyStep ==
  ASSUME BusInv, NEW c \in Threads, NEW h \in Handlers, Destroy(c, h)
  PROVE  BusInv'
<1> USE DEF BusInv, Destroy, callVars
<1>1. TypeOK'
  BY DEF TypeOK
<1>2. Registered'
  BY DEF Registered
<1>3. Room'
  BY RoomStays DEF Adding
<1>4. TargetsExist'
  BY DEF TargetsExist
<1>5. Dispatching'
  BY DEF Dispatching, Reached
<1> QED
  BY <1>1, <1>2, <1>3, <1>4, <1>5

\* A call begins: the thread holds no mutex, and is about to register only if there is
\* room.
LEMMA CallStep ==
  ASSUME BusInv, NEW c \in Threads, NEW p \in {"add", "remove", "send"}, NEW ty \in Types,
         NEW h \in Handlers \cup {NoHandler}, Call(c, p, ty, h),
         p \in {"add", "remove"} => h \in alive /\ OwnerOf(h) = c,
         p = "add" => Len(handlers[ty]) + Cardinality({d \in Threads : pc[d] = "add"}) < MaxHolders
  PROVE  BusInv'
<1> USE DEF BusInv, Call, Goto
<1>1. TypeOK'
  BY DEF TypeOK
<1>2. Registered'
  BY DEF Registered
<1>3. Room'
  <2>1. CASE p = "add"
    <3> DEFINE All == {d \in Threads : pc[d] = "add"}
    <3>1. \A t \in Types \ {ty} : Adding(t)' = Adding(t)
      BY <2>1 DEF Adding, TypeOK
    <3>2. Adding(ty)' = Adding(ty) \cup {c} /\ c \notin Adding(ty) /\ Adding(ty) \subseteq All
      BY <2>1 DEF Adding, TypeOK
    <3>3. All \subseteq Threads
      OBVIOUS
    <3> HIDE DEF All
    <3>4. IsFiniteSet(All) /\ Cardinality(All) \in Nat
      BY <3>3, FS_Subset, FS_CardinalityType
    <3>5. Cardinality(Adding(ty)) \in Nat /\ Cardinality(Adding(ty)) <= Cardinality(All)
      BY <3>2, <3>4, FS_Subset, AddingFinite
    <3>6. Cardinality(Adding(ty) \cup {c}) =
            IF c \in Adding(ty) THEN Cardinality(Adding(ty)) ELSE Cardinality(Adding(ty)) + 1
      BY AddingFinite, FS_AddElement
    <3>7. Len(handlers[ty]) \in Nat /\ Len(handlers[ty]) + Cardinality(All) < MaxHolders
      BY <2>1, InRoom DEF All
    <3>8. Len(handlers'[ty]) + Cardinality(Adding(ty)') <= MaxHolders
      BY <3>2, <3>4, <3>5, <3>6, <3>7
    <3> QED
      BY <3>1, <3>8 DEF Room
  <2>2. CASE p # "add"
    <3>1. \A t \in Types : Adding(t)' \subseteq Adding(t)
      BY <2>2 DEF Adding, TypeOK
    <3> QED
      BY <3>1, RoomStays
  <2> QED
    BY <2>1, <2>2
<1>4. TargetsExist'
  BY DEF TargetsExist, TypeOK
<1>5. Dispatching'
  BY DEF Dispatching, Reached, TypeOK
<1> QED
  BY <1>1, <1>2, <1>3, <1>4, <1>5

\* A handler takes the room that was kept for it.  Nobody dispatches meanwhile.
LEMMA RegisterStep ==
  ASSUME BusInv, NEW c \in Threads, Register(c)
  PROVE  BusInv'
<1> USE DEF BusInv, Register, Done, Goto
<1>1. PICK t \in Types, g \in Handlers :
        t = type[c] /\ g = target[c] /\ g \in alive /\ pc[c] = "add"
  BY DEF TypeOK, TargetsExist
<1>2. /\ handlers \in [Types -> Seq(Handlers)]
      /\ handlers' = [handlers EXCEPT ![t] = Append(handlers[t], g)]
  BY <1>1 DEF TypeOK
<1>3. handlers' \in [Types -> Seq(Handlers)]
  BY <1>1, <1>2, AppendProperties
<1>4. Room'
  <2>1. \A ty \in Types \ {t} : handlers'[ty] = handlers[ty] /\ Adding(ty)' = Adding(ty)
    BY <1>1, <1>2 DEF Adding, TypeOK
  <2>2. Adding(t)' = Adding(t) \ {c} /\ c \in Adding(t)
    BY <1>1 DEF Adding, TypeOK
  <2>3. Cardinality(Adding(t) \ {c}) =
          IF c \in Adding(t) THEN Cardinality(Adding(t)) - 1 ELSE Cardinality(Adding(t))
    BY AddingFinite, FS_RemoveElement
  <2>4. Cardinality(Adding(t)) \in Nat
    BY AddingFinite
  <2>5. Len(handlers'[t]) = Len(handlers[t]) + 1 /\ Len(handlers[t]) \in Nat
    BY <1>1, <1>2, AppendProperties
  <2>6. Len(handlers[t]) + Cardinality(Adding(t)) <= MaxHolders
    BY <1>1 DEF Room
  <2>7. Len(handlers'[t]) + Cardinality(Adding(t)') <= MaxHolders
    BY <2>2, <2>3, <2>4, <2>5, <2>6
  <2> QED
    BY <2>1, <2>7 DEF Room
<1>5. Registered'
  <2>1. ASSUME NEW h \in Handlers
        PROVE  Cardinality(Places(handlers'[t], h)) =
                 Cardinality(Places(handlers[t], h)) + (IF g = h THEN 1 ELSE 0)
    BY <1>1, <1>2, PlacesAppend
  <2>2. ASSUME NEW h \in Handlers, NEW ty \in Types
        PROVE  held'[h][ty] = IF h = g /\ ty = t THEN held[h][ty] + 1 ELSE held[h][ty]
    BY <1>1 DEF TypeOK
  <2>3. ASSUME NEW h \in Handlers, NEW ty \in Types
        PROVE  held'[h][ty] = Cardinality(Places(handlers'[ty], h))
    <3>1. CASE ty = t
      BY <1>1, <2>1, <2>2, <3>1 DEF Registered, TypeOK
    <3>2. CASE ty # t
      BY <1>1, <1>2, <2>2, <3>2 DEF Registered
    <3> QED
      BY <3>1, <3>2
  <2>4. ASSUME NEW h \in Handlers, NEW ty \in Types, held'[h][ty] > 0
        PROVE  h \in alive'
    BY <1>1, <2>2, <2>4 DEF Registered
  <2> QED
    BY <2>3, <2>4 DEF Registered
<1>6. held' \in [Handlers -> [Types -> 0 .. MaxHolders]]
  <2>1. ASSUME NEW h \in Handlers, NEW ty \in Types
        PROVE  held'[h][ty] \in 0 .. MaxHolders
    <3>1. Cardinality(Places(handlers'[ty], h)) \in Nat
          /\ Cardinality(Places(handlers'[ty], h)) <= Len(handlers'[ty])
      BY <1>3, PlacesFinite
    <3>2. Len(handlers'[ty]) \in Nat
      BY <1>3
    <3>3. Adding(ty)' \subseteq Threads
      BY DEF Adding
    <3>4. Cardinality(Adding(ty)') \in Nat
      BY <3>3, FS_Subset, FS_CardinalityType
    <3>5. Len(handlers'[ty]) + Cardinality(Adding(ty)') <= MaxHolders
      BY <1>4 DEF Room
    <3>6. held'[h][ty] = Cardinality(Places(handlers'[ty], h))
      BY <1>5 DEF Registered
    <3> QED
      BY <3>1, <3>2, <3>4, <3>5, <3>6
  <2>2. held \in [Handlers -> [Types -> 0 .. MaxHolders]]
    BY DEF TypeOK
  <2>3. held' = [held EXCEPT ![g] = [held[g] EXCEPT ![t] = held'[g][t]]]
    BY <1>1, <2>2
  <2> QED
    BY <2>1, <2>2, <2>3
<1>7. TypeOK'
  BY <1>1, <1>3, <1>6 DEF TypeOK
<1>8. TargetsExist'
  BY DEF TargetsExist, TypeOK
<1>9. Dispatching'
  BY DEF Dispatching, Reached, TypeOK
<1> QED
  BY <1>4, <1>5, <1>7, <1>8, <1>9

\* The oldest registration is gone, if there is one.  Nobody dispatches meanwhile.
LEMMA DeregisterStep ==
  ASSUME BusInv, NEW c \in Threads, Deregister(c)
  PROVE  BusInv'
<1> USE DEF BusInv, Deregister, Done, Goto
<1>1. PICK t \in Types, g \in Handlers :
        t = type[c] /\ g = target[c] /\ g \in alive /\ pc[c] = "remove"
  BY DEF TypeOK, TargetsExist
<1>2. /\ handlers \in [Types -> Seq(Handlers)]
      /\ handlers' = [handlers EXCEPT ![t] = Without(handlers[t], g)]
  BY <1>1 DEF TypeOK
<1>3. /\ Without(handlers[t], g) \in Seq(Handlers)
      /\ Len(Without(handlers[t], g)) <= Len(handlers[t])
  <2>1. handlers[t] \in Seq(Handlers) /\ Len(handlers[t]) \in Nat
    BY <1>1, <1>2
  <2>2. CASE Places(handlers[t], g) = {}
    <3>1. Without(handlers[t], g) = handlers[t]
      BY <2>1, <2>2, WithoutIs
    <3> QED
      BY <2>1, <3>1
  <2>3. CASE Places(handlers[t], g) # {}
    <3>1. /\ Without(handlers[t], g) \in Seq(Handlers)
          /\ Len(Without(handlers[t], g)) = Len(handlers[t]) - 1
      BY <2>1, <2>3, WithoutIs
    <3> QED
      BY <2>1, <3>1
  <2> QED
    BY <2>2, <2>3
<1>4. handlers' \in [Types -> Seq(Handlers)]
  BY <1>1, <1>2, <1>3
<1>5. Room'
  <2>1. ASSUME NEW ty \in Types
        PROVE  Adding(ty)' = Adding(ty) /\ Len(handlers'[ty]) <= Len(handlers[ty])
               /\ Len(handlers[ty]) \in Nat /\ Len(handlers'[ty]) \in Nat
    BY <1>1, <1>2, <1>3, <1>4 DEF Adding, TypeOK
  <2>2. ASSUME NEW ty \in Types
        PROVE  Cardinality(Adding(ty)) \in Nat
               /\ Len(handlers[ty]) + Cardinality(Adding(ty)) <= MaxHolders
    BY AddingFinite DEF Room
  <2>3. ASSUME NEW ty \in Types
        PROVE  Len(handlers'[ty]) + Cardinality(Adding(ty)') <= MaxHolders
    BY <2>1, <2>2
  <2> QED
    BY <2>3 DEF Room
<1>6. ASSUME NEW h \in Handlers, NEW ty \in Types
      PROVE  held'[h][ty] = IF h = g /\ ty = t /\ held[h][ty] > 0
                              THEN held[h][ty] - 1 ELSE held[h][ty]
  BY <1>1 DEF TypeOK
<1>7. Registered'
  <2>1. ASSUME NEW h \in Handlers
        PROVE  /\ Cardinality(Places(handlers'[t], h)) =
                    Cardinality(Places(handlers[t], h))
                      - (IF g = h /\ Places(handlers[t], h) # {} THEN 1 ELSE 0)
               /\ Cardinality(Places(handlers[t], h)) \in Nat
               /\ Places(handlers[t], h) # {} <=> Cardinality(Places(handlers[t], h)) > 0
    <3>1. handlers[t] \in Seq(Handlers)
      BY <1>1, <1>2
    <3>2. IsFiniteSet(Places(handlers[t], h)) /\ Cardinality(Places(handlers[t], h)) \in Nat
      BY <3>1, PlacesFinite
    <3>3. Cardinality(Places(handlers[t], h)) = 0 <=> Places(handlers[t], h) = {}
      BY <3>2, FS_EmptySet
    <3>4. Cardinality(Places(Without(handlers[t], g), h)) =
            Cardinality(Places(handlers[t], h))
              - (IF g = h /\ Places(handlers[t], h) # {} THEN 1 ELSE 0)
      BY <3>1, PlacesWithout
    <3>5. handlers'[t] = Without(handlers[t], g)
      BY <1>2
    <3> QED
      BY <3>2, <3>3, <3>4, <3>5
  <2>2. ASSUME NEW h \in Handlers, NEW ty \in Types
        PROVE  held'[h][ty] = Cardinality(Places(handlers'[ty], h))
    <3>1. CASE ty = t
      BY <1>1, <1>6, <2>1, <3>1 DEF Registered
    <3>2. CASE ty # t
      BY <1>1, <1>2, <1>6, <3>2 DEF Registered
    <3> QED
      BY <3>1, <3>2
  <2>3. ASSUME NEW h \in Handlers, NEW ty \in Types, held'[h][ty] > 0
        PROVE  h \in alive'
    BY <1>1, <1>6, <2>3 DEF Registered
  <2> QED
    BY <2>2, <2>3 DEF Registered
<1>8. TypeOK'
  <2>1. ASSUME NEW h \in Handlers, NEW ty \in Types
        PROVE  held'[h][ty] \in 0 .. MaxHolders
    <3>1. held[h][ty] \in 0 .. MaxHolders /\ MaxHolders \in Nat
      BY DEF TypeOK
    <3>2. held'[h][ty] = IF h = g /\ ty = t /\ held[h][ty] > 0
                           THEN held[h][ty] - 1 ELSE held[h][ty]
      BY <1>6
    <3>3. CASE held[h][ty] > 0
      <4>1. held[h][ty] - 1 \in 0 .. MaxHolders
        BY <3>1, <3>3
      <4> QED
        BY <3>1, <3>2, <4>1
    <3>4. CASE ~(held[h][ty] > 0)
      BY <3>1, <3>2, <3>4
    <3> QED
      BY <3>3, <3>4
  <2>2. held \in [Handlers -> [Types -> 0 .. MaxHolders]]
    BY DEF TypeOK
  <2>3. held' = [held EXCEPT ![g] = [held[g] EXCEPT ![t] = held'[g][t]]]
    BY <1>1, <2>2
  <2>4. held' \in [Handlers -> [Types -> 0 .. MaxHolders]]
    BY <2>1, <2>2, <2>3
  <2> QED
    BY <1>1, <1>4, <2>4 DEF TypeOK
<1>9. TargetsExist'
  BY DEF TargetsExist, TypeOK
<1>10. Dispatching'
  BY DEF Dispatching, Reached, TypeOK
<1> QED
  BY <1>5, <1>7, <1>8, <1>9, <1>10

\* The sender has the mutex, and has dispatched to nobody.
LEMMA LockSendStep ==
  ASSUME BusInv, NEW c \in Threads, LockSend(c)
  PROVE  BusInv'
<1> USE DEF BusInv, LockSend, Goto
<1>1. TypeOK'
  BY DEF TypeOK
<1>2. Registered'
  BY DEF Registered
<1>3. Room'
  BY RoomStays DEF Adding, TypeOK
<1>4. TargetsExist'
  BY DEF TargetsExist, TypeOK
<1>5. Dispatching'
  <2>1. \A d \in Threads \ {c} : pc'[d] \notin {"loop", "onEvent"} /\ running'[d] = NoHandler
    BY DEF Dispatching, TypeOK
  <2>2. pc'[c] = "loop" /\ next'[c] = 1 /\ seen'[c] = <<>> /\ running'[c] = NoHandler
    BY DEF Dispatching, TypeOK
  <2>3. type'[c] \in Types
    BY DEF TypeOK
  <2>4. Len(handlers'[type'[c]]) \in Nat
    BY <2>3, InRoom
  <2> QED
    BY <2>1, <2>2, <2>4 DEF Dispatching, Reached
<1> QED
  BY <1>1, <1>2, <1>3, <1>4, <1>5

\* The next handler is called.
LEMMA DispatchStep ==
  ASSUME BusInv, NEW c \in Threads, Dispatch(c)
  PROVE  BusInv'
<1> DEFINE s == handlers[type[c]]
<1> USE DEF BusInv, Dispatch, Goto
<1>1. type[c] \in Types /\ pc[c] = "loop"
  BY DEF TypeOK
<1>2. s \in Seq(Handlers) /\ Len(s) \in Nat /\ next[c] \in 1 .. Len(s) /\ s[next[c]] \in Handlers
  <2>1. s \in Seq(Handlers) /\ Len(s) \in Nat /\ DOMAIN s = 1 .. Len(s)
    BY <1>1, InRoom
  <2> QED
    BY <2>1
<1>3. /\ Append(seen[c], s[next[c]]) \in Seq(Handlers)
      /\ Len(Append(seen[c], s[next[c]])) = Len(seen[c]) + 1
      /\ \A i \in 1 .. Len(seen[c]) : Append(seen[c], s[next[c]])[i] = seen[c][i]
      /\ Append(seen[c], s[next[c]])[Len(seen[c]) + 1] = s[next[c]]
  BY <1>2, AppendProperties DEF TypeOK
<1>4. seen'[c] = Append(seen[c], s[next[c]]) /\ running'[c] = s[next[c]] /\ pc'[c] = "onEvent"
  BY DEF TypeOK
<1>5. \A d \in Threads \ {c} :
        seen'[d] = seen[d] /\ running'[d] = running[d] /\ pc'[d] = pc[d]
  BY DEF TypeOK
<1>6. TypeOK'
  BY <1>2, <1>3 DEF TypeOK
<1>7. Registered'
  BY DEF Registered
<1>8. Room'
  BY RoomStays DEF Adding, TypeOK
<1>9. TargetsExist'
  BY DEF TargetsExist, TypeOK
<1>10. Dispatching'
  <2>1. Len(seen[c]) \in Nat /\ next[c] = Len(seen[c]) + 1
        /\ \A i \in 1 .. Len(seen[c]) : seen[c][i] = s[i]
    <3>1. /\ Reached(c) = Len(seen[c])
          /\ \A i \in 1 .. Len(seen[c]) : seen[c][i] = s[i]
      BY <1>1 DEF Dispatching
    <3>2. seen[c] \in Seq(Handlers) /\ Reached(c) = next[c] - 1 /\ next[c] \in Int
      BY <1>1 DEF Reached, TypeOK
    <3>3. Len(seen[c]) \in Nat
      BY <3>2
    <3>4. Len(seen[c]) = next[c] - 1
      BY <3>1, <3>2
    <3>5. next[c] = Len(seen[c]) + 1
      BY <3>2, <3>3, <3>4
    <3> QED
      BY <3>1, <3>3, <3>5
  <2>2. /\ next[c] = Len(seen'[c]) /\ next[c] <= Len(s)
        /\ \A i \in 1 .. Len(seen'[c]) : seen'[c][i] = s[i]
    BY <1>2, <1>3, <1>4, <2>1
  <2>3. \A d \in Threads \ {c} : Reached(d)' = Reached(d)
    BY <1>5 DEF Reached
  <2>4. Reached(c)' = next[c]
    BY <1>4 DEF Reached
  <2> DEFINE
        Goes(d) ==
          /\ pc[d] \in {"loop", "onEvent"} =>
               /\ Reached(d) = Len(seen[d]) /\ Reached(d) <= Len(handlers[type[d]])
               /\ \A i \in 1 .. Len(seen[d]) : seen[d][i] = handlers[type[d]][i]
          /\ IF pc[d] = "onEvent" THEN running[d] = handlers[type[d]][next[d]]
                                  ELSE running[d] = NoHandler
  <2>5. Goes(c)'
    BY <1>4, <2>2, <2>4
  <2>6. ASSUME NEW d \in Threads \ {c} PROVE Goes(d)'
    <3>1. Goes(d)
      BY DEF Dispatching
    <3>2. /\ UNCHANGED <<handlers, type, next>> /\ Reached(d)' = Reached(d)
          /\ seen'[d] = seen[d] /\ running'[d] = running[d] /\ pc'[d] = pc[d]
      BY <1>5, <2>3
    <3> QED
      BY <3>1, <3>2
  <2> QED
    BY <2>5, <2>6 DEF Dispatching
<1> QED
  BY <1>6, <1>7, <1>8, <1>9, <1>10

\* The handler returns.
LEMMA ReturnStep ==
  ASSUME BusInv, NEW c \in Threads, Return(c)
  PROVE  BusInv'
<1> USE DEF BusInv, Return, Goto
<1>1. type[c] \in Types /\ pc[c] = "onEvent" /\ next[c] \in Nat
  BY DEF TypeOK
<1>2. next[c] <= Len(handlers[type[c]]) /\ next[c] \in 1 .. MaxHolders
  <2>1. Len(handlers[type[c]]) \in 0 .. MaxHolders
    BY <1>1, InRoom
  <2>2. next[c] <= Len(handlers[type[c]]) /\ next[c] \in 1 .. MaxHolders + 1
    BY <1>1 DEF Dispatching, Reached, TypeOK
  <2> QED
    BY <2>1, <2>2
<1>3. TypeOK'
  BY <1>1, <1>2 DEF TypeOK
<1>4. Registered'
  BY DEF Registered
<1>5. Room'
  BY RoomStays DEF Adding, TypeOK
<1>6. TargetsExist'
  BY DEF TargetsExist, TypeOK
<1>7. Dispatching'
  <2>1. \A d \in Threads : Reached(d)' = Reached(d)
    BY <1>1 DEF Reached, TypeOK
  <2> QED
    BY <1>1, <2>1 DEF Dispatching, TypeOK
<1> QED
  BY <1>3, <1>4, <1>5, <1>6, <1>7

\* The sender gives the mutex back.
LEMMA EndSendStep ==
  ASSUME BusInv, NEW c \in Threads, EndSend(c)
  PROVE  BusInv'
<1> USE DEF BusInv, EndSend, Unlock, Done, Goto
<1>1. TypeOK'
  BY DEF TypeOK
<1>2. Registered'
  BY DEF Registered
<1>3. Room'
  BY RoomStays DEF Adding, TypeOK
<1>4. TargetsExist'
  BY DEF TargetsExist, TypeOK
<1>5. Dispatching'
  BY DEF Dispatching, Reached, TypeOK
<1> QED
  BY <1>1, <1>2, <1>3, <1>4, <1>5

\* Every step of the bus keeps the invariant.
LEMMA BusStep == BusInv /\ [Next]_vars => BusInv'
<1> SUFFICES ASSUME BusInv, [Next]_vars PROVE BusInv'
  OBVIOUS
<1>1. ASSUME NEW c \in Threads, Begin(c) PROVE BusInv'
  <2>1. ASSUME NEW h \in Handlers, Create(c, h) \/ Destroy(c, h) PROVE BusInv'
    BY <2>1, CreateStep, DestroyStep
  <2>2. ASSUME NEW ty \in Types, NEW h \in Handlers, AddHandler(c, ty, h) PROVE BusInv'
    BY <2>2, CallStep DEF AddHandler
  <2>3. ASSUME NEW ty \in Types, NEW h \in Handlers, RemoveHandler(c, ty, h) PROVE BusInv'
    BY <2>3, CallStep DEF RemoveHandler
  <2>4. ASSUME NEW ty \in Types, SendEvent(c, ty) PROVE BusInv'
    BY <2>4, CallStep DEF SendEvent
  <2> QED
    BY <1>1, <2>1, <2>2, <2>3, <2>4 DEF Begin
<1>2. ASSUME NEW c \in Threads, Continue(c) PROVE BusInv'
  BY <1>2, RegisterStep, DeregisterStep, LockSendStep, DispatchStep, ReturnStep, EndSendStep
     DEF Continue
<1>3. CASE UNCHANGED vars
  BY <1>3 DEF BusInv, TypeOK, Registered, Room, Adding, TargetsExist, Dispatching, Reached,
              vars, callVars
<1> QED
  BY <1>1, <1>2, <1>3 DEF Next

\* So it holds in every state of the bus.
LEMMA AlwaysBusInv == Spec => []BusInv
<1> QED
  BY BusInit, BusStep, PTL DEF Spec

-----------------------------------------------------------------------------
(* What the bus promises. *)

\* Every list of holders has room, and the mutex is held by the thread that is in a
\* dispatch and by no other.
THEOREM BusTypes == Spec => []TypeOK
<1>1. BusInv => TypeOK
  BY DEF BusInv
<1> QED
  BY <1>1, AlwaysBusInv, PTL

\* Who is called is registered.
LEMMA CalledIs == BusInv => CalledIsAlive
<1> SUFFICES ASSUME BusInv, NEW c \in Threads, running[c] # NoHandler
             PROVE  running[c] \in alive
  BY DEF CalledIsAlive
<1> DEFINE s == handlers[type[c]]
<1>1. pc[c] = "onEvent" /\ running[c] = s[next[c]] /\ next[c] = Len(seen[c]) /\ next[c] <= Len(s)
  BY DEF BusInv, Dispatching, Reached
<1>2. type[c] \in Types /\ next[c] \in 1 .. MaxHolders + 1
  BY <1>1 DEF BusInv, TypeOK
<1>3. s \in Seq(Handlers) /\ Len(s) \in Nat
  BY <1>2, InRoom DEF BusInv
<1>4. next[c] \in Places(s, running[c]) /\ running[c] \in Handlers
  <2>1. next[c] \in 1 .. Len(s)
    BY <1>1, <1>2, <1>3
  <2> QED
    BY <1>1, <1>3, <2>1 DEF Places
<1>5. Cardinality(Places(s, running[c])) # 0 /\ Cardinality(Places(s, running[c])) \in Nat
  BY <1>3, <1>4, PlacesFinite, FS_EmptySet
<1>6. held[running[c]][type[c]] > 0
  BY <1>2, <1>4, <1>5 DEF BusInv, Registered
<1> QED
  BY <1>2, <1>4, <1>6 DEF BusInv, Registered

\* No handler is called that is gone, and none is destroyed while it handles an event:
\* an object that deregisters before it is destroyed need not know in which thread, or
\* when, events are sent.
THEOREM NobodyCalledIsGone == Spec => []CalledIsAlive
<1> QED
  BY AlwaysBusInv, CalledIs, PTL

\* A sender that is done has dispatched to the whole list.
LEMMA SentStep ==
  BusInv /\ [Next]_vars =>
    [\A c \in Threads :
       pc[c] = "loop" /\ pc'[c] = "idle" => seen[c] = handlers[type[c]]]_vars
<1> SUFFICES ASSUME BusInv, Next, NEW c \in Threads, pc[c] = "loop", pc'[c] = "idle"
             PROVE  seen[c] = handlers[type[c]]
  OBVIOUS
<1> USE DEF BusInv
<1>1. pc \in [Threads -> {"idle", "add", "remove", "send", "loop", "onEvent"}]
  BY DEF TypeOK
<1>2. PICK d \in Threads : Begin(d) \/ Continue(d)
  BY DEF Next
<1>3. ~Begin(d)
  BY <1>1 DEF Begin, Create, Destroy, AddHandler, RemoveHandler, SendEvent, Call, Goto, callVars
<1>4. d = c /\ EndSend(c)
  BY <1>1, <1>2, <1>3 DEF Continue, Register, Deregister, LockSend, Dispatch, Return, EndSend,
                          Done, Goto
<1> DEFINE s == handlers[type[c]]
<1>5. type[c] \in Types /\ next[c] \in Nat /\ next[c] >= 1 /\ seen[c] \in Seq(Handlers)
  BY DEF TypeOK
<1>6. s \in Seq(Handlers) /\ Len(s) \in Nat /\ DOMAIN s = 1 .. Len(s)
  BY <1>5, InRoom
<1>7. next[c] - 1 = Len(seen[c]) /\ next[c] - 1 <= Len(s)
      /\ \A i \in 1 .. Len(seen[c]) : seen[c][i] = s[i]
  BY DEF Dispatching, Reached
<1>8. next[c] \notin 1 .. Len(s)
  BY <1>4, <1>6 DEF EndSend
<1>9. Len(seen[c]) = Len(s)
  BY <1>5, <1>6, <1>7, <1>8
<1> QED
  BY <1>5, <1>6, <1>7, <1>9, SeqEqual

\* SendEvent reaches every handler that is registered when it ends, once for each
\* registration and in the order of registration.
THEOREM EveryHandlerReached == Spec => SentToAll
<1> QED
  BY AlwaysBusInv, SentStep, PTL DEF Spec, SentToAll

-----------------------------------------------------------------------------
(* The bus among threads that wait for each other. *)

\* Composed with BlockingCall the bus does what it does alone, or nothing.
THEOREM BusAmongThreads == BSpec => Spec
<1>1. BInit => Init
  BY DEF BInit
<1>2. [BNext]_allVars => [Next]_vars
  <2> SUFFICES ASSUME [BNext]_allVars PROVE [Next]_vars
    OBVIOUS
  <2>1. CASE UNCHANGED allVars
    BY <2>1 DEF allVars
  <2>2. ASSUME NEW c \in Threads, UseBus(c) \/ GoOn(c) PROVE Next
    BY <2>2 DEF UseBus, GoOn, Next
  <2>3. ASSUME NEW c \in Threads, (\E d \in Threads : BlockingCall(c, d)) \/ Serve(c) \/ Answer(c)
        PROVE  UNCHANGED vars
    BY <2>3 DEF BlockingCall, Serve, Answer
  <2> QED
    BY <2>1, <2>2, <2>3 DEF BNext
<1> QED
  BY <1>1, <1>2, PTL DEF BSpec, Spec

\* A functor is posted once, and is not in the queue while it is executed.
PostedOnce ==
  \A d \in Threads :
    /\ \A i, j \in DOMAIN queue[d] : queue[d][i] = queue[d][j] => i = j
    /\ \A i \in DOMAIN queue[d] : queue[d][i] # serving[d]

\* c's functor is with d.
With(c, d) == (\E i \in DOMAIN queue[d] : queue[d][i] = c) \/ serving[d] = c

WaitInv == BTypeOK /\ PostedOnce

\* At first nobody waits.
LEMMA WaitInit == BInit => WaitInv
<1> SUFFICES ASSUME BInit PROVE WaitInv
  OBVIOUS
<1>1. TypeOK
  BY BusInit DEF BInit, BusInv
<1>2. BTypeOK
  BY <1>1 DEF BInit, BTypeOK
<1>3. PostedOnce
  BY DEF BInit, PostedOnce
<1> QED
  BY <1>2, <1>3 DEF WaitInv

\* A thread that waits for nobody is with nobody; it may be with d.
LEMMA BlockingCallStep ==
  ASSUME WaitInv, TypeOK', NEW c \in Threads, NEW d \in Threads, BlockingCall(c, d)
  PROVE  WaitInv'
<1> USE BusThreadsAssumption DEF BusThreadsAssumption, WaitInv, BlockingCall, MayAsk
<1>1. /\ queue \in [Threads -> Seq(Threads)] /\ serving \in [Threads -> Threads \cup {NoOne}]
      /\ awaits \in [Threads -> Threads \cup {NoOne}]
  BY DEF BTypeOK
<1>2. /\ queue'[d] \in Seq(Threads) /\ DOMAIN queue'[d] = 1 .. Len(queue[d]) + 1
      /\ Len(queue[d]) \in Nat /\ DOMAIN queue[d] = 1 .. Len(queue[d])
      /\ \A i \in 1 .. Len(queue[d]) : queue'[d][i] = queue[d][i]
      /\ queue'[d][Len(queue[d]) + 1] = c
  <2>1. queue[d] \in Seq(Threads) /\ queue'[d] = Append(queue[d], c)
    BY <1>1
  <2>2. /\ Append(queue[d], c) \in Seq(Threads)
        /\ Len(Append(queue[d], c)) = Len(queue[d]) + 1
        /\ \A i \in 1 .. Len(queue[d]) : Append(queue[d], c)[i] = queue[d][i]
        /\ Append(queue[d], c)[Len(queue[d]) + 1] = c
    BY <2>1, AppendProperties
  <2> QED
    BY <2>1, <2>2, LenProperties
<1>3. \A e \in Threads : ~With(c, e)
  BY <1>1 DEF BTypeOK, With
<1>4. \A e \in Threads \ {d} : queue'[e] = queue[e]
  BY <1>1
<1>5. awaits'[c] = d /\ \A a \in Threads \ {c} : awaits'[a] = awaits[a]
  BY <1>1
<1>6. ASSUME NEW a \in Threads, NEW e \in Threads PROVE awaits'[a] = e <=> With(a, e)'
  <2>1. With(a, e)' <=> With(a, e) \/ (a = c /\ e = d)
    <3>1. CASE e = d
      <4>1. (\E i \in DOMAIN queue'[d] : queue'[d][i] = a)
              <=> (\E i \in DOMAIN queue[d] : queue[d][i] = a) \/ a = c
        BY <1>2
      <4> QED
        BY <3>1, <4>1 DEF With
    <3>2. CASE e # d
      BY <1>4, <3>2 DEF With
    <3> QED
      BY <3>1, <3>2
  <2>2. awaits[a] = e <=> With(a, e)
    BY DEF BTypeOK, With
  <2> QED
    BY <1>3, <1>5, <2>1, <2>2
<1>7. BTypeOK'
  <2>1. queue' \in [Threads -> Seq(Threads)] /\ awaits' \in [Threads -> Threads \cup {NoOne}]
    BY <1>1, <1>2
  <2> QED
    BY <1>1, <1>6, <2>1 DEF BTypeOK, With
<1>8. PostedOnce'
  <2>1. ASSUME NEW e \in Threads, e # d
        PROVE  /\ \A i, j \in DOMAIN queue'[e] : queue'[e][i] = queue'[e][j] => i = j
               /\ \A i \in DOMAIN queue'[e] : queue'[e][i] # serving'[e]
    BY <1>4, <2>1 DEF PostedOnce
  <2>2. \A i \in DOMAIN queue[d] : queue[d][i] # c
    BY <1>3 DEF With
  <2>3. /\ \A i, j \in DOMAIN queue'[d] : queue'[d][i] = queue'[d][j] => i = j
        /\ \A i \in DOMAIN queue'[d] : queue'[d][i] # serving'[d]
    <3>1. serving[d] # c
      BY <1>3 DEF With
    <3> QED
      BY <1>2, <2>2, <3>1 DEF PostedOnce
  <2> QED
    BY <2>1, <2>3 DEF PostedOnce
<1> QED
  BY <1>7, <1>8

\* The functor that was the oldest in the queue is executed.
LEMMA ServeStep ==
  ASSUME WaitInv, TypeOK', NEW d \in Threads, Serve(d)
  PROVE  WaitInv'
<1> USE DEF WaitInv, Serve
<1>1. /\ queue \in [Threads -> Seq(Threads)] /\ serving \in [Threads -> Threads \cup {NoOne}]
      /\ awaits \in [Threads -> Threads \cup {NoOne}]
  BY DEF BTypeOK
<1>2. /\ queue'[d] \in Seq(Threads) /\ DOMAIN queue'[d] = 1 .. Len(queue[d]) - 1
      /\ Len(queue[d]) \in Nat /\ Len(queue[d]) >= 1 /\ DOMAIN queue[d] = 1 .. Len(queue[d])
      /\ \A i \in 1 .. Len(queue[d]) - 1 : queue'[d][i] = queue[d][i + 1]
      /\ serving'[d] = queue[d][1] /\ queue[d][1] \in Threads
  <2>1. queue[d] \in Seq(Threads) /\ queue[d] # <<>> /\ queue'[d] = Tail(queue[d])
        /\ serving'[d] = Head(queue[d])
    BY <1>1
  <2>2. /\ Head(queue[d]) \in Threads /\ Tail(queue[d]) \in Seq(Threads)
        /\ Len(Tail(queue[d])) = Len(queue[d]) - 1 /\ Head(queue[d]) = queue[d][1]
        /\ \A i \in 1 .. Len(queue[d]) - 1 : Tail(queue[d])[i] = queue[d][i + 1]
    BY <2>1, HeadTailProperties
  <2> QED
    <3>1. Len(queue[d]) \in Nat /\ Len(queue[d]) # 0 /\ DOMAIN queue[d] = 1 .. Len(queue[d])
      BY <2>1
    <3>2. DOMAIN Tail(queue[d]) = 1 .. Len(queue[d]) - 1
      BY <2>2, LenProperties
    <3>3. Len(queue[d]) >= 1
      BY <3>1
    <3>4. queue'[d] \in Seq(Threads) /\ DOMAIN queue'[d] = 1 .. Len(queue[d]) - 1
      BY <2>1, <2>2, <3>2
    <3>5. \A i \in 1 .. Len(queue[d]) - 1 : queue'[d][i] = queue[d][i + 1]
      BY <2>1, <2>2
    <3>6. serving'[d] = queue[d][1] /\ queue[d][1] \in Threads
      BY <2>1, <2>2
    <3> QED
      BY <3>1, <3>3, <3>4, <3>5, <3>6
<1>3. \A e \in Threads \ {d} : queue'[e] = queue[e] /\ serving'[e] = serving[e]
  BY <1>1
<1>4. ASSUME NEW a \in Threads PROVE With(a, d)' <=> With(a, d)
  <2>1. (\E i \in DOMAIN queue[d] : queue[d][i] = a) <=>
          (\E i \in DOMAIN queue'[d] : queue'[d][i] = a) \/ serving'[d] = a
    <3>1. ASSUME NEW i \in 1 .. Len(queue[d]), queue[d][i] = a, i # 1
          PROVE  \E j \in DOMAIN queue'[d] : queue'[d][j] = a
      <4>1. i - 1 \in 1 .. Len(queue[d]) - 1 /\ (i - 1) + 1 = i
        BY <1>2, <3>1
      <4> QED
        BY <1>2, <3>1, <4>1
    <3>2. ASSUME NEW j \in 1 .. Len(queue[d]) - 1, queue'[d][j] = a
          PROVE  \E i \in 1 .. Len(queue[d]) : queue[d][i] = a
      <4>1. j + 1 \in 1 .. Len(queue[d])
        BY <1>2
      <4> QED
        BY <1>2, <3>2, <4>1
    <3>3. 1 \in 1 .. Len(queue[d])
      BY <1>2
    <3> QED
      BY <1>2, <3>1, <3>2, <3>3
  <2> QED
    BY <2>1 DEF With
<1>5. ASSUME NEW a \in Threads, NEW e \in Threads PROVE awaits'[a] = e <=> With(a, e)'
  <2>1. awaits[a] = e <=> With(a, e)
    BY DEF BTypeOK, With
  <2>2. CASE e = d
    BY <1>4, <2>1, <2>2
  <2>3. CASE e # d
    BY <1>3, <2>1, <2>3 DEF With
  <2> QED
    BY <2>2, <2>3
<1>6. BTypeOK'
  <2>1. queue' \in [Threads -> Seq(Threads)] /\ serving' \in [Threads -> Threads \cup {NoOne}]
    BY <1>1, <1>2
  <2> QED
    BY <1>1, <1>5, <2>1 DEF BTypeOK, With
<1>7. PostedOnce'
  <2>1. ASSUME NEW e \in Threads, e # d
        PROVE  /\ \A i, j \in DOMAIN queue'[e] : queue'[e][i] = queue'[e][j] => i = j
               /\ \A i \in DOMAIN queue'[e] : queue'[e][i] # serving'[e]
    BY <1>3, <2>1 DEF PostedOnce
  <2>2. \A i, j \in 1 .. Len(queue[d]) : queue[d][i] = queue[d][j] => i = j
    BY <1>2 DEF PostedOnce
  <2>3. ASSUME NEW i \in DOMAIN queue'[d]
        PROVE  /\ queue'[d][i] # serving'[d]
               /\ \A j \in DOMAIN queue'[d] : queue'[d][i] = queue'[d][j] => i = j
    <3>1. i + 1 \in 1 .. Len(queue[d]) /\ i + 1 # 1 /\ 1 \in 1 .. Len(queue[d])
      BY <1>2
    <3>2. \A j \in DOMAIN queue'[d] : j + 1 \in 1 .. Len(queue[d])
      BY <1>2
    <3> QED
      BY <1>2, <2>2, <3>1, <3>2
  <2> QED
    BY <2>1, <2>3 DEF PostedOnce
<1> QED
  BY <1>6, <1>7

\* Who is answered was with d, and with d only.
LEMMA AnswerStep ==
  ASSUME WaitInv, TypeOK', NEW d \in Threads, Answer(d)
  PROVE  WaitInv'
<1> USE DEF WaitInv, Answer
<1>1. /\ queue \in [Threads -> Seq(Threads)] /\ serving \in [Threads -> Threads \cup {NoOne}]
      /\ awaits \in [Threads -> Threads \cup {NoOne}]
  BY DEF BTypeOK
<1>2. PICK c \in Threads : serving[d] = c /\ awaits[c] = d
  BY <1>1 DEF BTypeOK
<1>3. /\ awaits'[c] = NoOne /\ \A a \in Threads \ {c} : awaits'[a] = awaits[a]
      /\ serving'[d] = NoOne /\ \A e \in Threads \ {d} : serving'[e] = serving[e]
  BY <1>1, <1>2
<1>4. \A i \in DOMAIN queue[d] : queue[d][i] # c
  BY <1>2 DEF PostedOnce
<1>5. ASSUME NEW a \in Threads, NEW e \in Threads PROVE awaits'[a] = e <=> With(a, e)'
  <2>1. awaits[a] = e <=> With(a, e)
    BY DEF BTypeOK, With
  <2>2. awaits[c] = e <=> With(c, e)
    BY DEF BTypeOK, With
  <2>3. CASE e = d
    BY <1>2, <1>3, <1>4, <2>1, <2>3 DEF With
  <2>4. CASE e # d
    BY <1>2, <1>3, <2>1, <2>2, <2>4 DEF With
  <2> QED
    BY <2>3, <2>4
<1>6. BTypeOK'
  BY <1>1, <1>5 DEF BTypeOK, With
<1>7. PostedOnce'
  <2>1. \A e \in Threads : \A i \in DOMAIN queue[e] : queue[e][i] \in Threads
    BY <1>1
  <2>2. \A e \in Threads : \A i \in DOMAIN queue[e] : queue[e][i] # serving'[e]
    BY <1>3, <2>1 DEF PostedOnce
  <2> QED
    BY <2>2 DEF PostedOnce
<1> QED
  BY <1>6, <1>7

\* Every step of the threads keeps the book of who waits for whom.
LEMMA WaitStep == WaitInv /\ TypeOK' /\ [BNext]_allVars => WaitInv'
<1> SUFFICES ASSUME WaitInv, TypeOK', [BNext]_allVars PROVE WaitInv'
  OBVIOUS
<1>1. CASE UNCHANGED threadVars
  BY <1>1 DEF WaitInv, BTypeOK, PostedOnce, threadVars
<1>2. ASSUME NEW c \in Threads, (\E d \in Threads : BlockingCall(c, d)) \/ Serve(c) \/ Answer(c)
      PROVE  WaitInv'
  BY <1>2, BlockingCallStep, ServeStep, AnswerStep
<1> QED
  BY <1>1, <1>2 DEF BNext, UseBus, GoOn, allVars

\* A thread waits in BlockingCall exactly while its functor is in a queue or executed:
\* it is never left waiting for a functor that is gone, and a functor never outlives
\* the stack of the caller that it uses.
THEOREM CallersWait == BSpec => []BTypeOK
<1>1. BSpec => []TypeOK
  BY BusAmongThreads, BusTypes, PTL
<1>2. WaitInv => BTypeOK
  BY DEF WaitInv
<1> QED
  BY <1>1, <1>2, WaitInit, WaitStep, PTL DEF BSpec

\* The bus keeps its promises when its users and handlers call other threads.
THEOREM BusKeepsPromises == BSpec => []CalledIsAlive /\ SentToAll
<1> QED
  BY BusAmongThreads, NobodyCalledIsGone, EveryHandlerReached, PTL
-----------------------------------------------------------------------------
(* Nobody waits in a circle. *)

\* Only users use the bus, and who waits for an answer was allowed to ask and does
\* not go on with the bus meanwhile.
CallInv ==
  /\ \A c \in Threads : pc[c] # "idle" => c \in Users
  /\ \A c \in Threads : awaits[c] # NoOne =>
       MayAsk(c, awaits[c]) /\ pc[c] \in {"idle", "onEvent"}

\* A step of c in the bus moves c only.
LEMMA OthersStay ==
  ASSUME TypeOK, NEW c \in Threads, Begin(c) \/ Continue(c), NEW d \in Threads, d # c
  PROVE  pc'[d] = pc[d]
<1>1. pc \in [Threads -> {"idle", "add", "remove", "send", "loop", "onEvent"}]
  BY DEF TypeOK
<1>2. CASE Begin(c)
  BY <1>1, <1>2 DEF Begin, Create, Destroy, AddHandler, RemoveHandler, SendEvent, Call, Goto,
                    callVars
<1>3. CASE Continue(c)
  BY <1>1, <1>3 DEF Continue, Register, Deregister, LockSend, Dispatch, Return, EndSend, Done,
                    Goto
<1> QED
  BY <1>2, <1>3

\* Every step of the threads keeps to the rules of calling.
LEMMA CallStepInv == TypeOK /\ BTypeOK /\ CallInv /\ [BNext]_allVars => CallInv'
<1> SUFFICES ASSUME TypeOK, BTypeOK, CallInv, [BNext]_allVars PROVE CallInv'
  OBVIOUS
<1> USE DEF CallInv
<1>1. /\ pc \in [Threads -> {"idle", "add", "remove", "send", "loop", "onEvent"}]
      /\ awaits \in [Threads -> Threads \cup {NoOne}]
      /\ serving \in [Threads -> Threads \cup {NoOne}]
  BY DEF TypeOK, BTypeOK
<1>2. ASSUME NEW c \in Threads, UseBus(c) \/ GoOn(c) PROVE CallInv'
  <2>1. awaits[c] = NoOne /\ awaits' = awaits
    BY <1>2 DEF UseBus, GoOn, threadVars
  <2>2. \A d \in Threads \ {c} : pc'[d] = pc[d]
    BY <1>2, OthersStay DEF UseBus, GoOn
  <2>3. c \in Users
    <3>1. Continue(c) => pc[c] # "idle"
      BY DEF Continue, Register, Deregister, LockSend, Dispatch, Return, EndSend
    <3> QED
      BY <1>2, <3>1 DEF UseBus, GoOn
  <2> QED
    BY <2>1, <2>2, <2>3 DEF MayAsk
<1>3. ASSUME NEW c \in Threads, NEW d \in Threads, BlockingCall(c, d) PROVE CallInv'
  <2>1. pc' = pc /\ awaits' = [awaits EXCEPT ![c] = d]
    BY <1>3 DEF BlockingCall, vars, callVars
  <2> QED
    BY <1>1, <1>3, <2>1 DEF BlockingCall, MayAsk
<1>4. ASSUME NEW c \in Threads, Serve(c) PROVE CallInv'
  BY <1>4 DEF Serve, MayAsk, vars, callVars
<1>5. ASSUME NEW c \in Threads, Answer(c) PROVE CallInv'
  <2>1. pc' = pc /\ \A d \in Threads : awaits'[d] \in {awaits[d], NoOne}
    BY <1>1, <1>5 DEF Answer, vars, callVars
  <2> QED
    BY <2>1 DEF MayAsk
<1>6. CASE UNCHANGED allVars
  BY <1>6 DEF allVars, threadVars, vars, callVars, MayAsk
<1> QED
  BY <1>2, <1>3, <1>4, <1>5, <1>6 DEF BNext

\* Among some threads there is one that none of them comes after.
LEMMA LastOfAll ==
  ASSUME NEW S \in SUBSET Threads, S # {}
  PROVE  \E c \in S : \A d \in S : ~(Rank(c) < Rank(d))
<1> USE BusThreadsAssumption DEF BusThreadsAssumption
<1> DEFINE After(c) == {d \in S : Rank(c) < Rank(d)}
           All == {After(c) : c \in S}
<1>1. All \subseteq FiniteSubsetsOf(Threads) /\ All # {}
  <2>1. ASSUME NEW c \in S PROVE After(c) \in SUBSET Threads /\ IsFiniteSet(After(c))
    <3>1. After(c) \subseteq Threads
      OBVIOUS
    <3> QED
      BY <3>1, FS_Subset
  <2> QED
    BY <2>1 DEF FiniteSubsetsOf
<1>2. PICK x \in All : \A y \in All : <<y, x>> \notin StrictSubsetOrdering(Threads)
  BY <1>1, FS_StrictSubsetOrderingWellFounded, WFMin
<1>3. PICK c \in S : x = After(c)
  OBVIOUS
<1>4. ASSUME NEW d \in S, Rank(c) < Rank(d) PROVE FALSE
  <2>1. After(d) \subseteq After(c) /\ d \in After(c) /\ d \notin After(d)
    <3>1. \A e \in S : Rank(e) \in Nat
      OBVIOUS
    <3> QED
      BY <1>4, <3>1
  <2>2. <<After(d), x>> \in StrictSubsetOrdering(Threads)
    BY <1>1, <1>3, <2>1 DEF StrictSubsetOrdering
  <2> QED
    BY <1>2, <2>2
<1> QED
  BY <1>4

\* In no circle: a thread that does not use the bus waits for one of its kind that comes
\* after it; the one with the mutex, for one that does not use the bus; every other
\* user, for one that comes after it or has the mutex.
LEMMA NoCircle ==
  ASSUME TypeOK, BTypeOK, CallInv, NEW S \in SUBSET Threads, S # {},
         \A c \in S : Blocked(c) /\ WaitsFor(c) \in S
  PROVE  FALSE
<1> USE BusThreadsAssumption DEF BusThreadsAssumption, CallInv, MayAsk
<1>1. \A c \in S : awaits[c] # NoOne => awaits[c] \in S /\ Rank(c) < Rank(awaits[c])
  BY DEF WaitsFor
<1>2. CASE S \cap Users # S
  <2> DEFINE Others == S \ Users
  <2>1. PICK c \in Others : \A d \in Others : ~(Rank(c) < Rank(d))
    BY <1>2, LastOfAll
  <2>2. awaits[c] # NoOne
    BY <2>1 DEF Blocked
  <2>3. awaits[c] \in S /\ Rank(c) < Rank(awaits[c])
    BY <1>1, <2>1, <2>2
  <2>4. awaits[c] \notin Users
    BY <2>1, <2>3
  <2> QED
    BY <2>1, <2>3, <2>4
<1>3. CASE S \subseteq Users
  <2>1. mutex \notin S
    <3>1. SUFFICES ASSUME mutex \in S PROVE FALSE
      OBVIOUS
    <3>2. pc[mutex] \in {"loop", "onEvent"}
      BY <3>1 DEF TypeOK
    <3>3. awaits[mutex] # NoOne
      BY <3>1, <3>2 DEF Blocked
    <3>4. pc[mutex] = "onEvent" /\ awaits[mutex] \notin Users
      BY <3>1, <3>2, <3>3
    <3> QED
      BY <1>1, <1>3, <3>1, <3>3, <3>4
  <2>2. \A c \in S : awaits[c] # NoOne
    BY <2>1 DEF WaitsFor
  <2> QED
    BY <1>1, <2>2, LastOfAll
<1> QED
  BY <1>2, <1>3

\* Who is waited for has the functor, or the mutex.
LEMMA WaitedForWorks ==
  ASSUME TypeOK, BTypeOK, NEW c \in Threads, Blocked(c)
  PROVE  AtWork(WaitsFor(c))
<1>1. CASE awaits[c] # NoOne
  <2>1. PICK d \in Threads : awaits[c] = d
    BY <1>1 DEF BTypeOK
  <2>2. (\E i \in DOMAIN queue[d] : queue[d][i] = c) \/ serving[d] = c
    BY <2>1 DEF BTypeOK
  <2>3. (\E i \in DOMAIN queue[d] : queue[d][i] = c) => queue[d] # <<>>
    OBVIOUS
  <2>4. NoOne \notin Threads
    OBVIOUS
  <2> QED
    BY <1>1, <2>1, <2>2, <2>3, <2>4 DEF WaitsFor, AtWork
<1>2. CASE awaits[c] = NoOne
  <2>1. mutex \in Threads /\ WaitsFor(c) = mutex
    BY <1>2 DEF Blocked, WaitsFor, TypeOK
  <2>2. pc[mutex] \in {"loop", "onEvent"}
    BY <2>1 DEF TypeOK
  <2> QED
    BY <2>1, <2>2 DEF AtWork
<1> QED
  BY <1>1, <1>2

\* Threads that call each other in one order, and from onEvent none that uses the bus,
\* never wait for each other in a circle, however many they are and however their calls
\* of the bus and of each other are nested: every chain of waiting threads ends at one
\* that can go on.
THEOREM NobodyStuck == BSpec => []NoDeadlock
<1>1. BInit => CallInv
  BY DEF BInit, Init, CallInv
<1>2. TypeOK /\ BTypeOK /\ CallInv => NoDeadlock
  BY NoCircle, WaitedForWorks DEF NoDeadlock
<1>3. BSpec => []TypeOK
  BY BusAmongThreads, BusTypes, PTL
<1> QED
  BY <1>1, <1>2, <1>3, CallStepInv, CallersWait, PTL DEF BSpec
=============================================================================
