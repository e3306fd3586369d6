----------------------- MODULE ConsumerAndPoolProofs -----------------------
(***************************************************************************)
(* Proofs about two small parts of the process.  BalanceInvalidator: the   *)
(* consumer loses no more events than there are crashes, for any number of *)
(* events and crashes.  ClientPool: no connection stays open outside the   *)
(* pool, for any number of callers and addresses.                          *)
(***************************************************************************)
EXTENDS BalanceInvalidator, ClientPool, FiniteSetTheorems, TLAPS

-----------------------------------------------------------------------------
(* The consumer.                                                           *)

\* Offsets are a finite matter: a set of them has a number of elements.
LEMMA OffsetsAreFinite ==
  ASSUME NEW a \in Nat, NEW b \in Int, NEW S \in SUBSET (a .. b)
  PROVE  IsFiniteSet(S) /\ Cardinality(S) \in Nat
<1>1. IsFiniteSet(a .. b)
  <2>1. a \in Int
    OBVIOUS
  <2> QED
    BY <2>1, FS_Interval
<1>2. IsFiniteSet(S)
  BY <1>1, FS_Subset
<1> QED
  BY <1>2, FS_CardinalityType

\* The consumer starts within the invariant.
LEMMA InvalidatorInitInv == InvalidatorInit => InvalidatorInv
<1> SUFFICES ASSUME InvalidatorInit PROVE InvalidatorInv
  OBVIOUS
<1> USE InvalidatorAssumption DEF InvalidatorInit, None
<1>1. InvalidatorTypeOK
  BY DEF InvalidatorTypeOK
<1>2. Missed = {}
  BY DEF Missed
<1>3. Cardinality(Missed) <= crashes
  BY <1>2, FS_EmptySet
<1> QED
  BY <1>1, <1>3 DEF InvalidatorInv

\* Every step keeps the types.
LEMMA InvalidatorTypes ==
  ASSUME InvalidatorInv, [InvalidatorNext]_invalidatorVars
  PROVE  InvalidatorTypeOK'
<1> USE InvalidatorAssumption DEF InvalidatorInv, InvalidatorTypeOK, None,
        busVars, handVars, ghostVars
<1>1. CASE ReadMessage
  BY <1>1 DEF ReadMessage
<1>2. ASSUME NEW p \in Matched, ClearPath(p) \/ ClearFails(p)
      PROVE  InvalidatorTypeOK'
  BY <1>2 DEF ClearPath, ClearFails
<1>3. CASE EndEvent
  BY <1>3 DEF EndEvent
<1>4. CASE Publish
  BY <1>4 DEF Publish
<1>5. ASSUME NEW p \in Paths, Store(p) \/ Expire(p)
      PROVE  InvalidatorTypeOK'
  <2>1. published \in {None} \cup 0 .. published /\ None \in {None} \cup 0 .. published
    OBVIOUS
  <2>2. copies' \in [Paths -> {None} \cup 0 .. published]
    BY <1>5, <2>1 DEF Store, Expire
  <2>3. UNCHANGED <<busVars, consumer, position, handVars, ghostVars>>
    BY <1>5 DEF Store, Expire
  <2> QED
    BY <2>2, <2>3
<1>6. CASE StartConsumer \/ Commit \/ Crash
  <2>1. CASE StartConsumer
    <3>1. position .. published - 1 \subseteq 0 .. published - 1
      OBVIOUS
    <3>2. passedOver' \in SUBSET (0 .. published - 1)
      BY <2>1, <3>1 DEF StartConsumer
    <3>3. position' \in 0 .. published /\ from' = position'
      BY <2>1 DEF StartConsumer
    <3>4. origin' \in {None} \cup 0 .. published /\ consumer' = "up"
      BY <2>1 DEF StartConsumer
    <3> QED
      BY <2>1, <3>2, <3>3, <3>4 DEF StartConsumer
  <2>2. CASE Commit
    BY <2>2 DEF Commit
  <2>3. CASE Crash
    BY <2>3 DEF Crash
  <2> QED
    BY <1>6, <2>1, <2>2, <2>3
<1>7. CASE CloseRedisFirst \/ StopConsumer
  BY <1>7 DEF CloseRedisFirst, StopConsumer
<1>8. CASE UNCHANGED invalidatorVars
  BY <1>8 DEF invalidatorVars
<1> QED
  BY <1>1, <1>2, <1>3, <1>4, <1>5, <1>6, <1>7, <1>8
     DEF InvalidatorNext, ConsumerStep

\* Every step keeps the order of the offsets.
LEMMA OffsetsStayInOrder ==
  ASSUME InvalidatorInv, [InvalidatorNext]_invalidatorVars
  PROVE  /\ (origin <= from /\ from <= position)'
         /\ (origin = None => consumer = "down" /\ position = 0)'
         /\ (committed # None =>
               origin # None /\ origin <= committed /\ committed <= position)'
         /\ (consumer = "down" => hand = None)'
         /\ (hand # None => from <= hand /\ hand < position)'
         /\ (hand = None => todo = {})'
<1> USE DEF InvalidatorInv, InvalidatorTypeOK, None, busVars, handVars, ghostVars
<1>1. CASE ReadMessage
  BY <1>1 DEF ReadMessage
<1>2. ASSUME NEW p \in Matched, ClearPath(p) \/ ClearFails(p)
      PROVE  UNCHANGED <<from, origin, position, committed, consumer, hand>> /\ todo' \subseteq todo
  BY <1>2 DEF ClearPath, ClearFails
<1>3. CASE EndEvent
  BY <1>3 DEF EndEvent
<1>4. CASE Publish
  BY <1>4 DEF Publish
<1>5. ASSUME NEW p \in Paths, Store(p) \/ Expire(p)
      PROVE  UNCHANGED <<from, origin, position, committed, consumer, hand, todo>>
  BY <1>5 DEF Store, Expire
<1>6. CASE StartConsumer \/ Commit \/ Crash
  BY <1>6 DEF StartConsumer, Commit, Crash
<1>7. CASE CloseRedisFirst \/ StopConsumer
  BY <1>7 DEF CloseRedisFirst, StopConsumer
<1>8. CASE UNCHANGED invalidatorVars
  BY <1>8 DEF invalidatorVars
<1> QED
  BY <1>1, <1>2, <1>3, <1>4, <1>5, <1>6, <1>7, <1>8
     DEF InvalidatorNext, ConsumerStep

\* A crash misses the event in hand; no other step misses any.
LEMMA OneMissedPerCrash ==
  ASSUME InvalidatorInv, [InvalidatorNext]_invalidatorVars
  PROVE  \/ Missed' \subseteq Missed /\ crashes' = crashes
         \/ Missed' \subseteq Missed \cup {hand} /\ crashes' = crashes + 1 /\ hand \in Int
<1> USE DEF InvalidatorInv, InvalidatorTypeOK, None, Missed, Attended, busVars, handVars, ghostVars
<1>1. CASE ReadMessage
  BY <1>1 DEF ReadMessage
<1>2. ASSUME NEW p \in Matched, ClearPath(p) \/ ClearFails(p)
      PROVE  Missed' \subseteq Missed /\ crashes' = crashes
  BY <1>2 DEF ClearPath, ClearFails
<1>3. CASE EndEvent
  BY <1>3 DEF EndEvent
<1>4. CASE Publish
  BY <1>4 DEF Publish
<1>5. ASSUME NEW p \in Paths, Store(p) \/ Expire(p)
      PROVE  Missed' = Missed /\ crashes' = crashes
  BY <1>5 DEF Store, Expire
<1>6. CASE StartConsumer
  BY <1>6 DEF StartConsumer
<1>7. CASE Commit
  BY <1>7 DEF Commit
<1>8. CASE Crash
  BY <1>8 DEF Crash
<1>9. CASE CloseRedisFirst \/ StopConsumer
  BY <1>9 DEF CloseRedisFirst, StopConsumer
<1>10. CASE UNCHANGED invalidatorVars
  BY <1>10 DEF invalidatorVars
<1> QED
  BY <1>1, <1>2, <1>3, <1>4, <1>5, <1>6, <1>7, <1>8, <1>9, <1>10
     DEF InvalidatorNext, ConsumerStep

\* Every step keeps the invariant.
LEMMA InvalidatorStepInv ==
  ASSUME InvalidatorInv, [InvalidatorNext]_invalidatorVars
  PROVE  InvalidatorInv'
<1>1. IsFiniteSet(Missed) /\ Cardinality(Missed) \in Nat
  <2>1. Missed \in SUBSET (0 .. position - 1) /\ position - 1 \in Int
    BY DEF Missed, InvalidatorInv, InvalidatorTypeOK
  <2> QED
    BY <2>1, OffsetsAreFinite
<1>2. Cardinality(Missed)' <= crashes'
  <2>1. CASE Missed' \subseteq Missed /\ crashes' = crashes
    <3>1. Cardinality(Missed') <= Cardinality(Missed)
      BY <1>1, <2>1, FS_Subset
    <3>2. Cardinality(Missed') \in Nat
      BY <1>1, <2>1, FS_Subset, FS_CardinalityType
    <3> QED
      BY <1>1, <2>1, <3>1, <3>2 DEF InvalidatorInv, InvalidatorTypeOK
  <2>2. CASE Missed' \subseteq Missed \cup {hand} /\ crashes' = crashes + 1
    <3>1. /\ IsFiniteSet(Missed \cup {hand})
          /\ Cardinality(Missed \cup {hand}) <= Cardinality(Missed) + 1
          /\ Cardinality(Missed \cup {hand}) \in Nat
      <4>1. /\ IsFiniteSet(Missed \cup {hand})
            /\ Cardinality(Missed \cup {hand}) =
                 IF hand \in Missed THEN Cardinality(Missed) ELSE Cardinality(Missed) + 1
        BY <1>1, FS_AddElement
      <4> QED
        BY <1>1, <4>1
    <3>2. Cardinality(Missed') <= Cardinality(Missed \cup {hand})
      BY <2>2, <3>1, FS_Subset
    <3>3. Cardinality(Missed') \in Nat
      BY <2>2, <3>1, FS_Subset, FS_CardinalityType
    <3> QED
      BY <1>1, <2>2, <3>1, <3>2, <3>3 DEF InvalidatorInv, InvalidatorTypeOK
  <2> QED
    BY <2>1, <2>2, OneMissedPerCrash
<1> QED
  BY <1>2, InvalidatorTypes, OffsetsStayInOrder DEF InvalidatorInv

\* The inductive invariant of the consumer (balance_consumer.go:71-97).
THEOREM InvalidatorInvariant == InvalidatorSpec => []InvalidatorInv
<1> QED
  BY InvalidatorInitInv, InvalidatorStepInv, PTL DEF InvalidatorSpec

\* The events that the group will not read again and that nobody has seen
\* through are no more than the crashes, however commits, failures and restarts
\* overlap, besides those that a start without a commit passes over
\* (balance_consumer.go:55, 81-92).
THEOREM LossIsBounded == InvalidatorSpec => []OneLossPerCrash
<1>1. ASSUME InvalidatorInv
      PROVE  OneLossPerCrash
  <2> USE <1>1 DEF InvalidatorInv, InvalidatorTypeOK, None
  <2>1. Lost \ passedOver \subseteq Missed
    BY DEF Lost, Missed, Resumes
  <2>2. Missed \in SUBSET (0 .. position - 1) /\ position - 1 \in Int
    BY DEF Missed
  <2>3. IsFiniteSet(Missed) /\ Cardinality(Missed) \in Nat
    BY <2>2, OffsetsAreFinite
  <2>4. Cardinality(Lost \ passedOver) <= Cardinality(Missed)
    BY <2>1, <2>3, FS_Subset
  <2>5. Cardinality(Lost \ passedOver) \in Nat
    BY <2>1, <2>3, FS_Subset, FS_CardinalityType
  <2> QED
    BY <2>3, <2>4, <2>5 DEF OneLossPerCrash
<1> QED
  BY <1>1, InvalidatorInvariant, PTL

-----------------------------------------------------------------------------
(* The pool.                                                               *)

\* The pool starts within the invariant.
LEMMA PoolInitInv == PoolInit => PoolInv
<1> SUFFICES ASSUME PoolInit PROVE PoolInv
  OBVIOUS
<1> USE PoolAssumption DEF PoolInit, NoConn
<1>1. at \in [1 .. dialled -> Addresses]
  BY DEF PoolInit
<1>2. target \in [Callers -> Addresses]
  <2>1. (CHOOSE a \in Addresses : TRUE) \in Addresses
    OBVIOUS
  <2> QED
    BY <2>1
<1>3. PoolTypeOK
  BY <1>1, <1>2 DEF PoolTypeOK
<1> QED
  BY <1>3 DEF PoolInv, OpenOnesAreThePools

\* A caller's steps, but for dialling, leave every connection as it is.
LEMMA CallerInv ==
  ASSUME PoolInv, NEW c \in Callers,
         \/ \E a \in Addresses : Ask(c, a)
         \/ LookUp(c) \/ Examine(c) \/ Lock(c)
         \/ TakeAnothers(c) \/ DialFails(c) \/ Answered(c)
  PROVE  PoolInv'
<1> USE DEF PoolInv
<1>1. UNCHANGED <<connections, dialled, at, opened, closes>>
  BY DEF Ask, LookUp, Examine, Lock, TakeAnothers, DialFails, Answered
<1>2. /\ caller' \in [Callers -> {"idle", "asking", "examining", "waiting",
                                 "locked", "calling", "served", "failed"}]
      /\ target' \in [Callers -> Addresses]
      /\ conn' \in [Callers -> 0 .. dialled]
      /\ writer' \in Callers \cup {"Close", NoOne}
  <2>1. CASE \E a \in Addresses : Ask(c, a)
    BY <2>1 DEF Ask, PoolTypeOK
  <2>2. CASE LookUp(c) \/ Examine(c) \/ Lock(c)
    BY <2>2 DEF LookUp, Examine, Lock, PoolTypeOK
  <2>3. CASE TakeAnothers(c) \/ DialFails(c)
    BY <2>3 DEF TakeAnothers, DialFails, PoolTypeOK
  <2>4. CASE Answered(c)
    BY <2>4 DEF Answered, PoolTypeOK
  <2> QED
    BY <2>1, <2>2, <2>3, <2>4
<1> QED
  BY <1>1, <1>2 DEF PoolTypeOK, OpenOnesAreThePools

\* A caller that dials, after the second look, finds no connection open to its
\* address, in the pool or outside.
LEMMA DialInv ==
  ASSUME PoolInv, NEW c \in Callers, Dial(c)
  PROVE  PoolInv'
<1> USE DEF PoolInv
<1> DEFINE new == dialled + 1
<1>1. dialled \in Nat /\ new \in Nat /\ target[c] \in Addresses
  BY DEF PoolTypeOK
<1>2. /\ dialled' = new
      /\ at' = [k \in 1 .. new |-> IF k = new THEN target[c] ELSE at[k]]
      /\ opened' = opened \cup {new}
      /\ connections' = [connections EXCEPT ![target[c]] = new]
      /\ conn' = [conn EXCEPT ![c] = new]
      /\ writer' = NoOne
      /\ caller' = [caller EXCEPT ![c] = "calling"]
      /\ UNCHANGED <<target, closes>>
  BY DEF Dial
<1>3. \A k \in opened : k \in 1 .. dialled /\ at[k] # target[c]
  <2> SUFFICES ASSUME NEW k \in opened, at[k] = target[c]
               PROVE  FALSE
    BY DEF PoolTypeOK
  <2>1. connections[target[c]] = k /\ k \in 1 .. dialled
    BY DEF OpenOnesAreThePools, PoolTypeOK
  <2> QED
    BY <1>1, <2>1 DEF Dial, FoundByAnother, Usable, NoConn
<1>4. at' \in [1 .. dialled' -> Addresses]
  BY <1>1, <1>2 DEF PoolTypeOK
<1>5. /\ connections' \in [Addresses -> 0 .. dialled']
      /\ conn' \in [Callers -> 0 .. dialled']
      /\ opened' \subseteq 1 .. dialled'
  BY <1>1, <1>2 DEF PoolTypeOK
<1>6. PoolTypeOK'
  BY <1>1, <1>2, <1>4, <1>5 DEF PoolTypeOK
<1>7. OpenOnesAreThePools'
  <2> SUFFICES ASSUME NEW k \in opened'
               PROVE  connections'[at'[k]] = k
    BY DEF OpenOnesAreThePools
  <2>1. CASE k = new
    BY <1>1, <1>2, <2>1 DEF PoolTypeOK
  <2>2. CASE k \in opened
    <3>1. k \in 1 .. dialled /\ at[k] # target[c] /\ at'[k] = at[k] /\ at[k] \in Addresses
      BY <1>1, <1>2, <1>3, <2>2 DEF PoolTypeOK
    <3> QED
      BY <1>2, <2>2, <3>1 DEF OpenOnesAreThePools, PoolTypeOK
  <2> QED
    BY <1>2, <2>1, <2>2
<1> QED
  BY <1>6, <1>7

\* Close forgets its connections only when none of them is open.
LEMMA CloseInv ==
  ASSUME PoolInv, BeginClose \/ CloseStep
  PROVE  PoolInv'
<1> USE PoolAssumption DEF PoolInv, inHandVars
<1>1. CASE BeginClose
  BY <1>1 DEF BeginClose, PoolTypeOK, OpenOnesAreThePools
<1>2. ASSUME NEW a \in Addresses, CloseOne(a)
      PROVE  PoolInv'
  BY <1>2 DEF CloseOne, PoolTypeOK, OpenOnesAreThePools
<1>3. CASE EndClose
  <2>1. opened = {}
    <3> SUFFICES ASSUME NEW k \in opened
                 PROVE  FALSE
      OBVIOUS
    <3>1. k \in 1 .. dialled /\ dialled \in Nat /\ at[k] \in Addresses
      BY DEF PoolTypeOK
    <3>2. connections[at[k]] = k
      BY DEF OpenOnesAreThePools
    <3> QED
      BY <1>3, <3>1, <3>2 DEF EndClose, Usable, NoConn
  <2>2. connections' \in [Addresses -> 0 .. dialled]
    BY <1>3 DEF EndClose, NoConn, PoolTypeOK
  <2> QED
    BY <1>3, <2>1, <2>2 DEF EndClose, PoolTypeOK, OpenOnesAreThePools
<1> QED
  BY <1>1, <1>2, <1>3 DEF CloseStep

\* Every step keeps the invariant.
LEMMA PoolStepInv ==
  ASSUME PoolInv, [PoolNext]_poolVars
  PROVE  PoolInv'
<1>1. ASSUME NEW c \in Callers, CallStep(c) \/ \E a \in Addresses : Ask(c, a)
      PROVE  PoolInv'
  BY <1>1, CallerInv, DialInv DEF CallStep
<1>2. CASE BeginClose \/ CloseStep
  BY <1>2, CloseInv
<1>3. CASE UNCHANGED poolVars
  BY <1>3 DEF poolVars, inHandVars, PoolInv, PoolTypeOK, OpenOnesAreThePools
<1> QED
  BY <1>1, <1>2, <1>3 DEF PoolNext

\* The inductive invariant of the pool (client_pool.go:28-91).
THEOREM PoolInvariant == PoolSpec => []PoolInv
BY PoolInitInv, PoolStepInv, PTL DEF PoolSpec

\* Every open connection is the pool's one connection to its address, whoever
\* misses, dials and closes at the same time (client_pool.go:28-91).
THEOREM NothingLeaks == PoolSpec => []OpenOnesAreThePools
<1>1. PoolInv => OpenOnesAreThePools
  BY DEF PoolInv
<1> QED
  BY <1>1, PoolInvariant, PTL

=============================================================================
