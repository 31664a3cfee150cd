-------------------------- MODULE SysvBarrierProofs --------------------------
(***************************************************************************)
(* Proofs about SysvBarrier for a team of any size and any number of       *)
(* rounds, up to the first pthread_cond_wait that returns without a        *)
(* broadcast.                                                              *)
(***************************************************************************)
EXTENDS SysvBarrier, FiniteSetTheorems, TLAPS, RecursionLemmas

\* The units asleep are finitely many, at most all of the team.
LEMMA AsleepFinite ==
    /\ IsFiniteSet(Asleep)
    /\ Cardinality(Asleep) \in Nat
    /\ Cardinality(Asleep) = NumProcs => Asleep = Units
    /\ NumProcs \in Nat \ {0}
<1>1. Asleep \in SUBSET Units
  BY DEF Asleep
<1>2. IsFiniteSet(Asleep) /\ (Cardinality(Asleep) = NumProcs => Asleep = Units)
  BY <1>1, FS_Subset, SizeAssumption
<1>3. Cardinality(Asleep) \in Nat
  BY <1>2, FS_CardinalityType
<1>4. NumProcs \in Nat /\ NumProcs # 0
  BY FS_CardinalityType, FS_EmptySet, SizeAssumption
<1>. QED  BY <1>2, <1>3, <1>4

\* At most one unit is asleep more after a unit that was not falls asleep.
LEMMA OneMoreAsleep ==
    ASSUME NEW u \in Units, u \notin Asleep, Asleep' = Asleep \cup {u}
    PROVE  Cardinality(Asleep') = Cardinality(Asleep) + 1
BY AsleepFinite, FS_AddElement

\* When the counter says a locked unit is the last one, all others sleep.
LEMMA LastUnitFindsAllAsleep ==
    ASSUME Orderly, NEW u \in Units, pc[u] = "locked", num_waiting + 1 >= NumProcs
    PROVE  \A v \in Units : v # u => pc[v] = "asleep"
<1>1. u \notin Asleep
  BY DEF Asleep
<1>2. /\ IsFiniteSet(Asleep \cup {u})
      /\ Cardinality(Asleep \cup {u}) = Cardinality(Asleep) + 1
  BY <1>1, AsleepFinite, FS_AddElement
<1>3. Cardinality(Asleep) + 1 = NumProcs
  BY AsleepFinite DEF Orderly, CounterCountsSleepers
<1>4. Asleep \cup {u} \in SUBSET Units
  BY DEF Asleep
<1>5. Asleep \cup {u} = Units
  BY <1>2, <1>3, <1>4, FS_Subset, SizeAssumption
<1>. QED  BY <1>5 DEF Asleep

\* The barrier as sysv_barrier_create leaves it satisfies the invariant.
LEMMA InitEstablishes == Init => Orderly
<1>. SUFFICES ASSUME Init PROVE Orderly
  OBVIOUS
<1>1. TypeOK
  BY DEF Init, TypeOK, PCs
<1>2. RoundInv /\ MutexInv
  BY SizeAssumption DEF Init, RoundInv, MutexInv, Completed
<1>3. CounterCountsSleepers
  <2>1. Asleep = {}
    BY DEF Init, Asleep
  <2>. QED  BY <2>1, AsleepFinite, FS_EmptySet DEF Init, CounterCountsSleepers
<1>. QED  BY <1>1, <1>2, <1>3 DEF Orderly

\* A step of a unit that neither falls asleep nor wakes anybody keeps the
\* count of the sleepers.
LEMMA CounterKept ==
    ASSUME Orderly, num_waiting' = num_waiting, Asleep' = Asleep
    PROVE  CounterCountsSleepers'
BY DEF Orderly, CounterCountsSleepers

\* A call of the barrier only begins a round for its unit.
LEMMA CallStep ==
    ASSUME Orderly, NEW u \in Units, Call(u)
    PROVE  Orderly'
<1>1. TypeOK'
  BY DEF Orderly, TypeOK, Call, PCs
<1>2. RoundInv'
  BY DEF Orderly, TypeOK, RoundInv, Completed, Call
<1>3. MutexInv'
  BY DEF Orderly, TypeOK, MutexInv, Call
<1>4. CounterCountsSleepers'
  BY CounterKept DEF Orderly, TypeOK, Call, Asleep
<1>. QED  BY <1>1, <1>2, <1>3, <1>4 DEF Orderly

\* Taking the mutex changes neither the counter nor the rounds.
LEMMA LockStep ==
    ASSUME Orderly, NEW u \in Units, Lock(u)
    PROVE  Orderly'
<1>1. TypeOK'
  BY DEF Orderly, TypeOK, Lock, PCs
<1>2. RoundInv'
  BY DEF Orderly, TypeOK, RoundInv, Completed, Lock
<1>3. MutexInv'
  BY SizeAssumption DEF Orderly, TypeOK, MutexInv, Lock
<1>4. CounterCountsSleepers'
  BY CounterKept DEF Orderly, TypeOK, Lock, Asleep
<1>. QED  BY <1>1, <1>2, <1>3, <1>4 DEF Orderly

\* The unit that falls asleep is the one the counter counts.
LEMMA SleepStep ==
    ASSUME Orderly, NEW u \in Units, Sleep(u)
    PROVE  Orderly'
<1>1. TypeOK'
  BY DEF Orderly, TypeOK, Sleep, PCs
<1>2. RoundInv'
  BY DEF Orderly, TypeOK, RoundInv, Completed, Sleep
<1>3. MutexInv'
  BY SizeAssumption DEF Orderly, TypeOK, MutexInv, Sleep
<1>4. CounterCountsSleepers'
  <2>1. u \notin Asleep /\ Asleep' = Asleep \cup {u}
    BY DEF Orderly, TypeOK, Sleep, Asleep
  <2>2. Cardinality(Asleep') = Cardinality(Asleep) + 1
    BY <2>1, OneMoreAsleep
  <2>. QED  BY <2>2, AsleepFinite DEF Orderly, CounterCountsSleepers, Sleep
<1>. QED  BY <1>1, <1>2, <1>3, <1>4 DEF Orderly

\* The last unit completes the round of all, and nobody stays asleep.
LEMMA BroadcastStep ==
    ASSUME Orderly, NEW u \in Units, Broadcast(u)
    PROVE  Orderly'
<1>0. \A v \in Units : v # u => pc[v] = "asleep"
  BY LastUnitFindsAllAsleep DEF Broadcast
<1>1. TypeOK'
  BY DEF Orderly, TypeOK, Broadcast, PCs
<1>2. RoundInv'
  <2>1. \A v \in Units : pc'[v] \in {"woken", "leaving"} /\ pc[v] \in {"asleep", "locked"}
    BY <1>0 DEF Broadcast
  <2>2. \A v \in Units : Completed(v)' = Completed(v) + 1
    BY <2>1 DEF Orderly, TypeOK, Broadcast, Completed
  <2>. QED  BY <2>1, <2>2 DEF Orderly, TypeOK, RoundInv, Broadcast
<1>3. MutexInv'
  BY <1>0 DEF Orderly, TypeOK, MutexInv, Broadcast
<1>4. CounterCountsSleepers'
  <2>1. Asleep' = {}
    BY <1>0 DEF Broadcast, Asleep
  <2>. QED  BY <2>1, AsleepFinite, FS_EmptySet DEF Broadcast, CounterCountsSleepers
<1>. QED  BY <1>1, <1>2, <1>3, <1>4 DEF Orderly

\* A woken unit takes the mutex; its round was complete already.
LEMMA ReacquireStep ==
    ASSUME Orderly, NEW u \in Units, Reacquire(u)
    PROVE  Orderly'
<1>1. TypeOK'
  BY DEF Orderly, TypeOK, Reacquire, PCs
<1>2. RoundInv'
  BY DEF Orderly, TypeOK, RoundInv, Completed, Reacquire
<1>3. MutexInv'
  BY SizeAssumption DEF Orderly, TypeOK, MutexInv, Reacquire
<1>4. CounterCountsSleepers'
  BY CounterKept DEF Orderly, TypeOK, Reacquire, Asleep
<1>. QED  BY <1>1, <1>2, <1>3, <1>4 DEF Orderly

\* Leaving catches up with the calls of the unit.
LEMMA UnlockStep ==
    ASSUME Orderly, NEW u \in Units, Unlock(u)
    PROVE  Orderly'
<1>1. TypeOK'
  BY DEF Orderly, TypeOK, Unlock, PCs
<1>2. RoundInv'
  BY DEF Orderly, TypeOK, RoundInv, Completed, Unlock
<1>3. MutexInv'
  BY SizeAssumption DEF Orderly, TypeOK, MutexInv, Unlock
<1>4. CounterCountsSleepers'
  BY CounterKept DEF Orderly, TypeOK, Unlock, Asleep
<1>. QED  BY <1>1, <1>2, <1>3, <1>4 DEF Orderly

\* Whatever wakes the sleepers, the variables keep their types.
LEMMA TypeStep ==
    ASSUME TypeOK, [Next]_vars
    PROVE  TypeOK'
<1>1. CASE UNCHANGED vars \/ Destroy
  BY <1>1 DEF vars, Destroy, TypeOK
<1>2. ASSUME NEW u \in Units, Call(u) \/ Await(u)
      PROVE  TypeOK'
  <2>1. spurious' = spurious
    BY <1>2 DEF Call, Await, Lock, Sleep, Broadcast, Reacquire, Unlock
  <2>2. /\ owner' \in Units \cup {Nobody}
        /\ num_waiting' \in Nat
        /\ alive' \in BOOLEAN
        /\ pc' \in [Units -> PCs]
    BY <1>2 DEF Call, Await, Lock, Sleep, Broadcast, Reacquire, Unlock, TypeOK, PCs
  <2>3. /\ entered' \in [Units -> Nat]
        /\ left' \in [Units -> Nat]
    BY <1>2 DEF Call, Await, Lock, Sleep, Broadcast, Reacquire, Unlock, TypeOK
  <2>. QED  BY <2>1, <2>2, <2>3 DEF TypeOK
<1>3. ASSUME NEW u \in Units, WakeSpuriously(u)
      PROVE  TypeOK'
  <2>1. pc' \in [Units -> PCs]
    BY <1>3 DEF WakeSpuriously, TypeOK, PCs
  <2>2. spurious' \in BOOLEAN
    BY <1>3 DEF WakeSpuriously
  <2>. QED  BY <1>3, <2>1, <2>2 DEF WakeSpuriously, TypeOK
<1>. QED  BY <1>1, <1>2, <1>3 DEF Next

\* A step with which no wait ends on its own keeps the barrier orderly.
LEMMA OrderlyStep ==
    ASSUME Orderly, [Next]_vars, ~ spurious'
    PROVE  Orderly'
<1>1. CASE UNCHANGED vars \/ Destroy
  BY <1>1 DEF vars, Destroy, Orderly, TypeOK, RoundInv, Completed, MutexInv,
              CounterCountsSleepers, Asleep
<1>2. ASSUME NEW u \in Units, Call(u) \/ Await(u)
      PROVE  Orderly'
  BY <1>2, CallStep, LockStep, SleepStep, BroadcastStep, ReacquireStep,
     UnlockStep DEF Await
<1>. QED  BY <1>1, <1>2 DEF Next, WakeSpuriously

\* No step takes back that a wait has ended on its own.
LEMMA SpuriousStays ==
    ASSUME [Next]_vars, ~ spurious'
    PROVE  ~ spurious
BY DEF Next, Call, Await, Lock, Sleep, Broadcast, Reacquire, Unlock,
       WakeSpuriously, Destroy, vars

-----------------------------------------------------------------------------
\* BarrierInvariance: up to the first wait that ends on its own, the counter,
\* the mutex and the rounds of sysv_barrier_await stay consistent for any
\* team.
THEOREM BarrierInvariance == Spec => []IInv
<1>1. Init => IInv
  BY InitEstablishes DEF IInv, Orderly
<1>2. IInv /\ [Next]_vars => IInv'
  BY TypeStep, OrderlyStep, SpuriousStays DEF IInv
<1>. QED  BY <1>1, <1>2, PTL DEF Spec

\* BarrierRefinement: up to then, sysv_barrier_await implements the abstract
\* barrier of RoundBarrier: a call is an arrival, a return is a departure,
\* and every step in between is invisible.
THEOREM BarrierRefinement == Spec => ImplementsRoundBarrier
<1>1. Init => Barrier!BInit
  BY DEF Init, Barrier!BInit
<1>2. IInv /\ [Next]_vars => [spurious' \/ Barrier!BNext]_(Barrier!bvars)
  <2>. SUFFICES ASSUME Orderly, [Next]_vars, ~ spurious'
                PROVE  [Barrier!BNext]_(Barrier!bvars)
    BY SpuriousStays DEF IInv
  <2>1. ASSUME NEW u \in Units, Call(u)
        PROVE  Barrier!Arrive(u)
    BY <2>1 DEF Orderly, RoundInv, Call, Barrier!Arrive
  <2>2. ASSUME NEW u \in Units, Unlock(u)
        PROVE  Barrier!Depart(u)
    <3>1. left[u] < entered[u]
      BY <2>2 DEF Orderly, TypeOK, RoundInv, Unlock
    <3>2. ASSUME NEW v \in Units PROVE entered[v] >= entered[u]
      <4>1. Completed(u) = entered[u] /\ Completed(v) = Completed(u)
        BY <2>2 DEF Orderly, RoundInv, Completed, Unlock
      <4>. QED  BY <4>1 DEF Orderly, TypeOK, Completed
    <3>. QED  BY <2>2, <3>1, <3>2 DEF Unlock, Barrier!Depart
  <2>3. ASSUME NEW u \in Units,
               Lock(u) \/ Sleep(u) \/ Broadcast(u) \/ Reacquire(u)
        PROVE  UNCHANGED Barrier!bvars
    BY <2>3 DEF Lock, Sleep, Broadcast, Reacquire, Barrier!bvars
  <2>4. CASE Destroy \/ UNCHANGED vars
    BY <2>4 DEF Destroy, vars, Barrier!bvars
  <2>. QED  BY <2>1, <2>2, <2>3, <2>4
           DEF Next, Await, WakeSpuriously, Barrier!BNext
<1>. QED  BY <1>1, <1>2, BarrierInvariance, PTL
         DEF Spec, ImplementsRoundBarrier

-----------------------------------------------------------------------------
\* The calls of each unit that have counted themselves.
Counted ==
    [u \in Units |-> IF pc[u] \in {"entering", "locked"} THEN entered[u] - 1 ELSE entered[u]]

CallsSummed ==
    /\ Counted \in [Units -> Int]
    /\ \E h : /\ Sums(h, Counted, Units)
              /\ CounterCountsCalls <=> num_waiting = h[Units] % NumProcs

\* What the property sums is the sum of Counted.
LEMMA CountedSum == TypeOK => CallsSummed
<1>. SUFFICES ASSUME TypeOK PROVE CallsSummed
  OBVIOUS
<1>. DEFINE counted(u) == IF pc[u] \in {"entering", "locked"}
                          THEN entered[u] - 1 ELSE entered[u]
            Body(g) == [s \in SUBSET Units |-> IF s = {} THEN 0
                           ELSE counted(Chosen(s)) + g[s \ {Chosen(s)}]]
            h == CHOOSE g : g = Body(g)
<1>1. CounterCountsCalls <=> num_waiting = h[Units] % NumProcs
  BY DEF CounterCountsCalls, MapThenSumSet, MapThenFoldSet, Chosen
<1>2. Counted \in [Units -> Int]
  BY DEF TypeOK, Counted
<1>3. \A g : Body(g) = SumStep(Counted, Units, g)
  <2>1. \A s \in SUBSET Units : s # {} => Chosen(s) \in Units
    BY DEF Chosen
  <2>. QED  BY <2>1 DEF SumStep, Counted
<1>4. h = Body(h)
  <2>. HIDE DEF Body
  <2>1. \E g : g = SumStep(Counted, Units, g)
    BY <1>2, SizeAssumption, SumsSolve
  <2>2. \E g : g = Body(g)
    BY <1>3, <2>1
  <2>. QED  BY <2>2
<1>. HIDE DEF h, Body
<1>5. Sums(h, Counted, Units)
  BY <1>2, <1>3, <1>4, SizeAssumption, SumsSolve
<1>. QED  BY <1>1, <1>2, <1>5 DEF CallsSummed

\* The same of the state after a step.
LEMMA CountedSumNext == TypeOK' => CallsSummed'
BY CountedSum, PTL

\* A step that changes no unit's count changes no sum.
LEMMA CountedKept ==
    ASSUME TypeOK, TypeOK', CounterCountsCalls, Counted' = Counted, num_waiting' = num_waiting
    PROVE  CounterCountsCalls'
<1>1. PICK h : Sums(h, Counted, Units) /\ num_waiting = h[Units] % NumProcs
  BY CountedSum DEF CallsSummed
<1>2. PICK k : /\ Sums(k, Counted', Units)
               /\ CounterCountsCalls' <=> num_waiting' = k[Units] % NumProcs
  BY CountedSumNext DEF CallsSummed
<1>3. h[Units] = k[Units]
  <2>1. Units \in SUBSET Units
    OBVIOUS
  <2>. QED  BY <1>1, <1>2, <2>1, SizeAssumption, SumAgree
<1>. QED  BY <1>1, <1>2, <1>3

\* A unit that counts itself adds one to the counter, and the last one of a
\* round takes it to zero.
LEMMA CountedOnce ==
    ASSUME TypeOK, TypeOK', CounterCountsCalls, NEW u \in Units,
           Counted' = [Counted EXCEPT ![u] = @ + 1],
           num_waiting' = IF num_waiting + 1 < NumProcs THEN num_waiting + 1 ELSE 0
    PROVE  CounterCountsCalls'
<1>1. PICK h : Sums(h, Counted, Units) /\ num_waiting = h[Units] % NumProcs
  BY CountedSum DEF CallsSummed
<1>2. PICK k : /\ Sums(k, Counted', Units)
               /\ CounterCountsCalls' <=> num_waiting' = k[Units] % NumProcs
  BY CountedSumNext DEF CallsSummed
<1>3. Counted \in [Units -> Int]
  BY CountedSum DEF CallsSummed
<1>4. k[Units] = h[Units] + (Counted'[u] - Counted[u])
  <2>. DEFINE g == Counted'
  <2>1. \A v \in Units \ {u} : Counted[v] = g[v]
    BY <1>3
  <2>2. Sums(k, g, Units)
    BY <1>2
  <2>. HIDE DEF g
  <2>3. k[Units] = h[Units] + (g[u] - Counted[u])
    BY <1>1, <2>1, <2>2, SizeAssumption, SumChange
  <2>. QED  BY <2>3 DEF g
<1>5. k[Units] = h[Units] + 1 /\ h[Units] \in Int
  BY <1>1, <1>3, <1>4 DEF Sums
<1>6. NumProcs \in Nat /\ NumProcs > 0
  BY AsleepFinite
<1>. QED  BY <1>1, <1>2, <1>5, <1>6, RemainderOfSuccessor

\* CounterOfCalls: num_waiting is the number of calls that have counted
\* themselves, modulo the size of the team, whatever wakes the sleepers.
THEOREM CounterOfCalls == Spec => []CounterCountsCalls
<1>. DEFINE Inv == TypeOK /\ CounterCountsCalls
<1>1. Init => Inv
  <2>. SUFFICES ASSUME Init PROVE CounterCountsCalls
    BY InitEstablishes DEF Orderly
  <2>1. TypeOK
    BY InitEstablishes DEF Orderly
  <2>2. PICK h : /\ Sums(h, Counted, Units)
                 /\ CounterCountsCalls <=> num_waiting = h[Units] % NumProcs
    BY <2>1, CountedSum DEF CallsSummed
  <2>3. \A u \in Units : Counted[u] = 0
    BY DEF Init, Counted
  <2>4. h[Units] = 0
    BY <2>2, <2>3, SizeAssumption, SumOfZeros
  <2>5. 0 % NumProcs = 0
    BY AsleepFinite
  <2>. QED  BY <2>2, <2>4, <2>5 DEF Init
<1>2. Inv /\ [Next]_vars => Inv'
  <2>. SUFFICES ASSUME TypeOK, CounterCountsCalls, [Next]_vars
                PROVE  CounterCountsCalls'
    BY TypeStep
  <2>1. TypeOK'
    BY TypeStep
  <2>2. ASSUME NEW u \in Units, Sleep(u) \/ Broadcast(u)
        PROVE  CounterCountsCalls'
    <3>1. Counted' = [Counted EXCEPT ![u] = @ + 1]
      <4>1. /\ Counted[u] = entered[u] - 1 /\ Counted'[u] = entered[u]
            /\ entered[u] \in Nat
        BY <2>2 DEF Sleep, Broadcast, Counted, TypeOK
      <4>2. ASSUME NEW v \in Units \ {u} PROVE Counted'[v] = Counted[v]
        BY <2>2 DEF Sleep, Broadcast, Counted, TypeOK
      <4>3. \A v \in Units : Counted'[v] = [Counted EXCEPT ![u] = @ + 1][v]
        BY <4>1, <4>2 DEF Counted
      <4>. QED  BY <4>3 DEF Counted
    <3>2. num_waiting' = IF num_waiting + 1 < NumProcs THEN num_waiting + 1 ELSE 0
      BY <2>2, AsleepFinite DEF Sleep, Broadcast, TypeOK
    <3>. QED  BY <2>1, <3>1, <3>2, CountedOnce
  <2>3. ASSUME NEW u \in Units,
               Call(u) \/ Lock(u) \/ WakeSpuriously(u) \/ Reacquire(u) \/ Unlock(u)
        PROVE  CounterCountsCalls'
    <3>1. Counted' = Counted /\ num_waiting' = num_waiting
      BY <2>3 DEF Call, Lock, WakeSpuriously, Reacquire, Unlock, Counted, TypeOK
    <3>. QED  BY <2>1, <3>1, CountedKept
  <2>4. CASE Destroy \/ UNCHANGED vars
    <3>1. Counted' = Counted /\ num_waiting' = num_waiting
      BY <2>4 DEF Destroy, vars, Counted
    <3>. QED  BY <2>1, <3>1, CountedKept
  <2>. QED  BY <2>2, <2>3, <2>4 DEF Next, Await
<1>. QED  BY <1>1, <1>2, PTL DEF Spec
=============================================================================
