------------------------- MODULE ShmemProcessProofs -------------------------
(***************************************************************************)
(* Proofs about the processes of the SHMEM runtime: Launcher, for any number*)
(* of processes, any of which may die at any moment, and WorkQueue, for any*)
(* number of threads and places.                                           *)
(***************************************************************************)
EXTENDS Launcher, WorkQueue, SequenceTheorems, FiniteSetTheorems, TLAPS

(* The launcher.                                                           *)

\* There are NumProcs units, and a set of that many units is all of them.
LEMMA UnitsFinite ==
    /\ IsFiniteSet(Units) /\ Cardinality(Units) = NumProcs
    /\ \A S \in SUBSET Units :
           /\ IsFiniteSet(S) /\ Cardinality(S) \in 0 .. NumProcs
           /\ Cardinality(S) = NumProcs => S = Units
<1>1. IsFiniteSet(Units) /\ Cardinality(Units) = NumProcs
  <2>1. IsFiniteSet(0 .. NumProcs - 1)
    BY FS_Interval, NumProcsAssumption
  <2>2. Cardinality(0 .. NumProcs - 1) = (NumProcs - 1) - 0 + 1
    BY FS_Interval, NumProcsAssumption
  <2>. QED  BY <2>1, <2>2, NumProcsAssumption DEF Units
<1>2. ASSUME NEW S \in SUBSET Units
      PROVE  /\ IsFiniteSet(S) /\ Cardinality(S) \in 0 .. NumProcs
             /\ Cardinality(S) = NumProcs => S = Units
  BY <1>1, FS_Subset, FS_CardinalityType, NumProcsAssumption
<1>. QED  BY <1>1, <1>2

\* One more unit is one more in the count.
LEMMA OneMore ==
    ASSUME NEW S \in SUBSET Units, NEW u \in Units, u \notin S
    PROVE  Cardinality(S \cup {u}) = Cardinality(S) + 1
BY UnitsFinite, FS_AddElement

\* The launcher begins with no child and an empty barrier.
LEMMA InitStep == Init => IInv
<1>. SUFFICES ASSUME Init PROVE IInv
  OBVIOUS
<1>1. TypeOK
  BY NumProcsAssumption DEF Init, TypeOK, Units
<1>2. CounterInv
  <2>1. numWaiting = Cardinality(asleep \cup {})
    BY FS_EmptySet DEF Init
  <2>. QED  BY <2>1 DEF Init, CounterInv
<1>3. PhaseInv
  <2>1. \A u \in Units : pc[u] \in Places("start") /\ ~Clean(u)
    BY DEF Init, Places, Clean
  <2>. QED  BY <2>1 DEF Init, PhaseInv, Phases, After, Clean
<1>4. LauncherInv /\ VerdictRight
  BY DEF Init, LauncherInv, VerdictRight
<1>. QED  BY <1>1, <1>2, <1>3, <1>4 DEF IInv

\* A living unit that is not asleep is not in the counter: it either sleeps
\* and is counted, or finds that all others sleep or are dead.
LEMMA ArrivalCounts ==
    ASSUME IInv, NEW u \in Units, pc[u] \in DOMAIN After, u \notin asleep,
           NEW D \in SUBSET {v \in Units : pc[v] = "dead"},
           numWaiting = Cardinality(asleep \cup D)
    PROVE  /\ Cardinality((asleep \cup {u}) \cup D) = numWaiting + 1
           /\ ~(numWaiting + 1 < NumProcs) =>
                  \A v \in Units : v \in asleep \cup {u} \/ pc[v] = "dead"
<1>. DEFINE S == asleep \cup D
<1>1. S \in SUBSET Units /\ u \notin S
  BY DEF IInv, TypeOK, After
<1>2. Cardinality(S \cup {u}) = numWaiting + 1
  BY <1>1, OneMore
<1>3. (asleep \cup {u}) \cup D = S \cup {u} /\ S \cup {u} \in SUBSET Units
  BY <1>1
<1>4. ASSUME ~(numWaiting + 1 < NumProcs) PROVE S \cup {u} = Units
  BY <1>2, <1>3, <1>4, UnitsFinite, NumProcsAssumption DEF IInv, TypeOK
<1>. QED  BY <1>2, <1>3, <1>4

\* sysv_barrier_await.
LEMMA ArriveStep ==
    ASSUME IInv, NEW u \in Units, Arrive(u)
    PROVE  IInv'
<1>. USE DEF IInv
<1>1. PICK D \in SUBSET {v \in Units : pc[v] = "dead"} : numWaiting = Cardinality(asleep \cup D)
  BY DEF CounterInv
<1>2. PICK p \in Phases : \A v \in Units : pc[v] \in Places(p) /\ (Clean(v) => p = "mark")
  BY DEF PhaseInv
<1>3. u \notin asleep /\ pc[u] \in DOMAIN After
  BY DEF Arrive
<1>4. CASE numWaiting + 1 < NumProcs
  <2>1. /\ numWaiting' = numWaiting + 1 /\ asleep' = asleep \cup {u}
        /\ UNCHANGED <<pc, lvars, state, term>>
    BY <1>4 DEF Arrive
  <2>2. TypeOK'
    BY <1>4, <2>1, NumProcsAssumption DEF TypeOK, lvars
  <2>3. CounterInv'
    <3>1. D \in SUBSET {v \in Units : pc'[v] = "dead"}
      BY <2>1
    <3>2. numWaiting' = Cardinality(asleep' \cup D)
      BY <1>1, <1>3, <2>1, ArrivalCounts
    <3>3. \A v \in asleep' : pc'[v] \in DOMAIN After
      BY <1>3, <2>1 DEF CounterInv
    <3>. QED  BY <3>1, <3>2, <3>3 DEF CounterInv
  <2>4. PhaseInv'
    BY <2>1 DEF PhaseInv, Clean
  <2>5. LauncherInv' /\ VerdictRight'
    BY <2>1 DEF LauncherInv, VerdictRight, Clean, Failed, Ended, lvars
  <2>. QED  BY <2>2, <2>3, <2>4, <2>5
<1>5. CASE ~(numWaiting + 1 < NumProcs)
  <2>1. /\ numWaiting' = 0 /\ asleep' = {}
        /\ pc' = [v \in Units |-> IF v \in asleep \cup {u} THEN After[pc[v]] ELSE pc[v]]
        /\ UNCHANGED <<lvars, state, term>>
    BY <1>5 DEF Arrive
  <2>2. \A v \in Units : v \in asleep \cup {u} \/ pc[v] = "dead"
    BY <1>1, <1>3, <1>5, ArrivalCounts
  <2>3. \A v \in asleep \cup {u} : v \in Units /\ pc[v] \in DOMAIN After
    BY <1>3 DEF TypeOK, CounterInv
  <2>4. DOMAIN After = {"start", "run", "exit", "exit_shmem"}
    BY DEF After
  <2>5. \A v \in asleep \cup {u} : pc[v] = p
    BY <1>2, <2>3, <2>4 DEF Places, Phases
  <2>6. p \in DOMAIN After /\ p # "mark"
    BY <2>3, <2>4, <2>5
  <2>7. \A v \in Units : pc'[v] = IF v \in asleep \cup {u} THEN After[p] ELSE "dead"
    BY <2>1, <2>2, <2>5
  <2>8. After[p] \in Phases
    BY <2>6 DEF After, Phases
  <2>9. TypeOK'
    <3>1. After[p] \in {"run", "exit", "exit_shmem", "mark"}
      BY <2>6 DEF After
    <3>. QED  BY <2>1, <2>7, <3>1, NumProcsAssumption DEF TypeOK, lvars
  <2>10. CounterInv'
    <3>1. numWaiting' = Cardinality(asleep' \cup {})
      BY <2>1, FS_EmptySet
    <3>. QED  BY <2>1, <3>1 DEF CounterInv
  <2>11. \A v \in Units : ~Clean(v) /\ ~Clean(v)'
    BY <1>2, <2>1, <2>6 DEF Clean
  <2>12. PhaseInv'
    <3>1. \A v \in Units : pc'[v] \in Places(After[p])
      BY <2>7 DEF Places
    <3>2. After[p] \notin {"join", "exited", "dead"}
      BY <2>6 DEF After
    <3>. QED  BY <2>7, <2>8, <2>11, <3>1, <3>2 DEF PhaseInv
  <2>13. \A v \in Units : /\ Ended(v) => Ended(v)' /\ pc'[v] = pc[v]
                          /\ pc[v] # "unborn"
    BY <2>1, <2>2, <2>3, <2>4 DEF Ended
  <2>14. LauncherInv' /\ VerdictRight'
    BY <2>1, <2>11, <2>13 DEF LauncherInv, VerdictRight, Clean, Failed, Ended, lvars, TypeOK
  <2>. QED  BY <2>9, <2>10, <2>12, <2>14
<1>. QED  BY <1>4, <1>5

\* The unit tells the launcher that it ends as it should.
LEMMA MarkStep ==
    ASSUME IInv, NEW u \in Units, Mark(u)
    PROVE  IInv'
<1>. USE DEF IInv
<1>1. PICK p \in Phases : \A v \in Units : pc[v] \in Places(p) /\ (Clean(v) => p = "mark")
  BY DEF PhaseInv
<1>2. p = "mark"
  BY <1>1 DEF Mark, Places, Phases, After
<1>3. \A v \in Units : (Ended(v)' <=> Ended(v)) /\ (Ended(v) => Clean(v)' = Clean(v) /\ pc'[v] = pc[v])
  BY DEF Mark, Ended, Clean, TypeOK
<1>4. TypeOK'
  BY DEF Mark, TypeOK, lvars
<1>5. CounterInv'
  BY DEF Mark, CounterInv, After, TypeOK
<1>6. PhaseInv'
  <2>1. \A v \in Units : pc'[v] \in Places("mark")
    BY <1>1, <1>2 DEF Mark, Places, TypeOK
  <2>2. \A v \in Units : /\ pc'[v] \in {"join", "exited"} => Clean(v)'
                         /\ Clean(v)' => pc'[v] \in {"join", "exited", "dead"}
    BY DEF Mark, PhaseInv, Clean, TypeOK
  <2>. QED  BY <2>1, <2>2, <1>2 DEF PhaseInv, Phases
<1>7. LauncherInv' /\ VerdictRight'
  BY <1>3 DEF Mark, LauncherInv, VerdictRight, Failed, Ended, lvars, TypeOK, Clean
<1>. QED  BY <1>4, <1>5, <1>6, <1>7

\* dart_exit returns and the program ends.
LEMMA LeaveStep ==
    ASSUME IInv, NEW u \in Units, Leave(u)
    PROVE  IInv'
<1>. USE DEF IInv
<1>1. PICK p \in Phases : \A v \in Units : pc[v] \in Places(p) /\ (Clean(v) => p = "mark")
  BY DEF PhaseInv
<1>2. p = "mark"
  BY <1>1 DEF Leave, Places, Phases, After
<1>3. \A v \in Units : (Ended(v) => Ended(v)') /\ (pc[v] = "dead" <=> pc'[v] = "dead")
  BY DEF Leave, Ended, TypeOK
<1>4. TypeOK'
  BY DEF Leave, TypeOK, lvars
<1>5. CounterInv'
  BY <1>3 DEF Leave, CounterInv, After, TypeOK
<1>6. PhaseInv'
  <2>1. \A v \in Units : pc'[v] \in Places("mark")
    BY <1>1, <1>2 DEF Leave, Places, TypeOK
  <2>2. \A v \in Units : /\ pc'[v] \in {"join", "exited"} => Clean(v)'
                         /\ Clean(v)' => pc'[v] \in {"join", "exited", "dead"}
    BY DEF Leave, PhaseInv, Clean, TypeOK
  <2>. QED  BY <2>1, <2>2, <1>2 DEF PhaseInv, Phases
<1>7. LauncherInv' /\ VerdictRight'
  BY <1>3 DEF Leave, LauncherInv, VerdictRight, Failed, lvars, TypeOK, Clean
<1>. QED  BY <1>4, <1>5, <1>6, <1>7

\* A unit that dies asleep stays in the counter.
LEMMA DiesStep ==
    ASSUME IInv, NEW u \in Units, Dies(u)
    PROVE  IInv'
<1>. USE DEF IInv
<1>1. PICK D \in SUBSET {v \in Units : pc[v] = "dead"} : numWaiting = Cardinality(asleep \cup D)
  BY DEF CounterInv
<1>2. PICK p \in Phases : \A v \in Units : pc[v] \in Places(p) /\ (Clean(v) => p = "mark")
  BY DEF PhaseInv
<1>3. \A v \in Units : /\ Ended(v) => Ended(v)' /\ pc'[v] = pc[v]
                       /\ pc'[v] \in {pc[v], "dead"}
                       /\ pc[v] = "unborn" => pc'[v] = "unborn"
  BY DEF Dies, Ended, Alive, TypeOK
<1>4. TypeOK'
  BY DEF Dies, TypeOK, lvars
<1>5. CounterInv'
  <2>. DEFINE E == IF u \in asleep THEN D \cup {u} ELSE D
  <2>1. E \in SUBSET {v \in Units : pc'[v] = "dead"}
    BY DEF Dies, TypeOK
  <2>2. asleep' \cup E = asleep \cup D
    <3>1. u \notin D
      BY DEF Dies, Alive
    <3>. QED  BY <3>1 DEF Dies
  <2>3. \A v \in asleep' : pc'[v] \in DOMAIN After
    BY DEF Dies, CounterInv, TypeOK
  <2>4. numWaiting' = Cardinality(asleep' \cup E)
    BY <1>1, <2>2 DEF Dies
  <2>. HIDE DEF E
  <2>. QED  BY <2>1, <2>3, <2>4 DEF CounterInv
<1>6. PhaseInv'
  <2>1. \A v \in Units : pc'[v] \in Places(p) /\ (Clean(v)' => p = "mark")
    BY <1>2, <1>3 DEF Dies, Places, Clean
  <2>2. \A v \in Units : /\ pc'[v] \in {"join", "exited"} => Clean(v)'
                         /\ Clean(v)' => pc'[v] \in {"join", "exited", "dead"}
    BY <1>3 DEF Dies, PhaseInv, Clean
  <2>. QED  BY <2>1, <2>2 DEF PhaseInv
<1>7. UNCHANGED <<lvars, state>>
  BY DEF Dies
<1>8. LauncherInv'
  BY <1>3, <1>7 DEF LauncherInv, Failed, lvars, TypeOK, Clean
<1>9. VerdictRight'
  <2>1. \A v \in Units : /\ Ended(v) => Ended(v)'
                         /\ pc[v] = "dead" => pc'[v] = "dead"
    BY <1>3 DEF Ended
  <2>. QED  BY <1>7, <2>1 DEF VerdictRight, lvars
<1>. QED  BY <1>4, <1>5, <1>6, <1>8, <1>9

\* fork and execv of one more unit.
LEMMA SpawnStep ==
    ASSUME IInv, Spawn
    PROVE  IInv'
<1>. USE DEF IInv
<1>1. PICK p \in Phases : \A v \in Units : pc[v] \in Places(p) /\ (Clean(v) => p = "mark")
  BY DEF PhaseInv
<1>2. i \in Units /\ i \in Nat /\ pc[i] = "unborn"
  BY NumProcsAssumption DEF Spawn, LauncherInv, TypeOK, Units
<1>3. p = "start"
  BY <1>1, <1>2 DEF Places, Phases, After
<1>4. TypeOK'
  <2>1. i' \in Units /\ launcher' \in {"spawn", "wait"}
    BY <1>2, NumProcsAssumption DEF Spawn, Units
  <2>. QED  BY <1>2, <2>1 DEF Spawn, TypeOK
<1>5. CounterInv'
  BY <1>2 DEF Spawn, CounterInv, After, TypeOK
<1>6. PhaseInv'
  <2>1. \A v \in Units : pc'[v] \in Places("start") /\ ~Clean(v)'
    BY <1>1, <1>3 DEF Spawn, Places, Clean, TypeOK
  <2>2. \A v \in Units : pc'[v] \notin {"join", "exited"}
    BY <2>1 DEF Places
  <2>. QED  BY <1>3, <2>1, <2>2 DEF PhaseInv
<1>7. LauncherInv'
  <2>1. \A v \in Units : ~table[v].aborted /\ ~table'[v].aborted
    BY <1>2 DEF Spawn, LauncherInv, TypeOK
  <2>2. reaped' = {} /\ launcher' \in {"spawn", "wait"}
    BY DEF Spawn, LauncherInv
  <2>3. launcher' = "spawn" => \A v \in Units : v >= i' => pc'[v] = "unborn"
    BY <1>2 DEF Spawn, LauncherInv, TypeOK, Units
  <2>4. launcher' = "wait" => i' = 0
    BY DEF Spawn
  <2>5. Cardinality({}) = 0
    BY FS_EmptySet
  <2>. QED  BY <2>1, <2>2, <2>3, <2>4, <2>5 DEF LauncherInv
<1>8. VerdictRight'
  BY DEF Spawn, VerdictRight
<1>. QED  BY <1>4, <1>5, <1>6, <1>7, <1>8

\* waitpid returns a unit that has ended: cleanly, or the others are killed.
LEMMA WaitStep ==
    ASSUME IInv, Wait
    PROVE  IInv'
<1>. USE DEF IInv
<1>1. PICK j \in Units \ reaped :
         /\ Ended(j)
         /\ reaped' = reaped \union {j}
         /\ IF state[j] # "clean_exit"
            THEN /\ table' = [table EXCEPT ![j].aborted = TRUE]
                 /\ launcher' = "kill" /\ i' = 0
            ELSE /\ UNCHANGED table
                 /\ IF i + 1 < NumProcs THEN i' = i + 1 /\ UNCHANGED launcher
                                        ELSE i' = 0 /\ launcher' = "remove"
  BY DEF Wait
<1>2. launcher = "wait" /\ UNCHANGED uvars /\ UNCHANGED term
  BY DEF Wait
<1>3. i \in Nat /\ i \in Units
  BY NumProcsAssumption DEF TypeOK, Units
<1>4. TypeOK'
  <2>1. i' \in Units
    BY <1>1, <1>3, NumProcsAssumption DEF Units
  <2>2. table' \in [Units -> [spawned : BOOLEAN, aborted : BOOLEAN]]
    <3>1. j \in Units /\ table[j] \in [spawned : BOOLEAN, aborted : BOOLEAN]
      BY DEF TypeOK
    <3>2. [table[j] EXCEPT !.aborted = TRUE] \in [spawned : BOOLEAN, aborted : BOOLEAN]
      BY <3>1
    <3>3. table' = table \/ table' = [table EXCEPT ![j] = [table[j] EXCEPT !.aborted = TRUE]]
      BY <1>1
    <3>. QED  BY <3>2, <3>3 DEF TypeOK
  <2>3. reaped' \subseteq Units /\ launcher' \in {"wait", "kill", "remove"}
    BY <1>1, <1>2 DEF TypeOK
  <2>. QED  BY <1>2, <2>1, <2>2, <2>3 DEF TypeOK, uvars
<1>5. CounterInv' /\ PhaseInv'
  BY <1>2 DEF CounterInv, PhaseInv, Clean, uvars
<1>6. Cardinality(reaped') = i + 1
  BY <1>1, <1>2, OneMore DEF LauncherInv, TypeOK
<1>7. CASE ~Clean(j)
  <2>1. Failed(j)
    BY <1>1, <1>7 DEF PhaseInv, Ended, Failed
  <2>2. \A v \in Units : table'[v].aborted <=> v = j
    BY <1>1, <1>2, <1>7 DEF Clean, LauncherInv, TypeOK
  <2>3. launcher' = "kill"
    BY <1>1, <1>7 DEF Clean
  <2>. QED  BY <1>2, <1>4, <1>5, <2>1, <2>2, <2>3
            DEF LauncherInv, VerdictRight, Failed, Clean, uvars
<1>8. CASE Clean(j)
  <2>1. table' = table /\ \A v \in Units : ~table[v].aborted
    BY <1>1, <1>2, <1>8 DEF Clean, LauncherInv
  <2>2. \A v \in reaped' : Ended(v)' /\ Clean(v)'
    BY <1>1, <1>2, <1>8 DEF LauncherInv, Ended, Clean, uvars
  <2>3. CASE i + 1 < NumProcs
    BY <1>1, <1>2, <1>4, <1>5, <1>6, <1>8, <2>1, <2>2, <2>3
       DEF Clean, LauncherInv, VerdictRight
  <2>4. CASE ~(i + 1 < NumProcs)
    <3>1. i + 1 = NumProcs
      BY <1>3, <2>4, NumProcsAssumption DEF Units
    <3>2. reaped' = Units
      BY <1>4, <1>6, <3>1, UnitsFinite DEF TypeOK
    <3>3. launcher' = "remove"
      BY <1>1, <1>8, <2>4 DEF Clean
    <3>. QED  BY <1>4, <1>5, <2>1, <2>2, <3>2, <3>3 DEF LauncherInv, VerdictRight, Clean
  <2>. QED  BY <2>3, <2>4
<1>. QED  BY <1>7, <1>8

\* SIGTERM to one unit after another, then the end.
LEMMA KillStep ==
    ASSUME IInv, Kill \/ Remove
    PROVE  IInv'
<1>. USE DEF IInv
<1>1. TypeOK'
  <2>1. i' \in Units
    BY NumProcsAssumption DEF Kill, Remove, TypeOK, Units
  <2>2. term' \subseteq Units /\ launcher' \in {"kill", "remove", "done"}
    BY DEF Kill, Remove, TypeOK
  <2>. QED  BY <2>1, <2>2 DEF Kill, Remove, TypeOK, uvars
<1>2. CounterInv' /\ PhaseInv'
  BY DEF Kill, Remove, CounterInv, PhaseInv, Clean, uvars
<1>3. LauncherInv'
  BY DEF Kill, Remove, LauncherInv, Failed, Clean, uvars
<1>4. VerdictRight'
  BY DEF Kill, Remove, VerdictRight, LauncherInv, Failed, Clean, Ended, uvars
<1>. QED  BY <1>1, <1>2, <1>3, <1>4

\* Units and launcher stay accounted for, however many units die and when.
THEOREM LauncherInvariance == Spec => []IInv
<1>1. Init => IInv
  BY InitStep
<1>2. IInv /\ [Next]_vars => IInv'
  <2>. SUFFICES ASSUME IInv, [Next]_vars PROVE IInv'
    OBVIOUS
  <2>1. CASE LauncherStep
    BY <2>1, SpawnStep, WaitStep, KillStep DEF LauncherStep
  <2>2. CASE \E u \in Units : UnitStep(u) \/ Crash(u) \/ Terminate(u)
    BY <2>2, ArriveStep, MarkStep, LeaveStep, DiesStep DEF UnitStep, Crash, Terminate
  <2>3. CASE UNCHANGED vars
    BY <2>3 DEF IInv, TypeOK, CounterInv, PhaseInv, LauncherInv, VerdictRight, Ended, Clean,
                Failed, vars, lvars, uvars
  <2>. QED  BY <2>1, <2>2, <2>3 DEF Next
<1>. QED  BY <1>1, <1>2, PTL DEF Spec

\* The launcher takes no failure for an end and no end for a failure.
THEOREM LauncherVerdict == Spec => []VerdictRight
<1>1. IInv => VerdictRight
  BY DEF IInv
<1>. QED  BY <1>1, LauncherInvariance, PTL

\* A unit marked as cleanly gone is one that no living unit waits for.
THEOREM MarksAreFinal == Spec => []MarkedIsUnneeded
<1>1. IInv => MarkedIsUnneeded
  <2>. SUFFICES ASSUME IInv, NEW u \in Units, Clean(u), NEW v \in Units
                PROVE  Ended(v) \/ pc[v] \in {"mark", "join"}
    BY DEF MarkedIsUnneeded, Clean
  <2>1. pc[v] \in Places("mark")
    BY DEF IInv, PhaseInv
  <2>. QED  BY <2>1 DEF Places, Ended
<1>. QED  BY <1>1, LauncherInvariance, PTL

-----------------------------------------------------------------------------
(* The work queue: the ring is a bounded first-in first-out channel.       *)

\* A place is at most once round the ring away.
LEMMA OnceRound ==
    /\ \A x \in 0 .. MaxItems - 1 : x % MaxItems = x
    /\ \A x \in MaxItems .. 2 * MaxItems - 1 : x % MaxItems = x - MaxItems
<1>1. ASSUME NEW M \in Nat \ {0}, NEW x \in 0 .. M - 1 PROVE x % M = x
  OBVIOUS
<1>2. ASSUME NEW M \in Nat \ {0}, NEW x \in M .. 2 * M - 1 PROVE x % M = x - M
  OBVIOUS
<1>. QED  BY <1>1, <1>2, SizesAssumption

\* Counting places forward from one in the ring.
LEMMA Wrap ==
    ASSUME NEW a \in Slots, NEW b \in 0 .. MaxItems
    PROVE  /\ (a + b) % MaxItems = IF a + b < MaxItems THEN a + b ELSE (a + b) - MaxItems
           /\ (a + b) % MaxItems \in Slots
<1>1. a + b \in 0 .. 2 * MaxItems - 1
  BY SizesAssumption DEF Slots
<1>2. CASE a + b < MaxItems
  <2>1. a + b \in 0 .. MaxItems - 1
    BY <1>1, <1>2, SizesAssumption
  <2>. QED  BY <1>2, <2>1, OnceRound DEF Slots
<1>3. CASE ~(a + b < MaxItems)
  <2>. DEFINE x == a + b
  <2>1. x \in MaxItems .. 2 * MaxItems - 1
    BY <1>1, <1>3, SizesAssumption
  <2>2. x - MaxItems \in 0 .. MaxItems - 1
    BY <2>1, SizesAssumption DEF Slots
  <2>. HIDE DEF x
  <2>3. x % MaxItems = x - MaxItems
    BY <2>1, OnceRound
  <2>4. /\ x % MaxItems = IF x < MaxItems THEN x ELSE x - MaxItems
        /\ x % MaxItems \in Slots
    BY <2>1, <2>2, <2>3, SizesAssumption DEF Slots
  <2>. QED  BY <2>4 DEF x
<1>. QED  BY <1>2, <1>3

\* The items in the ring are a sequence of nitems of them.
LEMMA RingIsSequence ==
    QueueInv =>
        /\ Ring \in Seq(Work \union {NoItem}) /\ Len(Ring) = nitems
        /\ \A k \in 1 .. nitems : /\ (nextPop + k - 1) % MaxItems \in Slots
                                  /\ Ring[k] = work[(nextPop + k - 1) % MaxItems]
<1>. SUFFICES ASSUME QueueInv
              PROVE  /\ Ring \in Seq(Work \union {NoItem}) /\ Len(Ring) = nitems
                     /\ \A k \in 1 .. nitems :
                            /\ (nextPop + k - 1) % MaxItems \in Slots
                            /\ Ring[k] = work[(nextPop + k - 1) % MaxItems]
  OBVIOUS
<1>1. nitems \in Nat
  BY SizesAssumption DEF QueueInv
<1>2. ASSUME NEW k \in 1 .. nitems
      PROVE  (nextPop + k - 1) % MaxItems \in Slots
  <2>1. k - 1 \in 0 .. MaxItems /\ nextPop + (k - 1) = nextPop + k - 1
    BY SizesAssumption DEF QueueInv, Slots
  <2>. QED  BY <2>1, Wrap DEF QueueInv
<1>3. Ring \in [1 .. nitems -> Work \union {NoItem}]
  BY <1>2 DEF Ring, QueueInv
<1>. QED  BY <1>1, <1>2, <1>3, SeqDef, LenProperties DEF Ring

\* The items between head and tail are as many as nitems says.
LEMMA RingLength == QueueInv => Ring \in Seq(Work \union {NoItem}) /\ Len(Ring) = nitems
BY RingIsSequence

\* A sequence that is another one and one more element at its end.
LEMMA AppendedAt ==
    ASSUME NEW S, NEW s \in Seq(S), NEW e \in S, NEW r \in Seq(S),
           Len(r) = Len(s) + 1, r[Len(s) + 1] = e, \A k \in 1 .. Len(s) : r[k] = s[k]
    PROVE  r = Append(s, e)
<1>1. /\ Append(s, e) \in Seq(S) /\ Len(Append(s, e)) = Len(r)
      /\ \A k \in 1 .. Len(r) : Append(s, e)[k] = r[k]
  BY AppendProperties, LenProperties
<1>. QED  BY <1>1, SeqEqual

\* The queue begins empty.
LEMMA QInitStep == QInit => QueueInv /\ C!CInit(NoItem)
<1>. SUFFICES ASSUME QInit PROVE QueueInv /\ C!CInit(NoItem)
  OBVIOUS
<1>1. 0 \in Slots
  BY SizesAssumption DEF Slots
<1>2. QueueInv
  <2>1. (0 + 0) % MaxItems = 0
    BY <1>1, Wrap, SizesAssumption DEF Slots
  <2>2. work \in [Slots -> Work \union {NoItem}]
    BY DEF QInit
  <2>3. pushed \in [Threads -> 0 .. Pushes]
    BY SizesAssumption DEF QInit
  <2>4. (nextPop + nitems) % MaxItems = nextPush /\ nitems \in 0 .. MaxItems
    BY <2>1, SizesAssumption DEF QInit
  <2>. QED  BY <1>1, <2>2, <2>3, <2>4 DEF QInit, QueueInv
<1>3. Ring = <<>>
  BY <1>2, RingIsSequence, EmptySeq DEF QInit
<1>. QED  BY <1>2, <1>3 DEF QInit, C!CInit

\* What a thread may push is an item.
LEMMA NextItemIsWork ==
    ASSUME QueueInv, NEW t \in Threads
    PROVE  NextItem(t) \in Work
BY SizesAssumption DEF QueueInv, NextItem, Work

\* dart_work_queue_push_item on a full queue changes nothing in it.
LEMMA PushWaitsStep ==
    ASSUME QueueInv, NEW t \in Threads, PushWaits(t)
    PROVE  QueueInv' /\ UNCHANGED C!cvars
<1>1. QueueInv'
  BY SizesAssumption DEF QueueInv, PushWaits, MayPush, queue
<1>2. UNCHANGED C!cvars
  BY DEF PushWaits, queue, C!cvars, Ring
<1>. QED  BY <1>1, <1>2

\* dart_work_queue_push_item puts one item behind the others.
LEMMA PushStep ==
    ASSUME QueueInv, NEW t \in Threads, Push(t)
    PROVE  QueueInv' /\ C!Put(NextItem(t))
<1>. DEFINE e == NextItem(t)
<1>1. e \in Work
  BY NextItemIsWork
<1>2. nitems \in 0 .. MaxItems - 1 /\ nitems' = nitems + 1 /\ nitems' \in 1 .. MaxItems
  BY SizesAssumption DEF Push, QueueInv
<1>3. nextPush \in Slots /\ nextPop \in Slots /\ nextPop' = nextPop
  BY DEF QueueInv, Push
<1>4. (nextPop' + nitems') % MaxItems = nextPush' /\ nextPush' \in Slots
  <2>1. (nextPush + 1) % MaxItems = IF nextPush + 1 < MaxItems THEN nextPush + 1 ELSE (nextPush + 1) - MaxItems
    BY <1>3, Wrap, SizesAssumption
  <2>2. (nextPop + nitems) % MaxItems
            = IF nextPop + nitems < MaxItems THEN nextPop + nitems ELSE (nextPop + nitems) - MaxItems
    BY <1>2, <1>3, Wrap, SizesAssumption
  <2>3. (nextPop + (nitems + 1)) % MaxItems
            = IF nextPop + (nitems + 1) < MaxItems THEN nextPop + (nitems + 1)
              ELSE (nextPop + (nitems + 1)) - MaxItems
    BY <1>2, <1>3, Wrap, SizesAssumption
  <2>4. (nextPop + nitems) % MaxItems = nextPush /\ nextPush' = (nextPush + 1) % MaxItems
    BY DEF QueueInv, Push
  <2>5. (nextPush + 1) % MaxItems \in Slots
    BY <1>3, Wrap, SizesAssumption
  <2>6. (nextPop + (nitems + 1)) % MaxItems = (nextPush + 1) % MaxItems
    BY <1>2, <1>3, <2>1, <2>2, <2>3, <2>4, SizesAssumption DEF Slots
  <2>. QED  BY <1>2, <1>3, <2>4, <2>5, <2>6
<1>5. QueueInv'
  <2>1. work' \in [Slots -> Work \union {NoItem}]
    BY <1>1, <1>3 DEF Push, QueueInv
  <2>2. pushed' \in [Threads -> 0 .. Pushes] /\ at' \in [Threads -> {"run", "join", "done"}]
    BY SizesAssumption DEF Push, QueueInv
  <2>3. waitEmpty' => nitems' = 0 /\ helper' = "pop"
    <3>1. CASE waitEmpty
      <4>1. nitems' = 1
        BY <1>2, <3>1 DEF QueueInv
      <4>. QED  BY <4>1 DEF Push
    <3>2. CASE ~waitEmpty
      BY <3>2 DEF Push
    <3>. QED  BY <3>1, <3>2
  <2>4. waitEmpty' \in BOOLEAN
    BY DEF Push
  <2>5. users' = {Main} /\ waitFull' # {} => nitems' = MaxItems
    BY DEF Push, MayPush, QueueInv
  <2>. QED  BY <1>2, <1>3, <1>4, <2>1, <2>2, <2>3, <2>4, <2>5 DEF Push, QueueInv
<1>6. Ring' = Append(Ring, e)
  <2>1. /\ Ring \in Seq(Work \union {NoItem}) /\ Len(Ring) = nitems
        /\ \A k \in 1 .. nitems : /\ (nextPop + k - 1) % MaxItems \in Slots
                                  /\ Ring[k] = work[(nextPop + k - 1) % MaxItems]
    BY RingIsSequence
  <2>2. ASSUME NEW k \in 1 .. nitems
        PROVE  (nextPop + k - 1) % MaxItems # nextPush
    <3>1. k - 1 \in 0 .. MaxItems /\ nextPop + (k - 1) = nextPop + k - 1
      BY <1>2, <1>3, SizesAssumption DEF Slots
    <3>2. (nextPop + k - 1) % MaxItems
              = IF nextPop + (k - 1) < MaxItems THEN nextPop + (k - 1) ELSE (nextPop + (k - 1)) - MaxItems
      BY <1>3, <3>1, Wrap
    <3>3. (nextPop + nitems) % MaxItems
              = IF nextPop + nitems < MaxItems THEN nextPop + nitems ELSE (nextPop + nitems) - MaxItems
      BY <1>2, <1>3, Wrap, SizesAssumption
    <3>4. (nextPop + nitems) % MaxItems = nextPush
      BY DEF QueueInv
    <3>. QED  BY <1>2, <1>3, <3>2, <3>3, <3>4, SizesAssumption DEF Slots
  <2>3. ASSUME NEW k \in 1 .. nitems + 1
        PROVE  work'[(nextPop + k - 1) % MaxItems] = IF k = nitems + 1 THEN e ELSE Ring[k]
    <3>1. CASE k = nitems + 1
      <4>1. nextPop + k - 1 = nextPop + nitems
        BY <1>2, <1>3, <3>1 DEF Slots
      <4>2. (nextPop + k - 1) % MaxItems = nextPush
        BY <4>1 DEF QueueInv
      <4>. QED  BY <1>3, <3>1, <4>2 DEF Push, QueueInv
    <3>2. CASE k # nitems + 1
      <4>1. k \in 1 .. nitems
        BY <1>2, <3>2
      <4>. QED  BY <2>1, <2>2, <3>2, <4>1 DEF Push, QueueInv
    <3>. QED  BY <3>1, <3>2
  <2>4. Ring' \in Seq(Work \union {NoItem}) /\ Len(Ring') = nitems + 1
    <3>1. (Ring \in Seq(Work \union {NoItem}) /\ Len(Ring) = nitems)'
      BY <1>5, RingLength, PTL
    <3>. QED  BY <1>2, <3>1
  <2>5. \A k \in 1 .. nitems + 1 : Ring'[k] = IF k = nitems + 1 THEN e ELSE Ring[k]
    BY <1>2, <1>3, <2>3 DEF Ring
  <2>. HIDE DEF e
  <2>6. Ring'[nitems + 1] = e /\ \A k \in 1 .. nitems : Ring'[k] = Ring[k]
    BY <1>2, <2>5
  <2>. QED  BY <1>1, <1>2, <2>1, <2>4, <2>6, AppendedAt
<1>7. UNCHANGED item /\ Len(Ring) < MaxItems
  BY RingIsSequence DEF Push
<1>. QED  BY <1>5, <1>6, <1>7 DEF C!Put

\* The first place behind the head when the head has gone.
LEMMA PopStep ==
    ASSUME QueueInv, Pop
    PROVE  QueueInv' /\ C!Take
<1>1. nitems \in 1 .. MaxItems /\ nitems' = nitems - 1 /\ nitems' \in 0 .. MaxItems
  BY SizesAssumption DEF Pop, QueueInv
<1>2. nextPush \in Slots /\ nextPop \in Slots
  BY DEF QueueInv
<1>3. ASSUME NEW b \in 0 .. MaxItems - 1
      PROVE  (((nextPop + 1) % MaxItems) + b) % MaxItems = (nextPop + (b + 1)) % MaxItems
  <2>1. (nextPop + 1) % MaxItems = IF nextPop + 1 < MaxItems THEN nextPop + 1 ELSE (nextPop + 1) - MaxItems
    BY <1>2, Wrap, SizesAssumption
  <2>2. (nextPop + 1) % MaxItems \in Slots
    BY <1>2, Wrap, SizesAssumption
  <2>. DEFINE y == (nextPop + 1) % MaxItems
  <2>3. (y + b) % MaxItems = IF y + b < MaxItems THEN y + b ELSE (y + b) - MaxItems
    BY <2>2, Wrap, SizesAssumption
  <2>4. (nextPop + (b + 1)) % MaxItems
            = IF nextPop + (b + 1) < MaxItems THEN nextPop + (b + 1) ELSE (nextPop + (b + 1)) - MaxItems
    BY <1>2, Wrap, SizesAssumption
  <2>5. y \in Slots /\ y = IF nextPop + 1 < MaxItems THEN nextPop + 1 ELSE (nextPop + 1) - MaxItems
    BY <2>1, <2>2
  <2>. HIDE DEF y
  <2>6. (y + b) % MaxItems = (nextPop + (b + 1)) % MaxItems
    BY <1>2, <2>3, <2>4, <2>5, SizesAssumption DEF Slots
  <2>. QED  BY <2>6 DEF y
<1>4. nextPop' \in Slots /\ (nextPop' + nitems') % MaxItems = nextPush
  <2>1. nextPop' = (nextPop + 1) % MaxItems /\ nextPop' \in Slots
    BY <1>2, Wrap, SizesAssumption DEF Pop
  <2>2. nitems' \in 0 .. MaxItems - 1 /\ nitems' + 1 = nitems
    BY <1>1, SizesAssumption
  <2>3. (nextPop' + nitems') % MaxItems = (nextPop + (nitems' + 1)) % MaxItems
    BY <1>3, <2>1, <2>2
  <2>. QED  BY <2>1, <2>2, <2>3 DEF QueueInv
<1>5. waitFull' \subseteq waitFull /\ (users = {Main} => waitFull' = {} \/ nitems' # MaxItems - 1)
  BY <1>1 DEF Pop, SignalOne, QueueInv
<1>6. QueueInv'
  <2>1. item' \in Work \union {NoItem}
    BY <1>2 DEF Pop, QueueInv
  <2>2. users' = {Main} /\ waitFull' # {} => nitems' = MaxItems
    BY <1>1, <1>5, SizesAssumption DEF Pop, QueueInv
  <2>. QED  BY <1>1, <1>2, <1>4, <1>5, <2>1, <2>2 DEF Pop, QueueInv
<1>7. /\ Ring \in Seq(Work \union {NoItem}) /\ Len(Ring) = nitems
      /\ \A k \in 1 .. nitems : Ring[k] = work[(nextPop + k - 1) % MaxItems]
  BY RingIsSequence
<1>8. Ring # <<>> /\ Head(Ring) = work[nextPop]
  <2>1. nextPop + 1 - 1 = nextPop + 0
    BY <1>2 DEF Slots
  <2>3. (nextPop + 0) % MaxItems = nextPop
    BY <1>2, OnceRound DEF Slots
  <2>2. Ring # <<>>
    BY <1>1, <1>7, EmptySeq
  <2>. QED  BY <1>1, <1>7, <2>1, <2>2, <2>3
<1>9. Ring' = Tail(Ring)
  <2>1. (Ring \in Seq(Work \union {NoItem}) /\ Len(Ring) = nitems)'
    BY <1>6, RingLength, PTL
  <2>2. /\ Tail(Ring) \in Seq(Work \union {NoItem}) /\ Len(Tail(Ring)) = nitems - 1
        /\ \A k \in 1 .. nitems - 1 : Tail(Ring)[k] = Ring[k + 1]
    BY <1>7, <1>8, HeadTailProperties
  <2>3. ASSUME NEW k \in 1 .. nitems - 1
        PROVE  Ring'[k] = Ring[k + 1]
    <3>1. k - 1 \in 0 .. MaxItems - 1 /\ (k - 1) + 1 = k /\ k + 1 \in 1 .. nitems
      BY <1>1, SizesAssumption
    <3>2. (nextPop' + (k - 1)) % MaxItems = (nextPop + k) % MaxItems
      BY <1>3, <3>1 DEF Pop
    <3>3. Ring'[k] = work'[(nextPop' + k - 1) % MaxItems]
      BY <1>1 DEF Ring
    <3>4. nextPop' + k - 1 = nextPop' + (k - 1) /\ nextPop + (k + 1) - 1 = nextPop + k
      BY <1>2, <1>4 DEF Slots
    <3>5. Ring[k + 1] = work[(nextPop + (k + 1) - 1) % MaxItems]
      BY <1>7, <3>1
    <3>. QED  BY <3>2, <3>3, <3>4, <3>5 DEF Pop
  <2>. QED  BY <1>1, <2>1, <2>2, <2>3, SeqEqual
<1>. QED  BY <1>6, <1>8, <1>9 DEF C!Take, Pop

\* The other steps leave the ring and the item taken out as they are.
LEMMA OtherStep ==
    ASSUME QueueInv, PopWaits \/ Execute \/ Join \/ WakeSpuriously \/ UNCHANGED qvars
    PROVE  QueueInv' /\ UNCHANGED C!cvars
<1>1. UNCHANGED C!cvars
  BY DEF PopWaits, Execute, Join, WakeSpuriously, qvars, queue, C!cvars, Ring
<1>2. ASSUME PopWaits PROVE QueueInv'
  BY <1>2 DEF PopWaits, QueueInv, queue
<1>3. ASSUME Execute PROVE QueueInv'
  BY <1>3 DEF Execute, QueueInv, queue
<1>4. ASSUME Join PROVE QueueInv'
  BY <1>4 DEF Join, QueueInv, queue
<1>5. ASSUME WakeSpuriously PROVE QueueInv'
  <2>1. (waitEmpty' => waitEmpty) /\ waitEmpty' \in BOOLEAN /\ waitFull' \subseteq waitFull
    <3>1. CASE waitEmpty' = FALSE /\ UNCHANGED waitFull
      BY <3>1
    <3>2. CASE \E t \in waitFull : waitFull' = waitFull \ {t} /\ UNCHANGED waitEmpty
      BY <3>2 DEF QueueInv
    <3>. QED  BY <1>5, <3>1, <3>2 DEF WakeSpuriously
  <2>. QED  BY <1>5, <2>1 DEF WakeSpuriously, QueueInv, queue
<1>6. ASSUME UNCHANGED qvars PROVE QueueInv'
  BY <1>6 DEF qvars, QueueInv, queue
<1>. QED  BY <1>1, <1>2, <1>3, <1>4, <1>5, <1>6

\* Every step puts one item in, takes one out, or leaves the channel alone.
LEMMA NextStep ==
    ASSUME QueueInv, [QNext]_qvars
    PROVE  QueueInv' /\ [C!CNext]_(C!cvars)
<1>1. ASSUME NEW t \in Threads, ThreadStep(t)
      PROVE  QueueInv' /\ [C!CNext]_(C!cvars)
  <2>1. CASE PushWaits(t)
    BY <2>1, PushWaitsStep
  <2>2. CASE Push(t)
    <3>1. QueueInv' /\ C!Put(NextItem(t))
      BY <2>2, PushStep
    <3>. QED  BY <3>1, NextItemIsWork DEF C!CNext
  <2>. QED  BY <1>1, <2>1, <2>2 DEF ThreadStep
<1>2. ASSUME Pop PROVE QueueInv' /\ [C!CNext]_(C!cvars)
  BY <1>2, PopStep DEF C!CNext
<1>3. ASSUME PopWaits \/ Execute \/ Join \/ WakeSpuriously \/ UNCHANGED qvars
      PROVE  QueueInv' /\ [C!CNext]_(C!cvars)
  BY <1>3, OtherStep
<1>. QED  BY <1>1, <1>2, <1>3 DEF QNext, HelperStep

\* The indices and the count fit together, and sleepers are where they may be,
\* in every reachable state (dart_helper_thread.c).
THEOREM QueueInvariance == QSpec => []QueueInv
<1>1. QInit => QueueInv
  BY QInitStep
<1>2. QueueInv /\ [QNext]_qvars => QueueInv'
  BY NextStep
<1>. QED  BY <1>1, <1>2, PTL DEF QSpec

\* The ring is a first-in first-out channel of MaxItems places, for any number
\* of threads that push into it.
THEOREM RingIsChannel == QSpec => ImplementsChannel
<1>1. QInit => C!CInit(NoItem)
  BY QInitStep
<1>2. QueueInv /\ [QNext]_qvars => [C!CNext]_(C!cvars)
  BY NextStep
<1>. QED  BY <1>1, <1>2, QueueInvariance, PTL DEF QSpec, ImplementsChannel
=============================================================================
