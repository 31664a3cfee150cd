----------------------------- MODULE SysvBarrier -----------------------------
(***************************************************************************)
(* The process-shared barrier of a team slot in                            *)
(* dart-impl/shmem/src/shmem_barriers_sysv.c: a mutex, a condition         *)
(* variable and a counter.  sysv_barrier_await counts itself under the     *)
(* mutex; all but the last sleep in one pthread_cond_wait that is not in a *)
(* loop, the last one resets the counter and broadcasts.                   *)
(*                                                                         *)
(* POSIX allows pthread_cond_wait to return without a broadcast; whether   *)
(* one has done so is the variable spurious.  Up to then the barrier keeps *)
(* its promise; the counter stays right after it, too.                     *)
(*                                                                         *)
(* A definition marked as a faulty variant is no part of the system: it is *)
(* the step after it with a mistake that a property must notice.           *)
(***************************************************************************)
EXTENDS Naturals, FiniteSets, FiniteSetsExt

CONSTANTS
    Units,            \* the members of the team
    Root,             \* unit 0 of the team, which destroys the barrier
    Nobody,           \* the owner of a free mutex
    NumProcs,         \* barrier->num_procs
    Rounds            \* bound: calls of the barrier each unit makes

ASSUME SizeAssumption ==
    /\ IsFiniteSet(Units) /\ Root \in Units /\ Nobody \notin Units
    /\ NumProcs = Cardinality(Units)
    /\ Rounds \in Nat

VARIABLES
    owner,        \* owner of barrier->mutex
    num_waiting,  \* barrier->num_waiting
    alive,        \* sysv_barrier_destroy has not been called
    pc,           \* pc[u]: where u is in sysv_barrier_await
    entered,      \* entered[u]: calls u has made
    left,         \* left[u]: calls u has returned from
    spurious      \* a wait has returned without a broadcast

vars == <<owner, num_waiting, alive, pc, entered, left, spurious>>

\* out: not in the barrier; entering: blocked in pthread_mutex_lock;
\* locked: has the mutex; asleep: in pthread_cond_wait; woken: still in
\* pthread_cond_wait, wants the mutex back; leaving: has it, will unlock.
PCs == {"out", "entering", "locked", "asleep", "woken", "leaving"}

\* TypeOK: the values of the shared barrier and of the units in it.
TypeOK ==
    /\ owner \in Units \cup {Nobody}
    /\ num_waiting \in Nat
    /\ alive \in BOOLEAN
    /\ pc \in [Units -> PCs]
    /\ entered \in [Units -> Nat]
    /\ left \in [Units -> Nat]
    /\ spurious \in BOOLEAN

\* sysv_barrier_create.
Init ==
    /\ owner = Nobody
    /\ num_waiting = 0
    /\ alive = TRUE
    /\ pc = [u \in Units |-> "out"]
    /\ entered = [u \in Units |-> 0]
    /\ left = [u \in Units |-> 0]
    /\ spurious = FALSE

-----------------------------------------------------------------------------
(* sysv_barrier_await.                                                     *)

Call(u) ==
    /\ pc[u] = "out"
    /\ entered[u] < Rounds
    /\ entered' = [entered EXCEPT ![u] = @ + 1]
    /\ pc' = [pc EXCEPT ![u] = "entering"]
    /\ UNCHANGED <<owner, num_waiting, alive, left, spurious>>

Lock(u) ==
    /\ pc[u] = "entering"
    /\ owner = Nobody
    /\ owner' = u
    /\ pc' = [pc EXCEPT ![u] = "locked"]
    /\ UNCHANGED <<num_waiting, alive, entered, left, spurious>>

\* Not the last one: count, and sleep without the mutex.
Sleep(u) ==
    /\ pc[u] = "locked"
    /\ num_waiting + 1 < NumProcs
    /\ num_waiting' = num_waiting + 1
    /\ owner' = Nobody
    /\ pc' = [pc EXCEPT ![u] = "asleep"]
    /\ UNCHANGED <<alive, entered, left, spurious>>

\* Faulty variants: the counter is not reset, the test is off by one, one
\* sleeper is signalled instead of all.
BroadcastWithoutReset(u) ==
    /\ pc[u] = "locked"
    /\ num_waiting + 1 >= NumProcs
    /\ pc' = [v \in Units |->
                 IF v = u THEN "leaving"
                 ELSE IF pc[v] = "asleep" THEN "woken" ELSE pc[v]]
    /\ UNCHANGED <<owner, num_waiting, alive, entered, left, spurious>>

BroadcastOneShort(u) ==
    /\ pc[u] = "locked"
    /\ num_waiting + 2 >= NumProcs
    /\ num_waiting' = 0
    /\ pc' = [v \in Units |->
                 IF v = u THEN "leaving"
                 ELSE IF pc[v] = "asleep" THEN "woken" ELSE pc[v]]
    /\ UNCHANGED <<owner, alive, entered, left, spurious>>

SignalOne(u) ==
    /\ pc[u] = "locked"
    /\ num_waiting + 1 >= NumProcs
    /\ num_waiting' = 0
    /\ \E w \in Units :
           /\ pc[w] = "asleep"
           /\ pc' = [pc EXCEPT ![u] = "leaving", ![w] = "woken"]
    /\ UNCHANGED <<owner, alive, entered, left, spurious>>

\* The last one: reset the counter and wake everybody who sleeps.
Broadcast(u) ==
    /\ pc[u] = "locked"
    /\ num_waiting + 1 >= NumProcs
    /\ num_waiting' = 0
    /\ pc' = [v \in Units |->
                 IF v = u THEN "leaving"
                 ELSE IF pc[v] = "asleep" THEN "woken" ELSE pc[v]]
    /\ UNCHANGED <<owner, alive, entered, left, spurious>>

\* pthread_cond_wait returns although nobody has called broadcast.
WakeSpuriously(u) ==
    /\ pc[u] = "asleep"
    /\ pc' = [pc EXCEPT ![u] = "woken"]
    /\ spurious' = TRUE
    /\ UNCHANGED <<owner, num_waiting, alive, entered, left>>

\* pthread_cond_wait takes the mutex again before it returns.
Reacquire(u) ==
    /\ pc[u] = "woken"
    /\ owner = Nobody
    /\ owner' = u
    /\ pc' = [pc EXCEPT ![u] = "leaving"]
    /\ UNCHANGED <<num_waiting, alive, entered, left, spurious>>

Unlock(u) ==
    /\ pc[u] = "leaving"
    /\ owner' = Nobody
    /\ pc' = [pc EXCEPT ![u] = "out"]
    /\ left' = [left EXCEPT ![u] = @ + 1]
    /\ UNCHANGED <<num_waiting, alive, entered, spurious>>

-----------------------------------------------------------------------------
\* sysv_barrier_destroy, called by unit 0 when it returns from the last
\* barrier of dart_shmem_team_delete.  Other units may still be in it.  The
\* result of pthread_mutex_destroy is ignored: a busy mutex stays usable.
Destroy ==
    /\ alive
    /\ pc[Root] = "out" /\ left[Root] = Rounds
    /\ alive' = FALSE
    /\ UNCHANGED <<owner, num_waiting, pc, entered, left, spurious>>

Await(u) ==
    Lock(u) \/ Sleep(u) \/ Broadcast(u) \/ Reacquire(u) \/ Unlock(u)

Next == (\E u \in Units : Call(u) \/ Await(u) \/ WakeSpuriously(u)) \/ Destroy

Spec == Init /\ [][Next]_vars

\* A unit inside the barrier runs; a program that calls the barrier calls it
\* at every unit.
Fairness == \A u \in Units : WF_vars(Call(u)) /\ WF_vars(Await(u))

FairSpec == Spec /\ Fairness

-----------------------------------------------------------------------------
Barrier == INSTANCE RoundBarrier

\* ImplementsRoundBarrier: as long as every wait has ended with a broadcast,
\* sysv_barrier_await lets a unit out of its n-th call only after every unit
\* has made its n-th call, also when fast units are back in the barrier
\* before slow ones have been woken.
ImplementsRoundBarrier ==
    Barrier!BInit /\ [][spurious' \/ Barrier!BNext]_(Barrier!bvars)

Asleep == {u \in Units : pc[u] = "asleep"}

\* num_waiting is the number of units asleep, and they are never all asleep;
\* a round starts with a counter of 0.
CounterCountsSleepers ==
    /\ num_waiting = Cardinality(Asleep)
    /\ num_waiting < NumProcs

\* EveryCallReturns: if the units keep calling the barrier, a call returns,
\* unless a wait has returned without a broadcast.
EveryCallReturns ==
    \A u \in Units : (pc[u] # "out" /\ ~ spurious) ~> (pc[u] = "out" \/ spurious)

\* CounterCountsCalls: whatever wakes the sleepers, num_waiting is the number
\* of calls that have counted themselves, modulo the size of the team: a
\* unit that leaves early stays counted, and its next call takes the place of
\* a call some other unit has not made.
CounterCountsCalls ==
    LET counted(u) == IF pc[u] \in {"entering", "locked"}
                      THEN entered[u] - 1 ELSE entered[u]
    IN  num_waiting = MapThenSumSet(counted, Units) % NumProcs

-----------------------------------------------------------------------------
(* The inductive invariant.                                                *)

\* The rounds u knows to be complete: all it has called when it is out or
\* on its way out, all but the current one otherwise.
Completed(u) ==
    IF pc[u] \in {"out", "woken", "leaving"} THEN entered[u] ELSE entered[u] - 1

RoundInv ==
    /\ \A u \in Units :
           /\ pc[u] = "out" => left[u] = entered[u]
           /\ pc[u] # "out" => left[u] + 1 = entered[u]
    /\ \A u, v \in Units : Completed(u) = Completed(v)

MutexInv ==
    \A u \in Units : pc[u] \in {"locked", "leaving"} <=> owner = u

\* Every wait has ended with a broadcast.
Orderly == TypeOK /\ RoundInv /\ MutexInv /\ CounterCountsSleepers

IInv == TypeOK /\ (spurious \/ Orderly)
==============================================================================
