------------------------------ MODULE Launcher ------------------------------
(***************************************************************************)
(* dartrun, the launcher of the SHMEM runtime, and the units it starts:    *)
(* dartrun.c, dart_init_shmem.c, dart_init_impl.c.  A unit can die at any  *)
(* moment: its program fails, leaves without dart_exit, or execv fails.    *)
(* The launcher tells an end from a failure by the state the unit left in  *)
(* the shared area, and brings the others down after the first failure.    *)
(*                                                                         *)
(* The barrier of Team::All is its counter (SysvBarrier has the rest): a   *)
(* unit that dies asleep in it stays counted.  fork succeeds, and the      *)
(* number of units given to dartrun fits its table: nothing checks it.     *)
(***************************************************************************)
EXTENDS Integers, FiniteSets

CONSTANTS
    NumProcs,   \* what -n says; dart_start refuses what is not positive
    MaxUnits    \* MAXNUM_UNITS: the entries of spawntable

ASSUME NumProcsAssumption == NumProcs \in Nat \ {0} /\ MaxUnits \in Nat /\ NumProcs <= MaxUnits

Units == 0 .. NumProcs - 1

VARIABLES
    launcher,   \* where dart_start is
    i,          \* its loop counter
    table,      \* spawntable: [spawned |-> .., aborted |-> ..] per unit
    reaped,     \* the units waitpid has returned
    pc,         \* pc[u]: where unit u is
    asleep,     \* units asleep in the barrier of Team::All
    numWaiting, \* its counter
    state,      \* state[u]: unitstate in the shared area
    term        \* units SIGTERM was sent to

lvars == <<launcher, i, table, reaped>>
uvars == <<pc, asleep, numWaiting, state>>
vars == <<lvars, uvars, term>>

Init ==
    /\ launcher = "spawn" /\ i = 0
    /\ table = [u \in Units |-> [spawned |-> FALSE, aborted |-> FALSE]]
    /\ reaped = {}
    /\ pc = [u \in Units |-> "unborn"]
    /\ asleep = {} /\ numWaiting = 0
    /\ state = [u \in Units |-> "not_initialized"]          \* shmem_syncarea_init
    /\ term = {}

-----------------------------------------------------------------------------
(* A unit.  dart_init meets one barrier; dart_exit one, dart_exit_shmem one*)
(* and dart_shmem_team_delete one more, then the state is set and the      *)
(* helper thread joined.                                                   *)

Ended(u) == pc[u] \in {"exited", "dead"}
Alive(u) == pc[u] \notin {"unborn", "exited", "dead"}

\* Where a unit goes on behind the barrier it calls from: dart_init's in
\* start, dart_exit's in run, dart_exit_shmem's in exit, the team's deletion
\* in exit_shmem.
After == [start |-> "run", run |-> "exit", exit |-> "exit_shmem", exit_shmem |-> "mark"]

\* Faulty variant: the last unit but one completes the round.
ArriveOneShort(u) ==
    /\ pc[u] \in DOMAIN After /\ u \notin asleep
    /\ IF numWaiting + 2 < NumProcs
       THEN /\ numWaiting' = numWaiting + 1
            /\ asleep' = asleep \union {u}
            /\ UNCHANGED pc
       ELSE /\ numWaiting' = 0
            /\ asleep' = {}
            /\ pc' = [v \in Units |-> IF v \in asleep \union {u} THEN After[pc[v]] ELSE pc[v]]
    /\ UNCHANGED <<lvars, state, term>>

\* sysv_barrier_await
Arrive(u) ==
    /\ pc[u] \in DOMAIN After /\ u \notin asleep
    /\ IF numWaiting + 1 < NumProcs
       THEN /\ numWaiting' = numWaiting + 1
            /\ asleep' = asleep \union {u}
            /\ UNCHANGED pc
       ELSE /\ numWaiting' = 0
            /\ asleep' = {}
            /\ pc' = [v \in Units |-> IF v \in asleep \union {u} THEN After[pc[v]] ELSE pc[v]]
    /\ UNCHANGED <<lvars, state, term>>

\* shmem_syncarea_setunitstate(myid, UNIT_STATE_CLEAN_EXIT)
Mark(u) ==
    /\ pc[u] = "mark"
    /\ state' = [state EXCEPT ![u] = "clean_exit"]
    /\ pc' = [pc EXCEPT ![u] = "join"]
    /\ UNCHANGED <<lvars, asleep, numWaiting, term>>

\* dart_work_queue_shutdown, pthread_join, and the end of the program.
Leave(u) ==
    /\ pc[u] = "join"
    /\ pc' = [pc EXCEPT ![u] = "exited"]
    /\ UNCHANGED <<lvars, asleep, numWaiting, state, term>>

\* Faulty variant: the dead unit is taken out of the counter of the barrier
\* whether it slept in it or not.
DiesUncounted(u) ==
    /\ Alive(u)
    /\ pc' = [pc EXCEPT ![u] = "dead"]
    /\ asleep' = asleep \ {u}
    /\ numWaiting' = IF numWaiting > 0 THEN numWaiting - 1 ELSE 0
    /\ UNCHANGED <<lvars, state, term>>

\* A unit that dies asleep in the barrier stays counted in it.
Dies(u) ==
    /\ Alive(u)
    /\ pc' = [pc EXCEPT ![u] = "dead"]
    /\ asleep' = asleep \ {u}
    /\ UNCHANGED <<lvars, numWaiting, state, term>>

Crash(u) == Dies(u)
Terminate(u) == u \in term /\ Dies(u)

-----------------------------------------------------------------------------
(* The launcher, dart_start.                                               *)

Spawn ==
    /\ launcher = "spawn"
    /\ table' = [table EXCEPT ![i].spawned = TRUE]
    /\ pc' = [pc EXCEPT ![i] = "start"]
    /\ IF i + 1 < NumProcs THEN i' = i + 1 /\ UNCHANGED launcher
                           ELSE i' = 0 /\ launcher' = "wait"
    /\ UNCHANGED <<reaped, asleep, numWaiting, state, term>>

\* Faulty variant: looks at the state of the unit with the number of the round.
WaitLookingAtRound ==
    /\ launcher = "wait"
    /\ \E j \in Units \ reaped :
        /\ Ended(j)
        /\ reaped' = reaped \union {j}
        /\ IF state[i] # "clean_exit"
           THEN /\ table' = [table EXCEPT ![j].aborted = TRUE]
                /\ launcher' = "kill" /\ i' = 0
           ELSE /\ UNCHANGED table
                /\ IF i + 1 < NumProcs THEN i' = i + 1 /\ UNCHANGED launcher
                                       ELSE i' = 0 /\ launcher' = "remove"
    /\ UNCHANGED <<uvars, term>>

\* waitpid(-1, ...): any child that has ended, found in the table by its pid.
Wait ==
    /\ launcher = "wait"
    /\ \E j \in Units \ reaped :
        /\ Ended(j)
        /\ reaped' = reaped \union {j}
        /\ IF state[j] # "clean_exit"
           THEN /\ table' = [table EXCEPT ![j].aborted = TRUE]
                /\ launcher' = "kill" /\ i' = 0
           ELSE /\ UNCHANGED table
                /\ IF i + 1 < NumProcs THEN i' = i + 1 /\ UNCHANGED launcher
                                       ELSE i' = 0 /\ launcher' = "remove"
    /\ UNCHANGED <<uvars, term>>

\* Faulty variant: the loop ends at the unit that failed.
KillUntilAborted ==
    /\ launcher = "kill"
    /\ term' = IF table[i].spawned /\ ~table[i].aborted THEN term \union {i} ELSE term
    /\ IF i + 1 < NumProcs /\ ~table[i].aborted THEN i' = i + 1 /\ UNCHANGED launcher
                                                ELSE i' = 0 /\ launcher' = "remove"
    /\ UNCHANGED <<table, reaped, uvars>>

\* kill(pid, SIGTERM) for every entry but the one that failed.
Kill ==
    /\ launcher = "kill"
    /\ term' = IF table[i].spawned /\ ~table[i].aborted THEN term \union {i} ELSE term
    /\ IF i + 1 < NumProcs THEN i' = i + 1 /\ UNCHANGED launcher
                           ELSE i' = 0 /\ launcher' = "remove"
    /\ UNCHANGED <<table, reaped, uvars>>

\* Detaches and removes the shared area (units attached to it keep it until
\* they end), then dartrun_cleanup.
Remove ==
    /\ launcher = "remove"
    /\ launcher' = "done"
    /\ UNCHANGED <<i, table, reaped, uvars, term>>

LauncherStep == Spawn \/ Wait \/ Kill \/ Remove
UnitStep(u) == Arrive(u) \/ Mark(u) \/ Leave(u)
Next == LauncherStep \/ \E u \in Units : UnitStep(u) \/ Crash(u) \/ Terminate(u)

\* Processes that can run do, and signals are delivered; nothing makes a unit
\* crash.
Fairness ==
    /\ WF_vars(LauncherStep)
    /\ \A u \in Units : WF_vars(UnitStep(u)) /\ WF_vars(Terminate(u))

Spec == Init /\ [][Next]_vars /\ Fairness

-----------------------------------------------------------------------------
(* Properties.                                                             *)

TypeOK ==
    /\ launcher \in {"spawn", "wait", "kill", "remove", "done"} /\ i \in Units
    /\ table \in [Units -> [spawned : BOOLEAN, aborted : BOOLEAN]]
    /\ reaped \subseteq Units /\ asleep \subseteq Units /\ term \subseteq Units
    /\ pc \in [Units -> {"unborn", "start", "run", "exit", "exit_shmem", "mark", "join", "exited", "dead"}]
    /\ numWaiting \in 0 .. NumProcs - 1
    /\ state \in [Units -> {"not_initialized", "clean_exit"}]

\* A unit that is marked as cleanly gone is one no living unit waits for: all
\* of them are behind their last barrier, although dead ones stay counted in
\* it (dart_exit_shmem marks after dart_shmem_team_delete).
MarkedIsUnneeded ==
    \A u \in Units : state[u] = "clean_exit" =>
        \A v \in Units : Ended(v) \/ pc[v] \in {"mark", "join"}

\* A launcher that has sent no signal by the time it takes the shared area
\* away has seen every unit end cleanly; one that has sent some has seen a
\* unit fail (dart_start's wait loop).
VerdictRight ==
    launcher \in {"remove", "done"} =>
        IF \A u \in Units : ~table[u].aborted
        THEN \A u \in Units : Ended(u) /\ state[u] = "clean_exit"
        ELSE \E u \in Units : pc[u] = "dead" /\ state[u] # "clean_exit"

\* Whenever a unit dies, the launcher returns and leaves no unit running.
RunEnds == <>(launcher = "done" /\ \A u \in Units : Ended(u))

-----------------------------------------------------------------------------
(* The inductive invariant behind MarkedIsUnneeded and VerdictRight.       *)

\* The counter of the barrier counts the units asleep in it and some that
\* have died there, so the last living unit to arrive finds all others.
CounterInv ==
    /\ \A u \in asleep : pc[u] \in DOMAIN After
    /\ \E D \in SUBSET {u \in Units : pc[u] = "dead"} :
           numWaiting = Cardinality(asleep \cup D)

Phases == DOMAIN After \cup {"mark"}

\* Where units may be while the last to live are in phase p.
Places(p) ==
    {p, "dead"} \cup (CASE p = "start" -> {"unborn"}
                        [] p = "mark"  -> {"join", "exited"}
                        [] OTHER -> {})

Clean(u) == state[u] = "clean_exit"

\* The living units are between the same two barriers, and only behind the
\* last one units are marked.
PhaseInv ==
    /\ \E p \in Phases : \A u \in Units : pc[u] \in Places(p) /\ (Clean(u) => p = "mark")
    /\ \A u \in Units :
           /\ pc[u] \in {"join", "exited"} => Clean(u)
           /\ Clean(u) => pc[u] \in {"join", "exited", "dead"}

Failed(u) == pc[u] = "dead" /\ ~Clean(u)

\* What each loop of the launcher has found so far.
LauncherInv ==
    /\ launcher \in {"spawn", "wait"} => \A u \in Units : ~table[u].aborted
    /\ launcher = "spawn" => reaped = {} /\ \A u \in Units : u >= i => pc[u] = "unborn"
    /\ launcher = "wait" => Cardinality(reaped) = i
    /\ launcher = "wait" => \A u \in reaped : Ended(u) /\ Clean(u)
    /\ launcher = "kill" => \E u \in Units : table[u].aborted
    /\ \A u \in Units : table[u].aborted => Failed(u)

\* IInv: every state of the launcher and its units has the right types, a
\* counter that accounts for the dead (sysv_barrier_await), units in step
\* and a launcher that has looked at what it says.
IInv == TypeOK /\ CounterInv /\ PhaseInv /\ LauncherInv /\ VerdictRight
=============================================================================
