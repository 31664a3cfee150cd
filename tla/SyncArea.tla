------------------------------ MODULE SyncArea ------------------------------
(***************************************************************************)
(* The synchronisation area of the SHMEM runtime, shmem_barriers_sysv.c:   *)
(* one structure in shared memory with a slot per team, a slot per lock    *)
(* and the next free team id.  Every operator here is the body of a        *)
(* function that holds area->barrier_lock from beginning to end, so each   *)
(* is one atomic step of its caller.                                       *)
(*                                                                         *)
(* A barrier object is its number of processes, the units asleep in it and *)
(* the units a broadcast has woken that have not returned yet; that the    *)
(* code of sysv_barrier_await amounts to this is module SysvBarrier.  It   *)
(* is torn when its mutex and its condition have been initialised anew     *)
(* while woken units were still on their way out through them.             *)
(***************************************************************************)
EXTENDS Integers, FiniteSets, FiniteSetsExt

CONSTANTS
    MaxTeams,   \* MAXNUM_TEAMS
    MaxLocks    \* MAXNUM_LOCKS

ASSUME SizesAssumption == MaxTeams \in Nat \ {0} /\ MaxLocks \in Nat

TeamAll == 0        \* DART_TEAM_ALL
NoTeam == -1        \* DART_TEAM_NULL
NoSlot == -1
TeamSlots == 0 .. MaxTeams - 1
LockSlots == 0 .. MaxLocks - 1

ValidSlot(s) == s \in TeamSlots         \* SLOT_IS_VALID

NewBarrier(n) == [procs |-> n, asleep |-> {}, woken |-> {}, torn |-> FALSE]

\* shmem_syncarea_init, by the launcher before there are units.
AreaInit(n) ==
    [teams |-> [s \in TeamSlots |->
                   [inuse |-> s = 0, id |-> TeamAll,
                    barr |-> NewBarrier(IF s = 0 THEN n ELSE 0)]],
     locks |-> [l \in LockSlots |-> [inuse |-> FALSE, team |-> TeamAll]],
     nextid |-> 1]

SlotsOf(area, t) == {s \in TeamSlots : area.teams[s].inuse /\ area.teams[s].id = t}

\* shmem_syncarea_findteam: the first slot in use with that id.
FindTeam(area, t) == IF SlotsOf(area, t) = {} THEN NoSlot ELSE Min(SlotsOf(area, t))

\* dart_barrier and the queries of dart_teams_impl.c do not look up team 0.
SlotFor(area, t) == IF t = TeamAll THEN 0 ELSE FindTeam(area, t)

FreeTeamSlots(area) == {s \in TeamSlots \ {0} : ~area.teams[s].inuse}

\* shmem_syncarea_newteam when there is a free slot.  The barrier object is
\* made anew: a unit asleep in the old one is forgotten.  One already woken is
\* still to take and give back the old mutex, which sysv_barrier_create
\* overwrites; that is undefined.  It may find the new mutex free and return,
\* it may sleep on the overwritten one for ever, and its unlock may let two
\* units count at once in the new barrier, whose round is then never full.  So
\* whoever is in a torn barrier, or enters it, returns or never does.
NewTeam(area, s, n) ==
    LET leaving == area.teams[s].barr.woken
    IN  [area EXCEPT !.teams[s] =
             [inuse |-> TRUE, id |-> area.nextid,
              barr |-> [procs |-> n, asleep |-> {}, woken |-> leaving, torn |-> leaving # {}]],
                     !.nextid = @ + 1]

\* shmem_syncarea_delteam: slot 0 is never deleted.
DelTeam(area, t) ==
    LET s == FindTeam(area, t)
    IN  IF s >= 1 THEN [area EXCEPT !.teams[s].inuse = FALSE] ELSE area

FreeLockSlots(area) == {l \in LockSlots : ~area.locks[l].inuse}

\* The search of dart_team_lock_init; MAXNUM_LOCKS when all are in use.
FreeLock(area) == IF FreeLockSlots(area) = {} THEN MaxLocks ELSE Min(FreeLockSlots(area))

\* Faulty variant: the slot is not marked.
TakeLockUnmarked(area, l, t) ==
    IF l \in LockSlots THEN [area EXCEPT !.locks[l].team = t] ELSE area

TakeLock(area, l, t) ==
    IF l \in LockSlots THEN [area EXCEPT !.locks[l] = [inuse |-> TRUE, team |-> t]] ELSE area

DropLock(area, l) ==
    IF l \in LockSlots THEN [area EXCEPT !.locks[l].inuse = FALSE] ELSE area

\* sysv_barrier_await: asleep unless u completes the round.
Completes(area, s) ==
    Cardinality(area.teams[s].barr.asleep) + 1 >= area.teams[s].barr.procs

\* Faulty variant: pthread_cond_signal instead of broadcast.
AwaitSignalling(area, s, u) ==
    LET b == area.teams[s].barr
        one == {v \in b.asleep : v = Max(b.asleep)}
    IN  [area EXCEPT !.teams[s].barr =
            IF Completes(area, s)
            THEN [b EXCEPT !.asleep = b.asleep \ one, !.woken = b.woken \union one]
            ELSE [b EXCEPT !.asleep = b.asleep \union {u}]]

Await(area, s, u) ==
    LET b == area.teams[s].barr
    IN  [area EXCEPT !.teams[s].barr =
            IF Completes(area, s)
            THEN [b EXCEPT !.asleep = {}, !.woken = b.woken \union b.asleep]
            ELSE [b EXCEPT !.asleep = b.asleep \union {u}]]

Wake(area, s, u) == [area EXCEPT !.teams[s].barr.woken = @ \ {u}]
=============================================================================
