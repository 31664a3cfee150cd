---------------------------- MODULE GlobalMemory ----------------------------
(***************************************************************************)
(* Collective global memory of the MPI runtime: dart_globmem.c over the    *)
(* translation table of dart_translation.c, and how dart_communication.c   *)
(* turns a global pointer and a unit into the memory it accesses.          *)
(*                                                                         *)
(* A region is what one collective allocation or registration creates; it  *)
(* is named by its communicator and the number of the call.  A pointer     *)
(* holds a segment id, counted by the unit that computed it, and in its    *)
(* flags the slot the team has at that unit.                               *)
(***************************************************************************)
EXTENDS TeamRegistry

CONSTANTS
    Node,     \* Node[u]: the node u runs on; its units share memory
    MaxSeg    \* INT16_MAX

ASSUME NodeAssumption == Units \subseteq DOMAIN Node
ASSUME SegAssumption == MaxSeg \in Nat \ {0}

VARIABLES
    memid,       \* memid[u]: dart_memid
    registerid,  \* registerid[u]: dart_registermemid
    table,       \* table[u]: the translation table, a list in order of addition
    pointers     \* pointers[u]: the pointers u holds to the start of regions

memoryVars == <<memid, registerid, table, pointers>>
vars == <<registryVars, memoryVars>>

Init ==
    /\ RegistryInit
    /\ memid = [u \in Units |-> 1]
    /\ registerid = [u \in Units |-> -1]
    /\ table = [u \in Units |-> <<>>]
    /\ pointers = [u \in Units |-> {}]

\* int16_t arithmetic.
Wrap(n) == ((n + MaxSeg + 1) % (2 * (MaxSeg + 1))) - MaxSeg - 1

-----------------------------------------------------------------------------
(* The translation table.                                                  *)

\* Faulty variant: the lookup returns the last entry that was added.
LookupLast(u, seg) == Len(table[u])

\* Position of the first entry of a segment, 0 if there is none.
Lookup(u, seg) == SelectInSeq(table[u], LAMBDA e : e.seg = seg)

\* Segment 0 is no entry: it is the memory dart_init reserves at every unit
\* for local allocation, with a window of its own for MPI_COMM_WORLD.
Pool == <<World, 0>>

RegionOf(u, seg) == IF seg = 0 THEN Pool ELSE table[u][Lookup(u, seg)].region

-----------------------------------------------------------------------------
(* Ranks, as MPI_Group_translate_ranks finds them.                         *)

Nobody == -1
Rank(g, v) == SelectInSeq(g, LAMBDA w : w = v) - 1
UnitAt(g, rank) == IF rank + 1 \in DOMAIN g THEN g[rank + 1] ELSE Nobody

\* The members of c on the node of u, by their rank there.
Neighbours(c, u) == Kept(members[c], {v \in Units : Node[v] = Node[u]})

-----------------------------------------------------------------------------
(* dart_team_memalloc_aligned and dart_team_memregister_aligned.           *)

EnterMemalloc(u, t, op) ==
    /\ Known(u, t)
    /\ Make(u, CommOf(u, t), [op |-> op, arg |-> <<>>])
    /\ At(u, op, CommOf(u, t), SlotOf(u, t), 0)
    /\ UNCHANGED <<listVars, memoryVars>>

\* MPI_Allgather has returned: the region gets the next segment id of the
\* caller, and an entry at the end of the table.
NewSegment(u, seg, registered) ==
    LET region == <<pc[u].comm, pc[u].n>>
    IN  /\ Everybody(u)
        /\ table' = [table EXCEPT ![u] = Append(@, [seg |-> seg, region |-> region])]
        /\ pointers' = [pointers EXCEPT ![u] = @ \cup
               {[seg |-> seg, flags |-> pc[u].slot, region |-> region,
                registered |-> registered]}]
        /\ Leave(u)
        /\ UNCHANGED <<mpiVars, listVars>>

FinishMemalloc(u) ==
    /\ pc[u].at = "memalloc"
    /\ NewSegment(u, memid[u], FALSE)
    /\ memid' = [memid EXCEPT ![u] = Wrap(@ + 1)]
    /\ UNCHANGED registerid

FinishMemregister(u) ==
    /\ pc[u].at = "memregister"
    /\ NewSegment(u, registerid[u], TRUE)
    /\ registerid' = [registerid EXCEPT ![u] = Wrap(@ - 1)]
    /\ UNCHANGED memid

-----------------------------------------------------------------------------
(* dart_team_memfree and dart_team_memderegister.  The program frees a     *)
(* region before it destroys its team.                                     *)

Alive(u, p) == p.region[1] \in Teams(u) /\ pc[u] = Idle

\* dart_adapt_transtable_remove.
RemoveEntry(u, seg) ==
    /\ Lookup(u, seg) # 0
    /\ table' = [table EXCEPT ![u] = RemoveAt(@, Lookup(u, seg))]

EnterMemfree(u, p) ==
    /\ Alive(u, p) /\ ~ p.registered
    /\ Make(u, p.region[1], [op |-> "memfree", arg |-> p.region])
    /\ At(u, "memfree", p.region[1], p.flags, p.seg)
    /\ UNCHANGED <<listVars, memoryVars>>

\* MPI_Win_free of the shared window returns when the members on the same
\* node are there.
FinishMemfree(u) ==
    LET seg == pc[u].pos
        region == CurrentCall(u).request.arg
    IN  /\ pc[u].at = "memfree"
        /\ MadeBy(Members(Neighbours(pc[u].comm, u)), pc[u].comm, pc[u].n)
        /\ RemoveEntry(u, seg)
        /\ pointers' = [pointers EXCEPT ![u] = {p \in @ : p.region # region}]
        /\ Leave(u)
        /\ UNCHANGED <<mpiVars, listVars, memid, registerid>>

\* Nothing in dart_team_memderegister waits for the other members.
Memderegister(u, p) ==
    /\ Alive(u, p) /\ p.registered
    /\ Make(u, p.region[1], [op |-> "memderegister", arg |-> p.region])
    /\ RemoveEntry(u, p.seg)
    /\ pointers' = [pointers EXCEPT ![u] = @ \ {p}]
    /\ UNCHANGED <<pc, listVars, memid, registerid>>

-----------------------------------------------------------------------------
(* Access to a unit's part of a region.                                    *)

\* What dart_memalloc returns, with flags 0 whatever the teams of the unit.
LocalPointer == [seg |-> 0, flags |-> 0, region |-> Pool, registered |-> FALSE]

\* unit_g2l: the rank of v in the team of the slot.
G2L(u, slot, v) == IF slot = 0 THEN v ELSE Rank(members[teams[u][slot]], v)

\* The memory MPI_Get or MPI_Put reaches: the window of the slot picks the
\* unit, the displacement is the address of that rank's part of the region.
Through(u, p, rank) ==
    LET region == RegionOf(u, p.seg)
    IN  [region |-> region,
         unit |-> UnitAt(members[wins[u][p.flags]], rank),
         address |-> UnitAt(members[region[1]], rank)]

\* dart_sharedmem_table has an entry for v: memcpy to the base pointer of
\* its rank on the node.
SharesNode(u, p, v) == p.seg >= 0 /\ v \in Members(Neighbours(teams[u][p.flags], u))

Copied(u, p, v) ==
    LET region == RegionOf(u, p.seg)
        rank == Rank(Neighbours(teams[u][p.flags], u), v)
        part == UnitAt(Neighbours(region[1], u), rank)
    IN  [region |-> region, unit |-> part, address |-> part]

\* Where dart_get, dart_put, dart_accumulate and dart_get_blocking go.
Reached(u, p, v) ==
    IF SharesNode(u, p, v) THEN Copied(u, p, v)
    ELSE Through(u, p, G2L(u, p.flags, v))

\* dart_get_handle and dart_put_blocking translate the unit only when the
\* segment id is positive.
ReachedByHandle(u, p, v) ==
    IF SharesNode(u, p, v) THEN Copied(u, p, v)
    ELSE Through(u, p, IF p.seg > 0 THEN G2L(u, p.flags, v) ELSE v)

-----------------------------------------------------------------------------
MemoryStep(u) ==
    \/ \E t \in TeamIds(u), op \in {"memalloc", "memregister"} :
           EnterMemalloc(u, t, op)
    \/ FinishMemalloc(u) \/ FinishMemregister(u) \/ FinishMemfree(u)
    \/ \E p \in pointers[u] : EnterMemfree(u, p) \/ Memderegister(u, p)

Next ==
    \/ RegistryNext /\ UNCHANGED memoryVars
    \/ \E u \in Units : MemoryStep(u)

Spec == Init /\ [][Next]_vars

-----------------------------------------------------------------------------
\* TypeOK: the tables of the global memory.
TypeOK ==
    /\ RegistryTypeOK
    /\ memid \in [Units -> Int] /\ registerid \in [Units -> Int]
    /\ table \in [Units -> Seq([seg : Int, region : (DOMAIN members) \X Nat])]
    /\ pointers \in [Units -> SUBSET [seg : Int, flags : Slots, registered : BOOLEAN,
                                      region : (DOMAIN members) \X Nat]]

\* TablesWellFormed: at every unit the team slots are partitioned into free
\* ones and those of its teams (SlotsConserved), and its list of teams is in
\* the order the binary search needs (IdsIncrease), after any sequence of
\* dart_team_create and dart_team_destroy; all tables have their types.
TablesWellFormed == TypeOK /\ SlotsConserved /\ IdsIncrease

\* PointersResolve: at the unit that computed it, a pointer to a region that
\* is not freed finds the entry of that region, alone in the table with its
\* segment id, whatever was allocated, registered and freed in between.
PointersResolve ==
    \A u \in Units : \A p \in pointers[u] :
        /\ \E i \in DOMAIN table[u] : table[u][i] = [seg |-> p.seg, region |-> p.region]
        /\ \A i, j \in DOMAIN table[u] :
               table[u][i].seg = p.seg /\ table[u][j].seg = p.seg => i = j

\* AccessesHit: every pointer resolves, and through it dart_get, dart_put and
\* their kin reach the part of the unit they are asked for, near or far, also
\* when team slots have been recycled, when units have the team in different
\* slots and when the ranks in the team and on the node are not those of the
\* program; so do pointers of dart_memalloc, and handle and blocking
\* operations on memory that is not registered (seg >= 0).
AccessesHit ==
    PointersResolve /\ \A u \in Units : \A p \in pointers[u] \cup {LocalPointer} : Alive(u, p) =>
        \A v \in Members(members[p.region[1]]) :
            LET hit == [region |-> p.region, unit |-> v, address |-> v]
            IN  Reached(u, p, v) = hit /\ (p.seg >= 0 => ReachedByHandle(u, p, v) = hit)

-----------------------------------------------------------------------------
(* The inductive invariant.                                                *)

\* The calls in which a unit can be, and those u has made.
Collective == {"memalloc", "memregister"}
CallsOf(u) == MapThenSumSet(LAMBDA c : made[c][u], DOMAIN members)

\* Every segment id given out, or about to be, is that of a call u has made.
SegmentsCounted(u) ==
    /\ memid[u] > 0 /\ registerid[u] < 0
    /\ memid[u] - registerid[u] - 2 + (IF pc[u].at \in Collective THEN 1 ELSE 0) <= CallsOf(u)

\* The entries of the table have ids given out before, each its own.
EntriesKnown(u) ==
    /\ \A i \in DOMAIN table[u] :
           LET seg == table[u][i].seg
           IN  seg # 0 /\ registerid[u] < seg /\ seg < memid[u]
    /\ \A i, j \in DOMAIN table[u] : table[u][i].seg = table[u][j].seg => i = j

\* A pointer has its entry, its region is a call its unit has made, and if
\* the unit has the team of the region, its slot is in the flags.
PointerKnown(u, p) ==
    /\ p.region[2] \in 1 .. made[p.region[1]][u]
    /\ \E i \in DOMAIN table[u] : table[u][i] = [seg |-> p.seg, region |-> p.region]
    /\ p.registered <=> p.seg < 0
    /\ \A i \in DOMAIN allocated[u] :
           teams[u][allocated[u][i].index] = p.region[1] => allocated[u][i].index = p.flags

PointersKnown(u) ==
    /\ \A p \in pointers[u] : PointerKnown(u, p)
    /\ \A p, q \in pointers[u] : p.seg = q.seg \/ p.region = q.region => p = q

\* A unit in an allocation has its team in the slot and no pointer to the
\* region yet; one that frees still has the pointer.
InMemoryCall(u) ==
    /\ pc[u].at \in Collective =>
           /\ \E i \in DOMAIN allocated[u] : allocated[u][i].index = pc[u].slot
           /\ teams[u][pc[u].slot] = pc[u].comm
           /\ \A p \in pointers[u] : p.region # <<pc[u].comm, pc[u].n>>
    /\ pc[u].at = "memfree" =>
           \E p \in pointers[u] : p.seg = pc[u].pos /\ p.region = CurrentCall(u).request.arg

UnitMemory(u) == EntriesKnown(u) /\ PointersKnown(u) /\ InMemoryCall(u)

MemoryInv ==
    /\ TypeOK /\ CallsMade <= MaxCalls
    /\ \A u \in Units : SegmentsCounted(u) /\ UnitMemory(u)
=============================================================================
