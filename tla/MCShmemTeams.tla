---------------------------- MODULE MCShmemTeams ----------------------------
(* Instance of ShmemTeams for TLC: three units, two team slots besides the  *)
(* world's, one lock slot.                                                  *)
EXTENDS ShmemTeams

ThreeUnits == 0 .. 2
NoGroup == EmptyGroup

\* The groups of the programs: members added in descending order, taken from
\* the world's group one by one, or cut out of it.
GroupOf ==
    LET added(S) == FoldRight(LAMBDA v, g : AddMember(g, v), Ascending(S), EmptyGroup)
        halves   == GroupSplit(WorldGroup, 2)
    IN  [S \in SUBSET ThreeUnits |->
            IF S = {0, 2} THEN DelMember(WorldGroup, 1)
            ELSE IF S = {0, 1} THEN halves[1]
            ELSE IF S = {2} THEN GroupIntersect(halves[2], WorldGroup, WorldGroup)
            ELSE IF S = {0, 1, 2} THEN GroupUnion(halves[2], halves[1], EmptyGroup)
            ELSE added(S)]

Create(on, S) == Op("create", on, GroupOf[S], 0)
Destroy(on) == Op("destroy", on, NoGroup, 0)
Coll(kind, on, root) == Op(kind, on, NoGroup, root)

\* Slots recycled while other teams live, a third team without a slot, teams
\* of teams.
TeamPrograms ==
    UNION {{<<Create(0, G), Create(0, H), Destroy(1), Create(2, K), Destroy(2)>> :
               K \in {{2}, {0, 2}, {1, 2}} \intersect SUBSET H} :
           G \in {{0, 1}, {1, 2}}, H \in {{0, 2}, {1, 2}}}
    \union {<<Create(0, {0, 1}), Create(0, {1, 2}), Create(0, {0, 2}), Destroy(2)>>,
            <<Create(0, {0, 1, 2}), Create(1, {1, 2}), Destroy(2), Destroy(1), Create(0, {0, 1})>>}

\* Collectives one after the other, with and without barriers.
CollectivePrograms ==
    {<<Create(0, G), Coll(k, 1, r), Coll(m, 1, 0), Destroy(1)>> :
        G \in {{1, 2}, {0, 1, 2}}, r \in {0, 1},
        k \in {"scatter", "gather"}, m \in {"scatter", "bcast", "allgather"}}

\* Locks of overlapping teams, one slot too few.
LockPrograms ==
    {<<Create(0, {0, 1}), Coll("lockinit", 1, 0), Coll("lockinit", 0, 0),
       Coll("lockfree", 1, 2), Coll("lockfree", 0, 3)>>,
     <<Coll("lockinit", 0, 0), Coll("lockfree", 0, 1), Create(0, {1, 2}),
       Coll("lockinit", 3, 0), Coll("lockfree", 3, 4)>>}

AllPrograms == TeamPrograms \union CollectivePrograms \union LockPrograms

\* What an unset id reads as: the world, the first and the second team, none.
ReadsAs == {TeamAll, 1, 2, 99}
=============================================================================
