---------------------------- MODULE BlockPattern ----------------------------
(***************************************************************************)
(* BlockPattern.h: the blocked pattern in several dimensions.  Each        *)
(* dimension is dealt to the units of that dimension of the team spec; the *)
(* elements of a unit are stored as one canonical local array.             *)
(***************************************************************************)
EXTENDS PatternParts

(* What the class says of itself. *)
Traits ==
    TraitsOf(<<"minimal", "rectangular", "balanced", "unbalanced">>, <<"unbalanced">>,
             <<"canonical", "linear">>)

InitializeBlocksizespec(ext, dists, team) ==
    [d \in Dims(ext) |-> MaxBlocksizeInRange(dists[d], ext[d], team[d])]

InitializeBlockspec(ext, blocksize) == [d \in Dims(ext) |-> DivCeil(ext[d], blocksize[d])]

(* The members, from sizes, distribution and arrangement of the units. *)
NewPattern(ext, order, dists, team) ==
    LET blocksize == InitializeBlocksizespec(ext, dists, team)
    IN [class |-> "block", ext |-> ext, order |-> order, dists |-> dists, team |-> team,
        nunits |-> SizeOf(team), blocksize |-> blocksize,
        blocks |-> InitializeBlockspec(ext, blocksize)]

(* The constructors: from an argument list, from specs, and from a team.   *)
Build(ext, order, dists, spec, units) ==
    IF spec = NULL THEN NULL ELSE [NewPattern(ext, order, dists, spec.extents) EXCEPT !.nunits = units]

FromArguments(args, ndim, order, all) ==
    LET a == Arguments(args, ndim, all)
    IN IF a = NULL THEN NULL ELSE Build(a.sizes, order, a.dists, a.team, a.units)

FromSpecs(ext, order, dists, team, units) ==
    Build(ext, order, dists, AdjustedTeamSpec(team, dists, units), units)

FromTeam(ext, order, dists, units) ==
    Build(ext, order, dists, DistributedTeamSpec(dists, IsTiled(dists), units), units)

(* operator==; copies and assigned patterns have all members of the other. *)
Equal(p, q) ==
    /\ p.ext = q.ext /\ p.dists = q.dists /\ p.team = q.team /\ p.nunits = q.nunits
    /\ p.blocks = q.blocks /\ p.blocksize = q.blocksize

Size(p)         == SizeOf(p.ext)
Coords(p, i)    == CoordsOf(p.ext, p.order, i)
MemoryAt(p, g)  == IndexAt(p.ext, p.order, g)
UnitCoords(p, unit) == CoordsOf(p.team, "row", unit)

UnitAt(p, g) ==
    IndexAt(p.team, "row", [d \in Dims(g) |-> (g[d] \div p.blocksize[d]) % p.team[d]])

LocalCoords(p, g) ==
    [d \in Dims(g) |-> (g[d] % p.blocksize[d])
                       + ((g[d] \div p.blocksize[d]) \div p.team[d]) * p.blocksize[d]]

Underfill(p, d) ==
    IF p.ext[d] % p.blocksize[d] = 0 THEN 0 ELSE p.blocksize[d] - (p.ext[d] % p.blocksize[d])

(* initialize_local_extents. *)
LocalExtents(p, unit) ==
    [d \in Dims(p.ext) |->
        LET extra == p.blocks[d] % p.team[d]
            last  == IF extra = 0 THEN p.team[d] - 1 ELSE extra - 1
            me    == UnitCoords(p, unit)[d]
        IN IF p.blocks[d] = 1 /\ p.team[d] = 1 THEN p.ext[d]
           ELSE (p.blocks[d] \div p.team[d]) * p.blocksize[d]
                + (IF me < extra THEN p.blocksize[d] ELSE 0)
                - (IF me = last THEN Underfill(p, d) ELSE 0)]

LocalSize(p, unit) == SizeOf(LocalExtents(p, unit))

(* initialize_local_blockspec. *)
LocalBlockspec(p, unit) ==
    [d \in Dims(p.ext) |-> IF p.blocksize[d] > 0
                           THEN DivCeil(LocalExtents(p, unit)[d], p.blocksize[d]) ELSE 0]

(* initialize_local_capacity. *)
LocalCapacity(p) ==
    SizeOf([d \in Dims(p.ext) |-> DivCeil(DivCeil(p.ext[d], p.blocksize[d]), p.team[d])])
    * SizeOf(p.blocksize)

LocalAt(p, unit, l) == IndexAt(LocalExtents(p, unit), p.order, l)

(* at(): the local layout of the unit that owns the element. *)
At(p, g) == LocalAt(p, UnitAt(p, g), LocalCoords(p, g))

(* local(), local_index(). *)
Local(p, g) == [unit |-> UnitAt(p, g), index |-> At(p, g)]

(* global(unit, local_coords). *)
Global(p, unit, l) ==
    IF SizeOf(p.team) < 2 THEN l
    ELSE [d \in Dims(l) |->
             LocalIndexToBlockCoord(p.dists[d], UnitCoords(p, unit)[d], l[d], p.team[d])
             * p.blocksize[d] + (l[d] % p.blocksize[d])]

GlobalIndex(p, unit, l) == MemoryAt(p, Global(p, unit, l))

(* global(local_index) of a unit. *)
GlobalOfLocal(p, unit, i) == GlobalIndex(p, unit, CoordsOf(LocalExtents(p, unit), p.order, i))

(* initialize_local_range. *)
LocalRange(p, unit) ==
    LET n == LocalSize(p, unit)
    IN IF n = 0 THEN <<0, 0>> ELSE <<GlobalOfLocal(p, unit, 0), GlobalOfLocal(p, unit, n - 1) + 1>>

IsLocal(p, i, unit) == UnitAt(p, Coords(p, i)) = unit
=============================================================================
