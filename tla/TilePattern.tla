----------------------------- MODULE TilePattern -----------------------------
(***************************************************************************)
(* TilePattern.h: blocks (tiles) dealt to the units of a cartesian team,   *)
(* the elements of a tile adjacent in local memory.  `me` is the unit that *)
(* makes the call: some methods look at its own local block spec.          *)
(***************************************************************************)
EXTENDS PatternParts

(* What the class says of itself. *)
Traits ==
    TraitsOf(<<"minimal", "rectangular", "balanced">>, <<"balanced", "unbalanced">>,
             <<"blocked", "linear">>)

InitializeBlocksizespec(ext, dists, team) ==
    [d \in Dims(ext) |-> MaxBlocksizeInRange(dists[d], ext[d], team[d])]

InitializeBlockspec(ext, blocksize) == [d \in Dims(ext) |-> DivCeil(ext[d], blocksize[d])]

(* initialize_major_tiled_dim: the constructor throws without a tiled one. *)
MajorTiledDims(dists) == {d \in Dims(dists) : /\ dists[d].type = "tile"
                                              /\ \A e \in 1 .. d - 1 : dists[e].type # "tile"}

(* The members, from sizes, distribution and arrangement of the units. *)
NewPattern(ext, order, dists, team) ==
    LET blocksize == InitializeBlocksizespec(ext, dists, team)
    IN IF MajorTiledDims(dists) = {} THEN NULL
       ELSE [class |-> "tile", ext |-> ext, order |-> order, dists |-> dists, team |-> team,
             nunits |-> SizeOf(team), blocksize |-> blocksize,
             blocks |-> InitializeBlockspec(ext, blocksize),
             major |-> CHOOSE d \in MajorTiledDims(dists) : TRUE]

(* The constructors: from an argument list, from specs, and from a team.   *)
Build(ext, order, dists, spec) ==
    IF spec = NULL THEN NULL ELSE NewPattern(ext, order, dists, spec.extents)

FromArguments(args, ndim, order, all) ==
    LET a == Arguments(args, ndim, all)
    IN IF a = NULL THEN NULL ELSE Build(a.sizes, order, a.dists, a.team)

FromSpecs(ext, order, dists, team, units) ==
    Build(ext, order, dists, AdjustedTeamSpec(team, dists, units))

FromTeam(ext, order, dists, units) ==
    Build(ext, order, dists, DistributedTeamSpec(dists, IsTiled(dists), units))

(* operator==; copies and assigned patterns have all members of the other. *)
Equal(p, q) ==
    /\ p.ext = q.ext /\ p.dists = q.dists /\ p.team = q.team /\ p.nunits = q.nunits
    /\ p.blocks = q.blocks /\ p.blocksize = q.blocksize

Size(p)             == SizeOf(p.ext)
Coords(p, i)        == CoordsOf(p.ext, p.order, i)
UnitCoords(p, unit) == CoordsOf(p.team, "row", unit)

(* Block coordinates and place within the block of an element. *)
BlockCoords(p, g) == [d \in Dims(g) |-> g[d] \div p.blocksize[d]]
Phase(p, g)       == [d \in Dims(g) |-> g[d] % p.blocksize[d]]

(* The offset of an element in an array of whole tiles. *)
InTiles(p, tiles, block, phase) ==
    IndexAt(tiles, p.order, block) * SizeOf(p.blocksize) + IndexAt(p.blocksize, p.order, phase)

UnitAt(p, g) == IndexAt(p.team, "row", [d \in Dims(g) |-> BlockCoords(p, g)[d] % p.team[d]])

(* initialize_local_blockspec: the first units get the odd blocks. *)
LocalBlockspec(p, unit) ==
    [d \in Dims(p.ext) |-> p.blocks[d] \div p.team[d]
                           + (IF p.blocks[d] % p.team[d] > UnitCoords(p, unit)[d] THEN 1 ELSE 0)]

(* initialize_local_extents, local_size; local_capacity is the caller's.   *)
LocalExtents(p, unit) == [d \in Dims(p.ext) |-> LocalBlockspec(p, unit)[d] * p.blocksize[d]]
LocalSize(p, unit)    == SizeOf(LocalExtents(p, unit))
LocalCapacity(p, me)  == LocalSize(p, me)

LocalBlockCoords(p, g) == [d \in Dims(g) |-> BlockCoords(p, g)[d] \div p.team[d]]

LocalCoords(p, g) ==
    [d \in Dims(g) |-> LocalBlockCoords(p, g)[d] * p.blocksize[d] + Phase(p, g)[d]]

(* local_at of the calling unit. *)
LocalAt(p, me, l) == InTiles(p, LocalBlockspec(p, me), BlockCoords(p, l), Phase(p, l))

(* local(), local_index(): the owner's own block spec, also when remote.   *)
Local(p, g) ==
    LET unit == UnitAt(p, g) IN [unit |-> unit, index |-> LocalAt(p, unit, LocalCoords(p, g))]

(* at(): the block spec of the unit that calls, whoever owns the element.  *)
At(p, me, g) == InTiles(p, LocalBlockspec(p, me), LocalBlockCoords(p, g), Phase(p, g))

(* global_at(): the offset of the element when tiles are laid out in order.*)
GlobalAt(p, g) == InTiles(p, p.blocks, BlockCoords(p, g), Phase(p, g))

(* global(unit, local_coords). *)
Global(p, unit, l) ==
    [d \in Dims(l) |->
        ((l[d] \div p.blocksize[d]) * p.team[d] + UnitCoords(p, unit)[d]) * p.blocksize[d]
        + (l[d] % p.blocksize[d])]

GlobalIndex(p, unit, l) == IndexAt(p.ext, p.order, Global(p, unit, l))

(* global(local_index) of the calling unit. *)
GlobalOfLocal(p, me, i) ==
    LET tile  == CoordsOf(LocalBlockspec(p, me), p.order, i \div SizeOf(p.blocksize))
        phase == CoordsOf(p.blocksize, p.order, i % SizeOf(p.blocksize))
    IN GlobalIndex(p, me, [d \in Dims(p.ext) |-> tile[d] * p.blocksize[d] + phase[d]])

(* initialize_local_range. *)
LocalRange(p, me) ==
    LET n == LocalSize(p, me)
    IN IF n = 0 THEN <<0, 0>> ELSE <<GlobalOfLocal(p, me, 0), GlobalOfLocal(p, me, n - 1) + 1>>

IsLocal(p, i, unit) == UnitAt(p, Coords(p, i)) = unit

(* block_at, block. *)
BlockAt(p, g) == IndexAt(p.blocks, p.order, BlockCoords(p, g))
Block(p, b) ==
    View([d \in Dims(p.ext) |-> CoordsOf(p.blocks, p.order, b)[d] * p.blocksize[d]], p.blocksize)

(* local_block(unit, b): the caller's block spec, the unit's coordinates.  *)
LocalBlock(p, me, unit, b) ==
    LET tile == CoordsOf(LocalBlockspec(p, me), p.order, b)
    IN View([d \in Dims(p.ext) |-> (tile[d] * p.team[d] + UnitCoords(p, unit)[d]) * p.blocksize[d]],
            p.blocksize)

LocalBlockLocal(p, me, b) ==
    View([d \in Dims(p.ext) |-> CoordsOf(LocalBlockspec(p, me), p.order, b)[d] * p.blocksize[d]],
         p.blocksize)
=============================================================================
