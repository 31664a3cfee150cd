-------------------------- MODULE ShiftTilePattern --------------------------
(***************************************************************************)
(* ShiftTilePattern.h: tiles dealt diagonally.  The unit of a tile is the  *)
(* sum of its block coordinates modulo the units, so each row of tiles is  *)
(* shifted by one unit against the row before.  `me` is the calling unit.  *)
(***************************************************************************)
EXTENDS PatternParts

(* What the class says of itself. *)
Traits ==
    TraitsOf(<<"rectangular", "balanced">>, <<"balanced", "unbalanced", "diagonal">>,
             <<"blocked", "linear">>)

InitializeBlocksizespec(ext, dists, team) ==
    [d \in Dims(ext) |-> MaxBlocksizeInRange(dists[d], ext[d], team[d])]

InitializeBlockspec(ext, blocksize) == [d \in Dims(ext) |-> DivCeil(ext[d], blocksize[d])]

(* initialize_major_tiled_dim: the last tiled dimension in row-major, the  *)
(* first in column-major order; the constructor throws without one.        *)
MajorTiledDim(order, dists) ==
    LET tiled == {d \in Dims(dists) : dists[d].type = "tile"}
    IN CASE tiled = {} -> NULL
         [] order = "col" -> CHOOSE d \in tiled : \A e \in tiled : d <= e
         [] OTHER -> CHOOSE d \in tiled : \A e \in tiled : d >= e

(* _minor_tiled_dim: the dimension after the major one, cyclically. *)
MinorTiledDim(major, ndim) == (major % ndim) + 1

(* The members, from sizes, distribution and arrangement of the units. *)
NewPattern(ext, order, dists, team) ==
    LET blocksize == InitializeBlocksizespec(ext, dists, team)
        major     == MajorTiledDim(order, dists)
    IN IF major = NULL THEN NULL
       ELSE [class |-> "shift", ext |-> ext, order |-> order, dists |-> dists, team |-> team,
             nunits |-> SizeOf(team), blocksize |-> blocksize,
             blocks |-> InitializeBlockspec(ext, blocksize),
             major |-> major, minor |-> MinorTiledDim(major, Len(ext))]

(* The constructors: from an argument list, from specs, and from a team.   *)
Build(ext, order, dists, spec) ==
    IF spec = NULL THEN NULL ELSE NewPattern(ext, order, dists, spec.extents)

FromArguments(args, ndim, order, all) ==
    LET a == Arguments(args, ndim, all)
    IN IF a = NULL THEN NULL ELSE Build(a.sizes, order, a.dists, a.team)

FromSpecs(ext, order, dists, team, units) ==
    Build(ext, order, dists, AdjustedTeamSpec(team, dists, units))

FromTeam(ext, order, dists, units) ==
    Build(ext, order, dists, DistributedTeamSpec(dists, IsTiled(dists), units))

(* operator==; copies and assigned patterns have all members of the other. *)
Equal(p, q) ==
    /\ p.ext = q.ext /\ p.dists = q.dists /\ p.team = q.team /\ p.nunits = q.nunits
    /\ p.blocks = q.blocks /\ p.blocksize = q.blocksize

Size(p)      == SizeOf(p.ext)
Coords(p, i) == CoordsOf(p.ext, p.order, i)

BlockCoords(p, g) == [d \in Dims(g) |-> g[d] \div p.blocksize[d]]
Phase(p, g)       == [d \in Dims(g) |-> g[d] % p.blocksize[d]]

UnitAt(p, g) == FoldFunction(LAMBDA a, b : a + b, 0, BlockCoords(p, g)) % p.nunits

(* initialize_local_blockspec: fewer blocks in the major dimension only.   *)
LocalBlockspec(p) == [p.blocks EXCEPT ![p.major] = @ \div p.nunits]

(* initialize_local_extents: fewer blocks in the dimensions of the team    *)
(* spec; local_size, whichever unit it is asked for.                       *)
LocalExtents(p)  == [d \in Dims(p.ext) |-> (p.blocks[d] \div p.team[d]) * p.blocksize[d]]
LocalSize(p)     == SizeOf(LocalExtents(p))
LocalCapacity(p) == Size(p) \div p.nunits

LocalCoords(p, g) ==
    LET size == p.blocksize[p.major]
    IN [g EXCEPT ![p.major] = (@ \div (size * p.nunits)) * size + (@ % size)]

(* local_at: the offset in the local tiles. *)
LocalAt(p, l) ==
    IndexAt(LocalBlockspec(p), p.order, BlockCoords(p, l)) * SizeOf(p.blocksize)
    + IndexAt(p.blocksize, p.order, Phase(p, l))

(* at(): every unit owns one of each nunits consecutive tiles. *)
At(p, g) ==
    (IndexAt(p.blocks, p.order, BlockCoords(p, g)) \div p.nunits) * SizeOf(p.blocksize)
    + IndexAt(p.blocksize, p.order, Phase(p, g))

(* local(), local_index(). *)
Local(p, g) == [unit |-> UnitAt(p, g), index |-> At(p, g)]

(* global_at(): the offset of the element when tiles are laid out in order.*)
GlobalAt(p, g) ==
    IndexAt(p.blocks, p.order, BlockCoords(p, g)) * SizeOf(p.blocksize)
    + IndexAt(p.blocksize, p.order, Phase(p, g))

(* global(unit, local_coords): undoes the shift of the minor dimension.    *)
Global(p, unit, l) ==
    LET size  == p.blocksize[p.major]
        minor == IF Len(l) > 1 THEN l[p.minor] \div p.blocksize[p.minor] ELSE 0
        shift == (p.nunits + unit - (minor % p.nunits)) % p.nunits
    IN [l EXCEPT ![p.major] = (shift + p.nunits * (@ \div size)) * size + (@ % size)]

GlobalIndex(p, unit, l) == IndexAt(p.ext, p.order, Global(p, unit, l))

(* global(local_index): calls global with dash::myid(), the unit's id in   *)
(* the team of all units, not its id in the pattern's team.                *)
GlobalOfLocal(p, myid, i) ==
    LET tile  == CoordsOf(LocalBlockspec(p), p.order, i \div SizeOf(p.blocksize))
        phase == CoordsOf(p.blocksize, p.order, i % SizeOf(p.blocksize))
    IN GlobalIndex(p, myid, [d \in Dims(p.ext) |-> tile[d] * p.blocksize[d] + phase[d]])

(* initialize_local_range. *)
LocalRange(p, myid) ==
    LET n == LocalSize(p)
    IN IF n = 0 THEN <<0, 0>> ELSE <<GlobalOfLocal(p, myid, 0), GlobalOfLocal(p, myid, n - 1) + 1>>

(* block_at, block; local_block, local_block_local of the calling unit. *)
BlockAt(p, g) == IndexAt(p.blocks, p.order, BlockCoords(p, g))
Block(p, b) ==
    View([d \in Dims(p.ext) |-> CoordsOf(p.blocks, p.order, b)[d] * p.blocksize[d]], p.blocksize)
LocalBlock(p, me, b) ==
    View(Global(p, me, [d \in Dims(p.ext) |-> CoordsOf(LocalBlockspec(p), p.order, b)[d] * p.blocksize[d]]),
         p.blocksize)
LocalBlockLocal(p, b) ==
    View([d \in Dims(p.ext) |-> CoordsOf(LocalBlockspec(p), p.order, b)[d] * p.blocksize[d]], p.blocksize)
=============================================================================
