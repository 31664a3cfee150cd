---------------------------- MODULE TilePattern1D ----------------------------
(***************************************************************************)
(* TilePattern1D.h: one dimension of tiles dealt to the units in turn.     *)
(* Unlike BlockPattern1D, a unit's extent counts whole rounds of tiles     *)
(* only: sizes are meant to be multiples of the tile size times the units. *)
(***************************************************************************)
EXTENDS PatternParts

(* What the class says of itself. *)
Traits ==
    TraitsOf(<<"minimal", "rectangular", "balanced">>, <<"balanced", "unbalanced">>,
             <<"blocked", "linear">>)

(* The members, from a size, a distribution and the units of a team. *)
NewPattern(size, dist, nunits) ==
    LET blocksize == IF nunits = 0 THEN 0 ELSE MaxBlocksizeInRange(dist, size, nunits)
    IN [class |-> "tile1D", size |-> size, dist |-> dist, nunits |-> nunits,
        blocksize |-> blocksize,
        nblocks |-> IF blocksize = 0 THEN 0 ELSE DivCeil(size, blocksize)]

(* The constructors: from an argument list, from specs, and from a team.   *)
(* In one dimension the team spec must fit the team and is not used.       *)
FromArguments(args, all) ==
    LET a == Arguments(args, 1, all)
    IN IF a = NULL THEN NULL ELSE NewPattern(a.sizes[1], a.dists[1], a.units)

FromSpecs(size, dist, team, units) ==
    IF AdjustedTeamSpec(team, <<dist>>, units) = NULL THEN NULL ELSE NewPattern(size, dist, units)

FromTeam(size, dist, units) == NewPattern(size, dist, units)

(* operator==; copies and assigned patterns have all members of the other. *)
Equal(p, q) ==
    /\ p.size = q.size /\ p.dist = q.dist /\ p.nunits = q.nunits
    /\ p.blocksize = q.blocksize /\ p.nblocks = q.nblocks

Size(p) == p.size

(* initialize_local_extent: the same for every unit. *)
LocalExtent(p)   == IF p.nunits = 0 THEN 0 ELSE (p.nblocks \div p.nunits) * p.blocksize
LocalSize(p)     == LocalExtent(p)
NumLocalBlocks(p) == IF p.blocksize > 0 THEN DivCeil(LocalExtent(p), p.blocksize) ELSE 0
LocalCapacity(p) == IF p.nunits = 0 THEN 0 ELSE DivCeil(p.nblocks, p.nunits) * p.blocksize

UnitAt(p, g) == (g \div p.blocksize) % p.nunits

LocalCoords(p, g) == ((g \div p.blocksize) \div p.nunits) * p.blocksize + (g % p.blocksize)

At(p, g) == LocalCoords(p, g)

(* local(g_index): from the block index and the place in the block. *)
Local(p, g) ==
    LET block == g \div p.blocksize
    IN [unit |-> block % p.nunits, index |-> (block \div p.nunits) * p.blocksize + (g % p.blocksize)]

(* global(unit, local_coords). *)
Global(p, unit, l) ==
    IF p.nunits < 2 THEN l
    ELSE LocalIndexToBlockCoord(p.dist, unit, l, p.nunits) * p.blocksize + (l % p.blocksize)

(* initialize_local_range. *)
LocalRange(p, unit) ==
    IF LocalExtent(p) = 0 THEN <<0, 0>>
    ELSE <<Global(p, unit, 0), Global(p, unit, LocalExtent(p) - 1) + 1>>

(* block_at, block: the same slip as in BlockPattern1D; local_block and     *)
(* local_block_local of the calling unit.                                  *)
BlockAt(p, g)          == g \div p.blocksize
Block(p, b)            == [offset |-> b * p.size, extent |-> p.blocksize]
LocalBlock(p, unit, b) == [offset |-> Global(p, unit, b * p.blocksize), extent |-> p.blocksize]
LocalBlockLocal(p, b)  == [offset |-> b * p.blocksize, extent |-> p.blocksize]
=============================================================================
