--------------------------- MODULE BlockPattern1D ---------------------------
(***************************************************************************)
(* BlockPattern1D.h: a one-dimensional range of elements, cut into blocks  *)
(* that are dealt to the units of a team in turn.  Every operator takes    *)
(* the pattern as a record of the members its constructor computes.        *)
(***************************************************************************)
EXTENDS PatternParts

(* What the class says of itself. *)
Traits ==
    TraitsOf(<<"minimal", "rectangular", "balanced", "unbalanced">>, <<"unbalanced">>,
             <<"canonical", "linear">>)

InitializeBlocksize(size, dist, nunits) ==
    IF nunits = 0 THEN 0 ELSE MaxBlocksizeInRange(dist, size, nunits)

InitializeNumBlocks(size, blocksize) == IF blocksize = 0 THEN 0 ELSE DivCeil(size, blocksize)

(* The members, from a size, a distribution and the units of a team. *)
NewPattern(size, dist, nunits) ==
    LET blocksize == InitializeBlocksize(size, dist, nunits)
    IN [class |-> "block1D", size |-> size, dist |-> dist, nunits |-> nunits,
        blocksize |-> blocksize, nblocks |-> InitializeNumBlocks(size, blocksize)]

(* The constructors: from an argument list, from specs, and from a team.   *)
(* In one dimension the team spec must fit the team and is not used.       *)
FromArguments(args, all) ==
    LET a == Arguments(args, 1, all)
    IN IF a = NULL THEN NULL ELSE NewPattern(a.sizes[1], a.dists[1], a.units)

FromSpecs(size, dist, team, units) ==
    IF AdjustedTeamSpec(team, <<dist>>, units) = NULL THEN NULL ELSE NewPattern(size, dist, units)

FromTeam(size, dist, units) == NewPattern(size, dist, units)

(* operator==; copies and assigned patterns have all members of the other. *)
Equal(p, q) ==
    /\ p.size = q.size /\ p.dist = q.dist /\ p.nunits = q.nunits
    /\ p.blocksize = q.blocksize /\ p.nblocks = q.nblocks

(* underfilled_blocksize: what the last block lacks. *)
Underfill(p) == IF p.size % p.blocksize = 0 THEN 0 ELSE p.blocksize - (p.size % p.blocksize)

(* initialize_local_extent: the whole rounds of blocks, one more block for *)
(* the first units, and the gap at the end of the last block taken off.    *)
LocalExtent(p, unit) ==
    LET extra == p.nblocks % p.nunits
        last  == IF extra = 0 THEN p.nunits - 1 ELSE extra - 1
    IN CASE p.nunits = 0 -> 0
         [] p.nblocks = 1 /\ p.nunits = 1 -> p.size
         [] OTHER -> (p.nblocks \div p.nunits) * p.blocksize
                     + (IF unit < extra THEN p.blocksize ELSE 0)
                     - (IF unit = last THEN Underfill(p) ELSE 0)

(* local_size(unit) and size(). *)
LocalSize(p, unit) == LocalExtent(p, unit)
Size(p)            == p.size

(* initialize_num_local_blocks, initialize_local_capacity. *)
NumLocalBlocks(p, unit) == IF p.blocksize > 0 THEN DivCeil(LocalExtent(p, unit), p.blocksize) ELSE 0
LocalCapacity(p) == IF p.nunits = 0 THEN 0 ELSE DivCeil(p.nblocks, p.nunits) * p.blocksize

UnitAt(p, g) == (g \div p.blocksize) % p.nunits

LocalCoords(p, g) ==
    ((g \div p.blocksize) \div p.nunits) * p.blocksize + (g % p.blocksize)

(* at(): the local offset of a global coordinate. *)
At(p, g) == LocalCoords(p, g)

(* local(), local_index(). *)
Local(p, g) == [unit |-> UnitAt(p, g), index |-> At(p, g)]

(* global(unit, local_coords). *)
Global(p, unit, l) ==
    IF p.nunits < 2 THEN l
    ELSE LocalIndexToBlockCoord(p.dist, unit, l, p.nunits) * p.blocksize + (l % p.blocksize)

(* initialize_local_range: _lbegin and _lend of a unit. *)
LocalRange(p, unit) ==
    LET l == LocalExtent(p, unit)
    IN IF l = 0 THEN <<0, 0>> ELSE <<Global(p, unit, 0), Global(p, unit, l - 1) + 1>>

IsLocal(p, g, unit) == UnitAt(p, g) = unit

(* block_at, block: block starts at a multiple of the pattern's size where *)
(* the blocks are a blocksize apart, and every block has the full extent.  *)
BlockAt(p, g)   == g \div p.blocksize
Block(p, b)     == [offset |-> b * p.size, extent |-> p.blocksize]

(* local_block and local_block_local of the calling unit. *)
LocalBlock(p, unit, b)      == [offset |-> Global(p, unit, b * p.blocksize), extent |-> p.blocksize]
LocalBlockLocal(p, unit, b) == [offset |-> b * p.blocksize, extent |-> p.blocksize]
=============================================================================
