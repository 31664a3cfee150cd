------------------------------ MODULE Patterns ------------------------------
(***************************************************************************)
(* The pattern concept: what an array asks of its pattern, whichever class *)
(* the pattern has.  Elements are named by their linear global index.      *)
(***************************************************************************)
EXTENDS Integers, FiniteSets, FiniteSetsExt, Sequences

CONSTANT NULL  \* the result of a constructor that throws

B1 == INSTANCE BlockPattern1D
BN == INSTANCE BlockPattern
T1 == INSTANCE TilePattern1D
S1 == INSTANCE ShiftTilePattern1D
TN == INSTANCE TilePattern
ST == INSTANCE ShiftTilePattern
CS == INSTANCE CSRPattern
PA == INSTANCE PatternParts

(* size(). *)
Size(p) ==
    CASE p.class \in {"block1D", "tile1D", "shift1D", "csr"} -> p.size
      [] OTHER -> BN!SizeOf(p.ext)

Indices(p) == 0 .. Size(p) - 1
PUnits(p)  == 0 .. p.nunits - 1

(* local(g_index): the unit that owns an element and the element's offset  *)
(* in the memory of that unit.                                             *)
Local(p, g) ==
    CASE p.class = "block1D" -> B1!Local(p, g)
      [] p.class = "tile1D"  -> T1!Local(p, g)
      [] p.class = "shift1D" -> S1!Local(p, g)
      [] p.class = "csr"     -> CS!Local(p, g)
      [] p.class = "block"   -> BN!Local(p, BN!Coords(p, g))
      [] p.class = "tile"    -> TN!Local(p, TN!Coords(p, g))
      [] p.class = "shift"   -> ST!Local(p, ST!Coords(p, g))

(* unit_at(g_index). *)
UnitAt(p, g) ==
    CASE p.class = "block1D" -> B1!UnitAt(p, g)
      [] p.class = "tile1D"  -> T1!UnitAt(p, g)
      [] p.class = "shift1D" -> S1!UnitAt(p, g)
      [] p.class = "csr"     -> CS!UnitAt(p, g)
      [] p.class = "block"   -> BN!UnitAt(p, BN!Coords(p, g))
      [] p.class = "tile"    -> TN!UnitAt(p, TN!Coords(p, g))
      [] p.class = "shift"   -> ST!UnitAt(p, ST!Coords(p, g))

(* at(g_coords), called by a unit of the team. *)
At(p, me, g) ==
    CASE p.class = "block1D" -> B1!At(p, g)
      [] p.class = "tile1D"  -> T1!At(p, g)
      [] p.class = "shift1D" -> S1!At(p, g)
      [] p.class = "csr"     -> CS!At(p, g)
      [] p.class = "block"   -> BN!At(p, BN!Coords(p, g))
      [] p.class = "tile"    -> TN!At(p, me, TN!Coords(p, g))
      [] p.class = "shift"   -> ST!At(p, ST!Coords(p, g))

(* global(local_index), called by a unit of the team. *)
Global(p, me, i) ==
    CASE p.class = "block1D" -> B1!Global(p, me, i)
      [] p.class = "tile1D"  -> T1!Global(p, me, i)
      [] p.class = "shift1D" -> S1!Global(p, me, i)
      [] p.class = "csr"     -> CS!Global(p, me, i)
      [] p.class = "block"   -> BN!GlobalOfLocal(p, me, i)
      [] p.class = "tile"    -> TN!GlobalOfLocal(p, me, i)
      [] p.class = "shift"   -> ST!GlobalOfLocal(p, me, i)

(* local_size(unit), asked by the unit me; local_size() of a unit itself.  *)
LocalSize(p, me, unit) ==
    CASE p.class = "block1D" -> B1!LocalSize(p, unit)
      [] p.class = "tile1D"  -> T1!LocalSize(p)
      [] p.class = "shift1D" -> S1!LocalSize(p)
      [] p.class = "csr"     -> CS!LocalSize(p, me)
      [] p.class = "block"   -> BN!LocalSize(p, unit)
      [] p.class = "tile"    -> TN!LocalSize(p, unit)
      [] p.class = "shift"   -> ST!LocalSize(p)
OwnSize(p, unit) == LocalSize(p, unit, unit)

(* local_capacity(): what the unit allocates. *)
LocalCapacity(p, me) ==
    CASE p.class = "block1D" -> B1!LocalCapacity(p)
      [] p.class = "tile1D"  -> T1!LocalCapacity(p)
      [] p.class = "shift1D" -> S1!LocalCapacity(p)
      [] p.class = "csr"     -> CS!LocalCapacity(p)
      [] p.class = "block"   -> BN!LocalCapacity(p)
      [] p.class = "tile"    -> TN!LocalCapacity(p, me)
      [] p.class = "shift"   -> ST!LocalCapacity(p)

(* lbegin() and lend() of the calling unit. *)
LocalRange(p, me) ==
    CASE p.class = "block1D" -> B1!LocalRange(p, me)
      [] p.class = "tile1D"  -> T1!LocalRange(p, me)
      [] p.class = "shift1D" -> S1!LocalRange(p, me)
      [] p.class = "csr"     -> CS!LocalRange(p, me)
      [] p.class = "block"   -> BN!LocalRange(p, me)
      [] p.class = "tile"    -> TN!LocalRange(p, me)
      [] p.class = "shift"   -> ST!LocalRange(p, me)

(* is_local(g_index, unit). *)
IsLocal(p, g, unit) ==
    CASE p.class = "block1D" -> B1!IsLocal(p, g, unit)
      [] p.class = "csr"     -> CS!IsLocal(p, g, unit)
      [] p.class = "block"   -> BN!IsLocal(p, g, unit)
      [] p.class = "tile"    -> TN!IsLocal(p, g, unit)
      [] OTHER               -> UnitAt(p, g) = unit

(* What a pattern answers, for each element and each unit that may ask.    *)
Layout(p) ==
    [local  |-> [g \in Indices(p) |-> Local(p, g)],
     unitAt |-> [g \in Indices(p) |-> UnitAt(p, g)],
     at     |-> [u \in PUnits(p) |-> [g \in Indices(p) |-> At(p, u, g)]],
     global |-> [u \in PUnits(p) |-> [i \in 0 .. OwnSize(p, u) - 1 |-> Global(p, u, i)]],
     size   |-> [me \in PUnits(p) |-> [u \in PUnits(p) |-> LocalSize(p, me, u)]],
     range  |-> [u \in PUnits(p) |-> LocalRange(p, u)]]

-----------------------------------------------------------------------------
(* MakePattern.h: team specs, distributions and patterns made to satisfy   *)
(* the properties that are asked for.  asked is a record of property sets  *)
(* (PatternTraits); sizes are at least the number of blocks they are cut   *)
(* into, so no tile is empty.                                              *)

(* make_team_spec: the units of Team::All balanced over two dimensions, in *)
(* one if a mapping asks for it and there are several nodes; with multiple *)
(* the first dimension is split for the second.                            *)
MakeTeamSpec(asked, nnodes, all) ==
    LET balance == nnodes = 1 \/ asked.mapping \cap {"diagonal", "neighbor", "multiple"} = {}
        extents == IF balance THEN PA!BalancedExtents(all) ELSE PA!LinearTeamSpec(all, 2).extents
        split   == IF nnodes > 1 THEN nnodes ELSE 2
        factor  == IF extents[1] % split = 0 THEN split ELSE 1
    IN IF "multiple" \in asked.mapping THEN <<extents[1] \div factor, extents[2] * factor>> ELSE extents

(* The smallest block of one block for each unit, in any dimension.        *)
MinBlockExtent(size, team) == Min({PA!SizeOf(size)} \cup {size[d] \div team[d] : d \in PA!Dims(size)})

(* The blocks in a dimension: every unit in every hyperplane, or one block *)
(* for each unit, or as many as blocks of the smallest extent fit.         *)
NumBlocks(asked, size, team, d) ==
    IF asked.mapping \cap {"diagonal", "neighbor"} # {} THEN PA!SizeOf(team)
    ELSE IF "minimal" \in asked.partitioning /\ "balanced" \notin asked.mapping
         THEN size[d] \div MinBlockExtent(size, team)
    ELSE team[d]

(* make_distribution_spec: throws if blocks of one size are asked for and  *)
(* do not fill the dimension.  Its other check, blocks against units, is   *)
(* reached only with as many blocks as units.                              *)
MakeDistributionSpec(asked, size, team) ==
    LET tile == [d \in PA!Dims(size) |-> size[d] \div NumBlocks(asked, size, team, d)]
        dist(d) == IF {"linear", "blocked"} \subseteq asked.layout THEN PA!TILE(tile[d]) ELSE PA!BLOCKCYCLIC(tile[d])
    IN IF "balanced" \in asked.partitioning /\ \E d \in PA!Dims(size) : size[d] % tile[d] > 0 THEN NULL
       ELSE [d \in PA!Dims(size) |-> dist(d)]

(* The overloads of make_pattern the properties enable.                    *)
Enabled(asked, ndim) ==
    (IF "minimal" \in asked.partitioning /\ "blocked" \in asked.layout THEN {"tile"} ELSE {})
    \cup (IF /\ "diagonal" \in asked.mapping
             /\ "blocked" \in asked.layout \/ ("balanced" \in asked.partitioning /\ ndim = 1)
          THEN {"shift"} ELSE {})
    \cup (IF "canonical" \in asked.layout THEN {"block"} ELSE {})

(* The three overloads, for Team::All: NULL if none or several are enabled,*)
(* which is no program, and if a constructor or the distribution throws.   *)
MakeTile(asked, size, team, all) ==
    TN!FromSpecs(size, "row", MakeDistributionSpec(asked, size, team), PA!Arranged(team), all)
MakeShift(asked, size, team, all) ==
    ST!FromSpecs(size, "row", MakeDistributionSpec(asked, size, team), PA!Arranged(team), all)
MakeBlock(asked, size, team, all) ==
    BN!FromSpecs(size, "row", MakeDistributionSpec(asked, size, team), PA!Arranged(team), all)

MakePattern(asked, size, team, all) ==
    IF MakeDistributionSpec(asked, size, team) = NULL THEN NULL
    ELSE CASE Enabled(asked, Len(size)) = {"tile"}  -> MakeTile(asked, size, team, all)
           [] Enabled(asked, Len(size)) = {"shift"} -> MakeShift(asked, size, team, all)
           [] Enabled(asked, Len(size)) = {"block"} -> MakeBlock(asked, size, team, all)
           [] OTHER -> NULL

----------------------------------------------------------------------------
(* What every pattern owes to the containers built on it. *)

Owned(p, unit) == {g \in Indices(p) : Local(p, g).unit = unit}

(* global() undoes local(). *)
RoundTrip(p) == \A g \in Indices(p) : Global(p, Local(p, g).unit, Local(p, g).index) = g

(* The elements of a unit fill its local memory from 0 without a gap and   *)
(* without sharing a place, and the memory it allocates holds them.        *)
DenseStorage(p) ==
    \A u \in PUnits(p) :
        /\ {Local(p, g).index : g \in Owned(p, u)} = 0 .. OwnSize(p, u) - 1
        /\ Cardinality(Owned(p, u)) = OwnSize(p, u)
        /\ OwnSize(p, u) <= LocalCapacity(p, u)

(* The elements of a block in one dimension, and of one in several.        *)
Stretch(p, block) == {g \in Indices(p) : block.offset <= g /\ g < block.offset + block.extent}
Box(p, view)      == {g \in Indices(p) : BN!Covers(view, BN!Coords(p, g))}

(* local_block(b) and local_block_local(b) of a unit, in one dimension.    *)
LineBlocks(p, u) ==
    CASE p.class = "block1D" -> {<<B1!LocalBlock(p, u, b), B1!LocalBlockLocal(p, u, b)>> : b \in 0 .. B1!NumLocalBlocks(p, u) - 1}
      [] p.class = "tile1D"  -> {<<T1!LocalBlock(p, u, b), T1!LocalBlockLocal(p, b)>> : b \in 0 .. T1!NumLocalBlocks(p) - 1}
      [] p.class = "shift1D" -> {<<S1!LocalBlock(p, u, b), S1!LocalBlockLocal(p, b)>> : b \in 0 .. S1!NumLocalBlocks(p) - 1}
      [] p.class = "csr"     -> {<<CS!LocalBlock(p, u), CS!LocalBlockLocal(p, u)>>}
      [] OTHER               -> {}

(* The local blocks of a unit, as sets of elements.                        *)
LocalBlocks(p, u) ==
    CASE p.class = "tile"  -> {Box(p, TN!LocalBlock(p, u, u, b)) : b \in 0 .. TN!SizeOf(TN!LocalBlockspec(p, u)) - 1}
      [] p.class = "shift" -> {Box(p, ST!LocalBlock(p, u, b)) : b \in 0 .. ST!SizeOf(ST!LocalBlockspec(p)) - 1}
      [] OTHER             -> {Stretch(p, both[1]) : both \in LineBlocks(p, u)}

(* block(block_at(g)); a unit of a CSR pattern has one block.              *)
BlockOf(p, g) ==
    CASE p.class = "csr"   -> Stretch(p, CS!Block(p, CS!UnitAt(p, g)))
      [] p.class = "tile"  -> Box(p, TN!Block(p, TN!BlockAt(p, TN!Coords(p, g))))
      [] p.class = "shift" -> Box(p, ST!Block(p, ST!BlockAt(p, ST!Coords(p, g))))

(* global_at(g_coords).                                                    *)
GlobalAt(p, g) ==
    IF p.class = "tile" THEN TN!GlobalAt(p, TN!Coords(p, g)) ELSE ST!GlobalAt(p, ST!Coords(p, g))

(* The local blocks of a unit are made of its elements, at the offsets of  *)
(* local_block_local; an element is in the block that block_at names, and  *)
(* that lies at one unit; global_at numbers the elements.  BlockPattern    *)
(* has no block methods that compile, and block() is wrong in the other    *)
(* patterns of one dimension.                                              *)
BlocksAgree(p) ==
    /\ \A u \in PUnits(p) : \A both \in LineBlocks(p, u) :
           {Local(p, g).index : g \in Stretch(p, both[1])} =
               {o \in 0 .. OwnSize(p, u) - 1 : both[2].offset <= o /\ o < both[2].offset + both[2].extent}
    /\ p.class # "block" => \A u \in PUnits(p) : UNION LocalBlocks(p, u) = Owned(p, u)
    /\ p.class \in {"csr", "tile", "shift"} => \A g \in Indices(p) :
           g \in BlockOf(p, g) /\ BlockOf(p, g) \subseteq Owned(p, UnitAt(p, g))
    /\ p.class \in {"tile", "shift"} => {GlobalAt(p, g) : g \in Indices(p)} = Indices(p)

(* What the class of a pattern says of itself. *)
Traits(p) ==
    CASE p.class = "block1D" -> B1!Traits
      [] p.class = "tile1D"  -> T1!Traits
      [] p.class = "shift1D" -> S1!Traits
      [] p.class = "csr"     -> CS!Traits
      [] p.class = "block"   -> BN!Traits
      [] p.class = "tile"    -> TN!Traits
      [] p.class = "shift"   -> ST!Traits

(* Elements that are stored in the order of their global indices.          *)
Ascending(p, set) ==
    LET at == [g \in set |-> Local(p, g).index] IN \A g, h \in set : g < h => at[g] < at[h]

(* The elements of a block lie side by side.                               *)
SideBySide(p, set) ==
    LET at == {Local(p, g).index : g \in set} IN \A a, b \in at : a .. b \subseteq at

(* The units of the blocks in each hyperplane of blocks.                   *)
EveryUnitInEverySlice(p) ==
    LET homes == {<<BN!Coords(p, g), UnitAt(p, g)>> : g \in Indices(p)}
    IN \A d \in BN!Dims(p.blocks) : \A b \in 0 .. p.blocks[d] - 1 :
           {h[2] : h \in {k \in homes : k[1][d] \div p.blocksize[d] = b}} = PUnits(p)

(* What the properties promise: blocked, that a block of a unit is one     *)
(* stretch of its memory, canonical, that all elements of a unit are one,  *)
(* linear, the order in them, and diagonal, a block for every unit in every*)
(* row and column of at least as many blocks as there are units.           *)
TraitsHold(p) ==
    /\ "blocked" \in Traits(p).layout => \A u \in PUnits(p) : \A block \in LocalBlocks(p, u) :
           SideBySide(p, block) /\ ("linear" \in Traits(p).layout => Ascending(p, block))
    /\ {"canonical", "linear"} \subseteq Traits(p).layout => \A u \in PUnits(p) : Ascending(p, Owned(p, u))
    /\ "diagonal" \in Traits(p).mapping /\ p.class = "shift" /\ (\A d \in BN!Dims(p.blocks) : p.blocks[d] >= p.nunits) =>
           EveryUnitInEverySlice(p)

(* A pattern made by make_pattern is of a class with the properties that   *)
(* were asked for, has blocks of one size, as many elements at every unit, *)
(* and every unit in every row and column of blocks, if that was asked     *)
(* for.  Mappings of canonical patterns are accepted and not satisfied.    *)
AsAsked(p, asked) ==
    /\ "blocked" \in asked.layout => PA!Satisfied(asked, Traits(p))
    /\ "balanced" \in asked.partitioning => \A d \in BN!Dims(p.ext) : p.ext[d] % p.blocksize[d] = 0
    /\ "balanced" \in asked.partitioning /\ "balanced" \in asked.mapping =>
           \A u \in PUnits(p) : OwnSize(p, u) * p.nunits = Size(p)
    /\ "blocked" \in asked.layout /\ "diagonal" \in asked.mapping => EveryUnitInEverySlice(p)

(* The other ways to construct a pattern: from specs, and from an argument *)
(* list that names the team, or the arrangement of all units.              *)
InOneDimension(size, dist, units) == <<BN!Extent(size), BN!Dist(dist), BN!OfTeam(units)>>
InSeveral(p) == [d \in BN!Dims(p.ext) |-> BN!Extent(p.ext[d])] \o <<BN!Dists(p.dists), BN!Arrangement(p.team)>>

ByOtherConstructors(p, all) ==
    LET line  == InOneDimension(p.size, p.dist, p.nunits)
        team1 == BN!LinearTeamSpec(p.nunits, 1)
        team  == BN!Arranged(p.team)
    IN CASE p.class = "block1D" -> {B1!FromSpecs(p.size, p.dist, team1, p.nunits), B1!FromArguments(line, all)}
         [] p.class = "tile1D"  -> {T1!FromSpecs(p.size, p.dist, team1, p.nunits), T1!FromArguments(line, all)}
         [] p.class = "shift1D" -> {S1!FromSpecs(p.size, p.dist, team1, p.nunits), S1!FromArguments(line, all)}
         [] p.class = "csr"     -> {CS!FromLocalSizes(p.sizes, team1, p.nunits),
                                    CS!FromLocalSizesAndArguments(p.sizes, line, all)}
         [] p.class = "block"   -> {BN!FromSpecs(p.ext, p.order, p.dists, team, p.nunits)}
              \cup {BN!FromArguments(InSeveral(p), Len(p.ext), p.order, k) : k \in {all} \cap {p.nunits}}
         [] p.class = "tile"    -> {TN!FromSpecs(p.ext, p.order, p.dists, team, p.nunits)}
              \cup {TN!FromArguments(InSeveral(p), Len(p.ext), p.order, k) : k \in {all} \cap {p.nunits}}
         [] p.class = "shift"   -> {ST!FromSpecs(p.ext, p.order, p.dists, team, p.nunits)}
              \cup {ST!FromArguments(InSeveral(p), Len(p.ext), p.order, k) : k \in {all} \cap {p.nunits}}

(* operator==. *)
Equal(p, q) ==
    CASE p.class = "block1D" -> B1!Equal(p, q)
      [] p.class = "tile1D"  -> T1!Equal(p, q)
      [] p.class = "shift1D" -> S1!Equal(p, q)
      [] p.class = "csr"     -> CS!Equal(p, q)
      [] p.class = "block"   -> BN!Equal(p, q)
      [] p.class = "tile"    -> TN!Equal(p, q)
      [] p.class = "shift"   -> ST!Equal(p, q)

(* The constructors make patterns that are equal, and equal patterns put   *)
(* the elements at the same places.                                        *)
ConstructorsAgree(p, all) ==
    \A q \in ByOtherConstructors(p, all) :
        q # NULL /\ Equal(p, q) /\ \A g \in Indices(p) : Local(p, g) = Local(q, g)

(* The ways of asking where an element is agree. *)
LookupsAgree(p) ==
    \A g \in Indices(p) :
        LET loc == Local(p, g)
        IN /\ UnitAt(p, g) = loc.unit
           /\ \A u \in PUnits(p) : IsLocal(p, g, u) <=> u = loc.unit
           /\ At(p, loc.unit, g) = loc.index

(* lbegin and lend enclose what the unit owns. *)
RangeEncloses(p) ==
    \A u \in PUnits(p) : \A g \in Owned(p, u) :
        LocalRange(p, u)[1] <= g /\ g < LocalRange(p, u)[2]
=============================================================================
