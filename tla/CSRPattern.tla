----------------------------- MODULE CSRPattern -----------------------------
(***************************************************************************)
(* CSRPattern.h in one dimension: one block for each unit, of a size given *)
(* for each unit.  offsets[u] is where the block of unit u begins.         *)
(***************************************************************************)
EXTENDS PatternParts, FiniteSets, FiniteSetsExt

(* What the class says of itself. *)
Traits ==
    TraitsOf(<<"minimal", "rectangular", "balanced", "unbalanced">>, <<"unbalanced">>,
             <<"blocked", "linear">>)

Sum(sizes, units) == FoldSet(LAMBDA u, s : s + sizes[u], 0, units)

(* initialize_block_offsets. *)
InitializeBlockOffsets(sizes) == [u \in DOMAIN sizes |-> Sum(sizes, 0 .. u - 1)]

(* initialize_local_sizes from a distribution: every unit gets a whole     *)
(* block, the last one too, whatever is left of the range.  Throws for the *)
(* cyclic distributions.                                                   *)
InitializeLocalSizes(size, dist, nunits) ==
    IF dist.type \notin {"blocked", "tile", "none"} THEN NULL
    ELSE [u \in 0 .. nunits - 1 |->
        CASE dist.type \in {"blocked", "tile"} -> DivCeil(size, nunits)
          [] dist.type = "none" -> IF u = 0 THEN size ELSE 0]

(* The members; an assertion that there is a local size for each unit.     *)
NewPattern(size, sizes, dist, nunits) ==
    IF sizes = NULL \/ Cardinality(DOMAIN sizes) # nunits THEN NULL
    ELSE [class |-> "csr", size |-> size, sizes |-> sizes, dist |-> dist, nunits |-> nunits,
          offsets |-> InitializeBlockOffsets(sizes)]

(* The constructors: from an argument list, from a size and a distribution *)
(* (and from then on blocked in name), from local sizes with an argument   *)
(* list, where nothing compares their sum with the size, with a team spec, *)
(* and with a team.                                                        *)
FromArguments(args, all) ==
    LET a == Arguments(args, 1, all)
    IN IF a = NULL THEN NULL
       ELSE NewPattern(a.sizes[1], InitializeLocalSizes(a.sizes[1], a.dists[1], a.units), a.dists[1], a.units)

FromTeam(size, dist, units) == NewPattern(size, InitializeLocalSizes(size, dist, units), BLOCKED, units)

FromLocalSizesAndArguments(sizes, args, all) ==
    LET a == Arguments(args, 1, all)
    IN IF a = NULL THEN NULL ELSE NewPattern(a.sizes[1], sizes, a.dists[1], a.units)

FromLocalSizes(sizes, team, units) ==
    IF AdjustedTeamSpec(team, <<BLOCKED>>, units) = NULL THEN NULL
    ELSE NewPattern(Sum(sizes, DOMAIN sizes), sizes, BLOCKED, units)

FromLocalSizesOfTeam(sizes, units) == NewPattern(Sum(sizes, DOMAIN sizes), sizes, BLOCKED, units)

(* operator==; copies and assigned patterns have all members of the other. *)
Equal(p, q) == p.size = q.size /\ p.sizes = q.sizes /\ p.dist = q.dist /\ p.nunits = q.nunits

Size(p) == p.size

(* local_size(unit) is the calling unit's own, whatever unit it is given.  *)
LocalSize(p, me) == p.sizes[me]

(* initialize_local_capacity: the largest block. *)
LocalCapacity(p) == Max({p.sizes[u] : u \in DOMAIN p.sizes})

(* The unit whose successor is the first to satisfy a condition, the last  *)
(* unit if none does: the upward loops of unit_at and block_at.            *)
FirstBefore(p, Stop(_)) ==
    LET stops == {u \in 0 .. p.nunits - 2 : Stop(p.offsets[u + 1])}
    IN IF stops = {} THEN p.nunits - 1 ELSE Min(stops)

(* unit_at(g_coords) and block_at(g_coords) compare with >= where          *)
(* unit_at(g_index) compares with >.                                       *)
UnitAtCoords(p, g) == FirstBefore(p, LAMBDA next : next >= g)
BlockAt(p, g)      == FirstBefore(p, LAMBDA next : next >= g)

(* unit_at(g_index). *)
UnitAt(p, g) == FirstBefore(p, LAMBDA next : next > g)

(* local(), local_index(): the last block that begins at or before g.      *)
Local(p, g) ==
    LET unit == Max({u \in DOMAIN p.offsets : p.offsets[u] <= g})
    IN [unit |-> unit, index |-> g - p.offsets[unit]]

At(p, g) == Local(p, g).index

Global(p, unit, l) == IF p.nunits < 2 THEN l ELSE p.offsets[unit] + l

IsLocal(p, g, unit) ==
    g >= p.offsets[unit] /\ (unit = p.nunits - 1 \/ g < p.offsets[unit + 1])

(* initialize_local_range. *)
LocalRange(p, unit) ==
    IF p.sizes[unit] = 0 THEN <<0, 0>>
    ELSE <<Global(p, unit, 0), Global(p, unit, p.sizes[unit] - 1) + 1>>

(* block, local_block, local_block_local: a unit has exactly one block.    *)
Block(p, b)               == [offset |-> p.offsets[b], extent |-> p.sizes[b]]
LocalBlock(p, unit)       == [offset |-> p.offsets[unit], extent |-> p.sizes[unit]]
LocalBlockLocal(p, unit)  == [offset |-> 0, extent |-> p.sizes[unit]]
=============================================================================
