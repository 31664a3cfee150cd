---------------------------- MODULE PatternParts ----------------------------
(***************************************************************************)
(* What the pattern classes are made from.                                 *)
(*                                                                         *)
(* Distribution.h: how the elements of one dimension go to the units of    *)
(* that dimension.                                                         *)
(*                                                                         *)
(* Cartesian.h and the ViewSpec of Dimensional.h: extents, linear indices  *)
(* and coordinates in row- and column-major order, and team specs.  An     *)
(* extent, a point or an offset is a sequence with one entry per           *)
(* dimension; coordinates and indices count from 0.                        *)
(*                                                                         *)
(* PatternArguments.h: the argument list of a constructor, read from the   *)
(* left; what an argument does depends on those before it.                 *)
(*                                                                         *)
(* PatternProperties.h: the properties of a class, by which make_pattern   *)
(* and the algorithms choose.                                              *)
(***************************************************************************)
EXTENDS Integers, Sequences, Functions

LOCAL INSTANCE SequencesExt

CONSTANT NULL  \* the result of a call that throws

(* dash::math::div_ceil. *)
DivCeil(a, b) == (a \div b) + (IF a % b > 0 THEN 1 ELSE 0)

(* The distributions of Distribution.cc; -1 stands for "no block size". *)
BLOCKED        == [type |-> "blocked", blocksz |-> -1]
CYCLIC         == [type |-> "cyclic", blocksz |-> 1]
NONE           == [type |-> "none", blocksz |-> -1]
TILE(b)        == [type |-> "tile", blocksz |-> b]
BLOCKCYCLIC(b) == [type |-> "blockcyclic", blocksz |-> b]

(* The largest block of a range of elements given to that many units. *)
MaxBlocksizeInRange(dist, range, units) ==
    CASE dist.type = "none"    -> range
      [] dist.type = "blocked" -> DivCeil(range, units)
      [] dist.type = "cyclic"  -> 1
      [] OTHER -> IF range < dist.blocksz THEN range ELSE dist.blocksz

(* The block that holds a local index of the unit at a team coordinate.    *)
LocalIndexToBlockCoord(dist, unit, local, units) ==
    CASE dist.type = "none"    -> 0
      [] dist.type = "blocked" -> unit
      [] dist.type = "cyclic"  -> unit + local * units
      [] OTHER -> (local \div dist.blocksz) * units + unit

-----------------------------------------------------------------------------
(* CartesianSpace::size: the product of the extents. *)
SizeOf(ext) == FoldFunction(LAMBDA a, b : a * b, 1, ext)

Dims(ext) == DOMAIN ext

(* The points of the space. *)
Points(ext) ==
    {c \in [Dims(ext) -> UNION {0 .. ext[d] - 1 : d \in Dims(ext)}] : \A d \in Dims(ext) : c[d] < ext[d]}

(* _offset_row_major and _offset_col_major. *)
Offset(ext, order, d) ==
    SizeOf(IF order = "row" THEN SubSeq(ext, d + 1, Len(ext)) ELSE SubSeq(ext, 1, d - 1))

(* CartesianIndexSpace::at. *)
IndexAt(ext, order, point) ==
    FoldFunction(LAMBDA a, b : a + b, 0, [d \in Dims(ext) |-> Offset(ext, order, d) * point[d]])

(* CartesianIndexSpace::coords: each dimension takes its quotient and leaves *)
(* the remainder to the next, from the slowest dimension to the fastest.     *)
CoordsOf(ext, order, index) ==
    [d \in Dims(ext) |->
        LET slower == IF order = "row" THEN d - 1 ELSE d + 1
            rest   == IF slower \in Dims(ext) THEN index % Offset(ext, order, slower) ELSE index
        IN rest \div Offset(ext, order, d)]

----------------------------------------------------------------------------
(* ViewSpec: offsets and extents.  Its size counts the dimensions below    *)
(* its rank only.                                                          *)
View(offs, ext) == [offsets |-> offs, extents |-> ext, rank |-> Len(ext)]
ViewSize(v)     == SizeOf(SubSeq(v.extents, 1, v.rank))
SetRank(v, r)   == [v EXCEPT !.rank = r]
ResizeDim(v, d, offset, extent) == [v EXCEPT !.offsets[d] = offset, !.extents[d] = extent]

(* region(): begin and end of the view. *)
Region(v) == [begin |-> v.offsets, end |-> [d \in Dims(v.extents) |-> v.offsets[d] + v.extents[d]]]

Covers(v, point) == \A d \in Dims(v.extents) : point[d] \in Region(v).begin[d] .. Region(v).end[d] - 1

(* A point of a view, as a point of the space the view lies in.            *)
Shifted(point, v) == [d \in Dims(point) |-> point[d] + v.offsets[d]]

----------------------------------------------------------------------------
(* TeamSpec: the extents the units of a team are arranged in.              *)

(* TeamSpec(team): all units in the first dimension. The constructor sets  *)
(* _is_linear and then calls resize, which clears it again.                *)
LinearTeamSpec(units, ndim) ==
    [extents |-> [d \in 1 .. ndim |-> IF d = 1 THEN units ELSE 1], isLinear |-> FALSE]

Arranged(extents) == [extents |-> extents, isLinear |-> FALSE]

(* DistributionSpec(): blocked in the first dimension.                     *)
DefaultDists(ndim) == [d \in 1 .. ndim |-> IF d = 1 THEN BLOCKED ELSE NONE]

(* DistributionSpec: only the dimensions after the first are looked at.    *)
IsTiled(dists) == \E d \in 2 .. Len(dists) : dists[d].type = "tile"

(* All units in the first dimension that is tiled, one everywhere else.    *)
TiledExtents(dists, units) ==
    [d \in Dims(dists) |-> IF dists[d].type = "tile" /\ \A e \in 1 .. d - 1 : dists[e].type # "tile"
                           THEN units ELSE 1]

(* All units in every dimension that is distributed. *)
DistributedExtents(dists, units) == [d \in Dims(dists) |-> IF dists[d].type = "none" THEN 1 ELSE units]

(* TeamSpec(other, distribution, team). *)
AdjustedTeamSpec(other, dists, units) ==
    IF SizeOf(other.extents) # units THEN NULL
    ELSE [extents |-> IF ~ (other.isLinear /\ Len(dists) > 1) THEN other.extents
                      ELSE IF IsTiled(dists) THEN TiledExtents(dists, units)
                      ELSE DistributedExtents(dists, units),
          isLinear |-> FALSE]

(* TeamSpec(distribution, team), of a distribution spec that knows whether *)
(* it is tiled: throws at a second distributed dimension.                  *)
DistributedTeamSpec(dists, tiled, units) ==
    IF tiled THEN [extents |-> TiledExtents(dists, units), isLinear |-> FALSE]
    ELSE IF \E d, e \in Dims(dists) : d # e /\ dists[d].type # "none" /\ dists[e].type # "none" THEN NULL
    ELSE [extents |-> DistributedExtents(dists, units), isLinear |-> FALSE]

(* dash::math::factorize: the multiplicity of each prime factor. *)
IsPrime(p) == p > 1 /\ \A q \in 2 .. p - 1 : p % q # 0
Multiplicity(n, p) == CHOOSE k \in 0 .. n : n % (p ^ k) = 0 /\ n % (p ^ (k + 1)) # 0
Factors(n) == {p \in 2 .. n : IsPrime(p) /\ n % p = 0}

(* balance_extents: in two dimensions, the extents (p * i, n / (p * i)) of *)
(* least surface over the multiples i of each prime factor p up to its     *)
(* multiplicity; the first one found wins a tie. The quotient is cut.      *)
BalancedExtents(n) ==
    LET Candidates  == {<<p, i>> \in Factors(n) \X (1 .. n) : i <= Multiplicity(n, p)}
        Shape(c)    == <<c[1] * c[2], n \div (c[1] * c[2])>>
        Surface(c)  == 2 * Shape(c)[1] + 2 * Shape(c)[2]
        Before(c, d) == c[1] < d[1] \/ (c[1] = d[1] /\ c[2] < d[2])
        Best(c)     == \A d \in Candidates \ {c} :
                          Surface(c) < Surface(d) \/ (Surface(c) = Surface(d) /\ Before(c, d))
    IN IF Candidates = {} THEN <<n, 1>> ELSE Shape(CHOOSE c \in Candidates : Best(c))

----------------------------------------------------------------------------
(* The kinds of arguments. *)
Extent(n)        == [kind |-> "extent", value |-> n]
Sizes(ext)       == [kind |-> "sizespec", value |-> ext]
Dist(dist)       == [kind |-> "dist", value |-> dist]
Dists(dists)     == [kind |-> "distspec", value |-> dists]
Arrangement(ext) == [kind |-> "teamspec", value |-> ext]
OfTeam(units)    == [kind |-> "team", value |-> units]

(* The members before the first argument, the default-constructed specs.   *)
NoArguments(ndim, all) ==
    [sizes |-> [d \in 1 .. ndim |-> 0], dists |-> DefaultDists(ndim), tiled |-> FALSE,
     team |-> LinearTeamSpec(all, ndim), units |-> all, nsizes |-> 0, ndists |-> 0, nteams |-> 0]

(* check(): the count-th argument, from 0.  A single distribution is put   *)
(* into the spec without telling it that it is tiled; a team arranges its  *)
(* units by the distributions before it, and is ignored behind a team      *)
(* spec, which leaves the units of Team::All.                              *)
Check(a, ndim, count, arg) ==
    CASE arg.kind = "extent" -> [a EXCEPT !.sizes[count + 1] = arg.value, !.nsizes = @ + 1]
      [] arg.kind = "sizespec" -> [a EXCEPT !.sizes = arg.value, !.nsizes = @ + ndim]
      [] arg.kind = "dist" -> [a EXCEPT !.dists[count - ndim + 1] = arg.value, !.ndists = @ + 1]
      [] arg.kind = "distspec" ->
             [a EXCEPT !.dists = arg.value, !.tiled = IsTiled(arg.value), !.ndists = @ + ndim]
      [] arg.kind = "teamspec" ->
             [a EXCEPT !.team = [extents |-> arg.value, isLinear |-> FALSE], !.nteams = @ + 1]
      [] arg.kind = "team" ->
             IF a.nteams > 0 THEN a
             ELSE [a EXCEPT !.team = DistributedTeamSpec(a.dists, a.tiled, arg.value),
                            !.units = arg.value]

(* check_tile_constraints: looks for tiles in all dimensions but the last. *)
MixedTiles(dists) ==
    /\ \E d \in 1 .. Len(dists) - 1 : dists[d].type = "tile"
    /\ \E d \in 1 .. Len(dists) - 1 : dists[d].type # dists[d + 1].type

(* PatternArguments(args). *)
Arguments(args, ndim, all) ==
    LET Read[k \in 0 .. Len(args)] ==
            IF k = 0 THEN NoArguments(ndim, all) ELSE Check(Read[k - 1], ndim, k - 1, args[k])
        a == Read[Len(args)]
    IN IF \/ a.nsizes \notin {0, ndim} \/ a.ndists \notin {0, ndim}
          \/ a.team = NULL \/ MixedTiles(a.dists)
       THEN NULL ELSE a

-----------------------------------------------------------------------------
(* The properties of patterns, lists of tags in three categories.  Here a  *)
(* property class is the set of its members that are true.  A class with   *)
(* tags derives from the class of the tags behind the first and overrides  *)
(* the members of that one; a first tag without a specialization gives the *)
(* primary template, so the tags behind it are lost.                       *)

LayoutPrimary == {"row_major", "canonical"}

LayoutTraits(tags) ==
    FoldRight(LAMBDA tag, behind :
                  CASE tag = "blocked"   -> (behind \cup {"blocked"}) \ {"canonical"}
                    [] tag = "canonical" -> (behind \cup {"canonical"}) \ {"blocked"}
                    [] tag = "linear"    -> behind \cup {"linear"}
                    [] OTHER             -> LayoutPrimary,
              tags, LayoutPrimary)

Specialized(known, tags) ==
    FoldRight(LAMBDA tag, behind : IF tag \in known THEN behind \cup {tag} ELSE {}, tags, {})

MappingTags ==
    {"balanced", "unbalanced", "neighbor", "shifted", "diagonal", "multiple", "cyclic"}
PartitioningTags == {"rectangular", "minimal", "regular", "balanced", "unbalanced"}

MappingTraits(tags)      == Specialized(MappingTags, tags)
PartitioningTraits(tags) == Specialized(PartitioningTags, tags)

(* The three categories of a pattern class, and of a request.              *)
TraitsOf(partitioning, mapping, layout) ==
    [partitioning |-> PartitioningTraits(partitioning), mapping |-> MappingTraits(mapping),
     layout |-> LayoutTraits(layout)]

(* pattern_..._default_properties: row_major has no specialization, so the *)
(* default layout is not linear.                                           *)
DefaultTraits ==
    TraitsOf(<<"rectangular", "unbalanced">>, <<"unbalanced">>, <<"row_major", "canonical", "linear">>)

(* pattern_constraints, check_pattern_constraints: multiple and the        *)
(* storage order are not looked at.                                        *)
Satisfied(asked, has) ==
    /\ asked.partitioning \subseteq has.partitioning
    /\ asked.mapping \ {"multiple"} \subseteq has.mapping
    /\ asked.layout \cap {"blocked", "canonical", "linear"} \subseteq has.layout
=============================================================================
