------------------------- MODULE ShiftTilePattern1D -------------------------
(***************************************************************************)
(* ShiftTilePattern1D.h: in one dimension there is nothing to shift, and   *)
(* every method is word for word that of TilePattern1D.h.                  *)
(***************************************************************************)
EXTENDS PatternParts

LOCAL T == INSTANCE TilePattern1D

(* What the class says of itself: the one difference to TilePattern1D.     *)
Traits ==
    TraitsOf(<<"rectangular", "balanced">>, <<"balanced", "unbalanced", "diagonal">>,
             <<"blocked", "linear">>)

Shift(p) == IF p = NULL THEN NULL ELSE [p EXCEPT !.class = "shift1D"]

(* The constructors, and operator==. *)
FromArguments(args, all)           == Shift(T!FromArguments(args, all))
FromSpecs(size, dist, team, units) == Shift(T!FromSpecs(size, dist, team, units))
FromTeam(size, dist, units)        == Shift(T!FromTeam(size, dist, units))
Equal(p, q)                        == T!Equal(p, q)

Size(p)            == T!Size(p)
LocalExtent(p)     == T!LocalExtent(p)
LocalSize(p)       == T!LocalSize(p)
NumLocalBlocks(p)  == T!NumLocalBlocks(p)
LocalCapacity(p)   == T!LocalCapacity(p)

UnitAt(p, g)       == T!UnitAt(p, g)
LocalCoords(p, g)  == T!LocalCoords(p, g)
At(p, g)           == T!At(p, g)
Local(p, g)        == T!Local(p, g)
Global(p, unit, l) == T!Global(p, unit, l)
LocalRange(p, unit) == T!LocalRange(p, unit)

Block(p, b)            == T!Block(p, b)
LocalBlock(p, unit, b) == T!LocalBlock(p, unit, b)
LocalBlockLocal(p, b)  == T!LocalBlockLocal(p, b)
=============================================================================
