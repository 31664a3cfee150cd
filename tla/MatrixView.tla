----------------------------- MODULE MatrixView -----------------------------
(***************************************************************************)
(* Views of a matrix: MatrixRef, MatrixRefView, LocalMatrixRef and the     *)
(* iterator GlobViewIter.  A view is a record of the members of a          *)
(* MatrixRefView: the dimensions fixed so far, the coordinates they are    *)
(* fixed at, a view spec and, for the views on local memory, another one   *)
(* in local coordinates.  p is the pattern of the matrix.  At the end, what *)
(* summa asks of a pattern.                                                *)
(***************************************************************************)
EXTENDS Patterns, Sequences, FiniteSetsExt

Dimensions(p) == 1 .. Len(p.ext)
Zero(p) == [d \in Dimensions(p) |-> 0]

(* What a pattern is asked with coordinates. *)
LocalIndex(p, point) ==
    CASE p.class = "block" -> BN!Local(p, point)
      [] p.class = "tile"  -> TN!Local(p, point)
      [] p.class = "shift" -> ST!Local(p, point)
UnitAtPoint(p, point) ==
    CASE p.class = "block" -> BN!UnitAt(p, point)
      [] p.class = "tile"  -> TN!UnitAt(p, point)
      [] p.class = "shift" -> ST!UnitAt(p, point)
LocalAtPoint(p, me, l) ==
    CASE p.class = "block" -> BN!LocalAt(p, me, l)
      [] p.class = "tile"  -> TN!LocalAt(p, me, l)
      [] p.class = "shift" -> ST!LocalAt(p, l)
GlobalPoint(p, unit, l) ==
    CASE p.class = "block" -> BN!Global(p, unit, l)
      [] p.class = "tile"  -> TN!Global(p, unit, l)
      [] p.class = "shift" -> ST!Global(p, unit, l)
Block(p, b)      == IF p.class = "tile" THEN TN!Block(p, b) ELSE ST!Block(p, b)
LocalBlock(p, me, b) == IF p.class = "tile" THEN TN!LocalBlock(p, me, me, b) ELSE ST!LocalBlock(p, me, b)
LocalBlockLocal(p, me, b) ==
    IF p.class = "tile" THEN TN!LocalBlockLocal(p, me, b) ELSE ST!LocalBlockLocal(p, b)

(* The arrangement of the local blocks of a unit. *)
LocalBlocksOf(p, me) == IF p.class = "tile" THEN TN!LocalBlockspec(p, me) ELSE ST!LocalBlockspec(p)

----------------------------------------------------------------------------
(* The matrix itself, matrix.block(b). *)
Whole(p)        == [dim |-> 0, coord |-> Zero(p), vs |-> BN!View(Zero(p), p.ext), lvs |-> BN!View(Zero(p), Zero(p))]
BlockRef(p, b)  == [Whole(p) EXCEPT !.vs = Block(p, b)]

(* operator[]: the next dimension is fixed; the view spec keeps its extent *)
(* and offset.                                                             *)
Subscript(w, pos) ==
    [w EXCEPT !.coord[w.dim + 1] = pos, !.dim = @ + 1, !.vs = BN!SetRank(@, w.dim + 1)]

(* sub<d>(offset, extent): a new view; the offset replaces the one the     *)
(* view spec had in the dimension.                                         *)
Sub(p, w, d, offset, extent) ==
    [Whole(p) EXCEPT !.vs = BN!ResizeDim(w.vs, d, offset, extent)]

(* sub<d>(offset), the projection to one offset of a dimension; the fixed  *)
(* dimension counts as the first one whichever it is.                      *)
Project(p, w, d, offset) ==
    [Whole(p) EXCEPT !.dim = w.dim + 1, !.vs = BN!ResizeDim(w.vs, d + w.dim, offset, 1)]

(* at(args): the coordinates left to fix. *)
AtArgs(w, args) ==
    [w EXCEPT !.coord = [d \in DOMAIN @ |-> IF d > w.dim THEN args[d - w.dim] ELSE @[d]]]

(* global_reference(): the linear index of the element the coordinates     *)
(* name within the view spec.                                              *)
Reference(p, w) == BN!IndexAt(p.ext, p.order, BN!Shifted(w.coord, w.vs))

(* is_local() of a fully subscripted view: whether unit_at names the unit. *)
RefIsLocal(p, w, unit) == UnitAtPoint(p, BN!Shifted(w.coord, w.vs)) = unit

----------------------------------------------------------------------------
\* Faulty variant: the position in the view is taken for a coordinate of
\* the matrix.
IterCoordsUnshifted(p, w, i) == BN!CoordsOf(w.vs.extents, p.order, i)

(* GlobViewIter: coords() of position i of begin() .. end().               *)
IterCoords(p, w, i) == BN!Shifted(BN!CoordsOf(w.vs.extents, p.order, i), w.vs)

(* The positions from begin() to end(). *)
IterPositions(w) == 0 .. BN!ViewSize(w.vs) - 1

(* lpos(), operator*, and gpos(). *)
IterLPos(p, w, i) == LocalIndex(p, IterCoords(p, w, i))
IterGPos(p, w, i) == BN!IndexAt(p.ext, p.order, IterCoords(p, w, i))

----------------------------------------------------------------------------
(* LocalMatrixRef: matrix.local, matrix.local.block(b) of the unit me.     *)
LocalRef(p, me) == [Whole(p) EXCEPT !.vs = BN!View(Zero(p), BN!LocalExtents(p, me))]
LocalBlockRef(p, me, b) ==
    [Whole(p) EXCEPT !.vs = LocalBlock(p, me, b), !.lvs = LocalBlockLocal(p, me, b)]

LocalSubscript(w, pos) == [w EXCEPT !.coord[w.dim + 1] = pos, !.dim = @ + 1]

(* The offset in local memory that a fully subscripted local view reads    *)
(* and writes: relative to the local view spec.                            *)
LocalReference(p, me, w) == LocalAtPoint(p, me, BN!Shifted(w.coord, w.lvs))

----------------------------------------------------------------------------
(* What a view owes to the program. *)

(* The element at a point, and the boxes of a matrix. *)
ElementAt(p, point) == BN!IndexAt(p.ext, p.order, point)
Spans(n) == {s \in (0 .. n - 1) \X (1 .. n) : s[1] + s[2] <= n}

(* The iterators of a view go through a box in order, at the places of its *)
(* elements; coordinates name its elements, fixed one by one or at once.   *)
Iterates(p, w, box) ==
    /\ IterPositions(w) = 0 .. BN!SizeOf(box.extents) - 1
    /\ \A i \in IterPositions(w) :
          LET g == ElementAt(p, BN!Shifted(BN!CoordsOf(box.extents, p.order, i), box))
          IN IterGPos(p, w, i) = g /\ IterLPos(p, w, i) = Local(p, g)
Names(p, w, box) ==
    \A point \in BN!Points(box.extents) :
        LET g == ElementAt(p, BN!Shifted(point, box))
            r == Subscript(Subscript(w, point[1]), point[2])
        IN /\ Reference(p, AtArgs(w, point)) = g
           /\ Reference(p, r) = g
           /\ RefIsLocal(p, r, Local(p, g).unit)
SeesBox(p, w, box) == Iterates(p, w, box) /\ Names(p, w, box)

(* Restricting both dimensions, in either order. *)
SubsSeeBoxes(p) ==
    \A a \in Spans(p.ext[1]), b \in Spans(p.ext[2]) :
        LET w == Sub(p, Sub(p, Whole(p), 1, a[1], a[2]), 2, b[1], b[2])
        IN /\ SeesBox(p, w, BN!View(<<a[1], b[1]>>, <<a[2], b[2]>>))
           /\ w = Sub(p, Sub(p, Whole(p), 2, b[1], b[2]), 1, a[1], a[2])

(* The projections in both dimensions, by iterators; in the first, by      *)
(* subscripts too.                                                         *)
ProjectionsSeeLines(p) ==
    /\ \A a \in 0 .. p.ext[1] - 1 :
          /\ Iterates(p, Project(p, Whole(p), 1, a), BN!View(<<a, 0>>, <<1, p.ext[2]>>))
          /\ \A b \in 0 .. p.ext[2] - 1 :
                Reference(p, Subscript(Project(p, Whole(p), 1, a), b)) = ElementAt(p, <<a, b>>)
    /\ \A b \in 0 .. p.ext[2] - 1 :
          Iterates(p, Project(p, Whole(p), 2, b), BN!View(<<0, b>>, <<p.ext[1], 1>>))

(* Blocks, global and local, are boxes; subscripts of a local block reach, *)
(* in local memory, the element its iterators find in the matrix.          *)
BlocksSeeBoxes(p) ==
    p.class # "block" =>
        /\ \A b \in 0 .. BN!SizeOf(p.blocks) - 1 : SeesBox(p, BlockRef(p, b), Block(p, b))
        /\ \A u \in PUnits(p) : \A b \in 0 .. BN!SizeOf(LocalBlocksOf(p, u)) - 1 :
              LET w == LocalBlockRef(p, u, b)
              IN /\ Iterates(p, w, LocalBlock(p, u, b))
                 /\ \A point \in BN!Points(w.vs.extents) :
                       LocalIndex(p, BN!Shifted(point, w.vs)) =
                          [unit |-> u, index |-> LocalReference(p, u, LocalSubscript(LocalSubscript(w, point[1]), point[2]))]

(* matrix.local[i][j] of a unit is the element global(i, j) of the unit.   *)
LocalSubscriptsAgree(p) ==
    p.class # "shift" => \A u \in PUnits(p) : \A point \in BN!Points(LocalRef(p, u).vs.extents) :
        LocalIndex(p, GlobalPoint(p, u, point)) =
            [unit |-> u, index |-> LocalReference(p, u, LocalSubscript(LocalSubscript(LocalRef(p, u), point[1]), point[2]))]

----------------------------------------------------------------------------
(* summa does not compile unless the pattern class satisfies its           *)
(* constraints: few tiles of one size, each contiguous and in linear order.*)
SummaConstraints ==
    PA!TraitsOf(<<"minimal", "rectangular", "balanced">>, <<"multiple", "unbalanced">>, <<"blocked", "linear">>)
Accepted(p) == PA!Satisfied(SummaConstraints, Traits(p))

(* A.block(coords): where it begins, globally and at its unit; and         *)
(* C.local.block(lb) of a unit: the same, and its block coordinates.       *)
BlockAtCoords(p, b) == BlockRef(p, BN!IndexAt(p.blocks, p.order, b))
FirstOf(p, w)       == [gpos |-> IterGPos(p, w, 0), lpos |-> IterLPos(p, w, 0)]

(* What a pattern of square tiles answers in summa: its extent and the one *)
(* of its tiles, where elements are and the memory there is for them,      *)
(* where an element is within its tile, the blocks of A and B, those of C  *)
(* of each unit, and the first coordinate of the unit in the team spec.    *)
Answers(p) ==
    LET l == Layout(p) IN
    [extent |-> p.ext[1], blocksize |-> p.blocksize[1], units |-> PUnits(p),
     local  |-> l.local, unitAt |-> l.unitAt, size |-> [u \in PUnits(p) |-> l.size[u][u]],
     phase  |-> [i \in 0 .. BN!SizeOf(p.blocksize) - 1 |-> BN!CoordsOf(p.blocksize, p.order, i)],
     place  |-> [x \in (0 .. p.ext[1] - 1) \X (0 .. p.ext[2] - 1) |-> LocalIndex(p, x)],
     block  |-> [b \in (0 .. p.blocks[1] - 1) \X (0 .. p.blocks[2] - 1) |-> FirstOf(p, BlockAtCoords(p, b))],
     cblock |-> [u \in PUnits(p) |->
                   [lb \in 0 .. BN!SizeOf(LocalBlocksOf(p, u)) - 1 |->
                      LET w == LocalBlockRef(p, u, lb)
                      IN [col |-> w.vs.offsets[1] \div p.blocksize[1],
                          row |-> w.vs.offsets[2] \div p.blocksize[1],
                          start |-> IterLPos(p, w, 0).index]]],
     column |-> [u \in PUnits(p) |-> BN!CoordsOf(p.team, "row", u)[1]]]
=============================================================================
