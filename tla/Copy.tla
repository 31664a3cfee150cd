-------------------------------- MODULE Copy --------------------------------
(***************************************************************************)
(* internal::copy_impl and copy_async_impl of Copy.h: how a range of       *)
(* elements is cut into reads.  l is what the pattern answers the calling  *)
(* unit about them: local[g], the unit and the index in its memory of the  *)
(* element g; unitAt[g], its unit; size[u], what it gets for local_size(u).*)
(***************************************************************************)
EXTENDS Integers, FiniteSetsExt

CONSTANT MaxCopyElem  \* max_copy_elem: the most elements one dart_get may read

(* The elements the next read takes: all that is left if the range begins  *)
(* and ends at one unit, what is left at the unit otherwise.               *)
PieceSize(l, first, last, cur) ==
    LET loc   == l.local[cur]
        left  == last - cur
        whole == IF l.unitAt[first] = l.unitAt[last - 1] THEN last - first
                 ELSE l.size[loc.unit] - loc.index
    IN Min({whole, MaxCopyElem, left})

(* The reads of copy_async_impl: where in the output each one goes, where  *)
(* it comes from, and how many elements it takes.                          *)
Gets(l, first, last, out) ==
    LET From[cur \in first .. last] ==
          IF cur = last THEN {}
          ELSE LET k == PieceSize(l, first, last, cur)
               IN {[to |-> out + cur - first, from |-> l.local[cur], len |-> k]} \cup From[cur + k]
    IN From[first]
=============================================================================
