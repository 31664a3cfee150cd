---------------------------- MODULE BlockProduct ----------------------------
(***************************************************************************)
(* What a distributed multiplication promises (SUMMA.h:122-134): the       *)
(* result is put together panel by panel,                                  *)
(*     C = C + A(:,u) * B(u,:)                                             *)
(* where each block of C takes each panel u exactly once, in any order.    *)
(* A point is <<column, row>>.                                             *)
(***************************************************************************)
EXTENDS Integers, FiniteSetsExt

CONSTANTS A, B  \* the operands: functions of points

VARIABLES
    extent,  \* rows and columns of A, B and C
    size,    \* rows and columns of a block
    c,       \* the result
    added    \* added[b]: the panels block b of the result has taken

Panels == 0 .. extent \div size - 1
Blocks == Panels \X Panels
Points == (0 .. extent - 1) \X (0 .. extent - 1)

(* What panel u contributes to the result at the point x. *)
Panel(x, u) ==
    LET term(k) == A[<<k, x[2]>>] * B[<<x[1], k>>]
    IN MapThenSumSet(term, u * size .. (u + 1) * size - 1)

PInit ==
    /\ c = [x \in Points |-> 0]
    /\ added = [b \in Blocks |-> {}]

Add(b, u) ==
    /\ u \notin added[b]
    /\ c' = [x \in Points |-> IF <<x[1] \div size, x[2] \div size>> = b THEN c[x] + Panel(x, u) ELSE c[x]]
    /\ added' = [added EXCEPT ![b] = @ \cup {u}]
    /\ UNCHANGED <<extent, size>>

PNext == \E b \in Blocks, u \in Panels : Add(b, u)

PSpec == PInit /\ [][PNext]_<<extent, size, c, added>>
=============================================================================
