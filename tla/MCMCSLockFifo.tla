--------------------------- MODULE MCMCSLockFifo ---------------------------
(* Instance of MCSLockFifo for TLC: three units, two locks, k before m.     *)
EXTENDS MCSLockFifo, TLC

CONSTANTS u0, u1, u2, k, m

TwoLocks == {k, m}
ThreeUnits == {u0, u1, u2}
OrderedNesting == {<<k, m>>}
=============================================================================
