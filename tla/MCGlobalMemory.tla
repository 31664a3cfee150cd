--------------------------- MODULE MCGlobalMemory ---------------------------
(* Instance of GlobalMemory for TLC: three units, two of them on one node.  *)
(* One group is built from nothing, its members in descending order; the   *)
(* other from the members of the parent team, half of them and unit 2      *)
(* without unit 1.                                                         *)
EXTENDS GlobalMemory

ThreeUnits == 0 .. 2
TwoNodes == [u \in ThreeUnits |-> IF u = 0 THEN "a" ELSE "b"]
Do(op, arg) == [op |-> op, arg |-> arg]
TwoRecipes ==
    {[from |-> "none", steps |-> <<Do("add", 2), Do("add", 1), Do("intersect", <<0, 1, 2>>)>>],
     [from |-> "team", steps |-> <<Do("split", <<2, 1>>), Do("union", <<2>>), Do("delete", 1)>>]}
=============================================================================
