----------------------------- MODULE RoundBarrier -----------------------------
(***************************************************************************)
(* What a team barrier promises: a unit returns from its n-th call only    *)
(* when every member of the team has made its n-th call.                   *)
(***************************************************************************)
EXTENDS Naturals

CONSTANT Units

VARIABLES
    entered,  \* entered[u]: calls of the barrier made by u
    left      \* left[u]: calls u has returned from

bvars == <<entered, left>>

BInit ==
    /\ entered = [u \in Units |-> 0]
    /\ left = [u \in Units |-> 0]

Arrive(u) ==
    /\ entered[u] = left[u]
    /\ entered' = [entered EXCEPT ![u] = @ + 1]
    /\ UNCHANGED left

Depart(u) ==
    /\ left[u] < entered[u]
    /\ \A v \in Units : entered[v] >= entered[u]
    /\ left' = [left EXCEPT ![u] = @ + 1]
    /\ UNCHANGED entered

BNext == \E u \in Units : Arrive(u) \/ Depart(u)

BSpec == BInit /\ [][BNext]_bvars
===============================================================================
