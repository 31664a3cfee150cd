------------------------------ MODULE Channel -------------------------------
(***************************************************************************)
(* What a work queue promises: items come out in the order they went in,   *)
(* each once, and no more than Capacity of them are inside.                *)
(***************************************************************************)
EXTENDS Naturals, Sequences

CONSTANTS Capacity, Items

VARIABLES
    inside,     \* the items in the channel, oldest first
    last        \* the item taken out last

cvars == <<inside, last>>

CInit(none) == inside = <<>> /\ last = none

Put(i) ==
    /\ Len(inside) < Capacity
    /\ inside' = Append(inside, i)
    /\ UNCHANGED last

Take ==
    /\ inside # <<>>
    /\ last' = Head(inside)
    /\ inside' = Tail(inside)

CNext == Take \/ \E i \in Items : Put(i)
=============================================================================
