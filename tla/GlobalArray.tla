---------------------------- MODULE GlobalArray ----------------------------
(***************************************************************************)
(* What a distributed array promises: it is one array.  An algorithm of a  *)
(* unit that works on local elements changes those of its range the unit   *)
(* owns; a copy or a reduction concerns the whole range, wherever it lies. *)
(***************************************************************************)
EXTENDS Integers, Sequences

VARIABLES
    values,  \* the array: a value for each global index
    owner,   \* owner[g]: the unit an element lives at
    call     \* the call a unit has just made: arguments and result

avars == <<values, owner, call>>

Between(first, last) == {g \in DOMAIN values : first <= g /\ g < last}

(* The first position of the least value of a range, its end if empty.     *)
FirstSmallest(first, last) ==
    IF Between(first, last) = {} THEN last
    ELSE CHOOSE g \in Between(first, last) :
            \A h \in Between(first, last) \ {g} :
                values[g] < values[h] \/ (values[g] = values[h] /\ g < h)

Update(part, New(_)) == values' = [g \in DOMAIN values |-> IF g \in part THEN New(g) ELSE values[g]]

Assign ==
    /\ call'.op = "assign"
    /\ values' = [values EXCEPT ![call'.at] = call'.value]

FillPart ==
    /\ call'.op = "fill"
    /\ Update({g \in Between(call'.first, call'.last) : owner[g] = call'.unit}, LAMBDA g : call'.value)

CopyIn ==
    /\ call'.op = "copy"
    /\ Update(Between(call'.first, call'.first + Len(call'.vals)),
              LAMBDA g : call'.vals[g - call'.first + 1])

FindSmallest ==
    /\ call'.op = "min"
    /\ call'.result = FirstSmallest(call'.first, call'.last)
    /\ UNCHANGED values

GoOn == call'.op = "none" /\ UNCHANGED values

AInit == call.op = "none"
ANext == UNCHANGED owner /\ (Assign \/ FillPart \/ CopyIn \/ FindSmallest \/ GoOn)

ASpec == AInit /\ [][ANext]_avars
=============================================================================
