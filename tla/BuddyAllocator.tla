--------------------------- MODULE BuddyAllocator ---------------------------
(***************************************************************************)
(* The local heap of the MPI runtime, dart_mem.c: a complete binary tree   *)
(* of node states in an array.  An operator takes a tree and gives the     *)
(* tree after the call; the walk down the tree, which goes left first, is  *)
(* stated as the choice it amounts to.                                     *)
(***************************************************************************)
EXTENDS Integers, FiniteSets, FiniteSetsExt

CONSTANTS
    Level,      \* self->level: the heap has 2^Level units
    IntBits     \* the bits of int and uint32_t; size_t has twice as many

ASSUME LevelAssumption == Level \in Nat /\ IntBits \in Nat /\ Level < IntBits - 1

Nodes == 0 .. 2^(Level + 1) - 2
States == {"unused", "used", "split", "full"}

Parent(i) == (i + 1) \div 2 - 1
Children(i) == {2 * i + 1, 2 * i + 2}
Buddy(i) == i - 1 + (i % 2) * 2

\* Facts of the tree as functions, so that they are computed once.
Depth == [i \in Nodes |-> CHOOSE d \in 0 .. Level : 2^d <= i + 1 /\ i + 1 < 2^(d + 1)]
Length == [i \in Nodes |-> 2^(Level - Depth[i])]
IndexOffset == [i \in Nodes |-> ((i + 1) - 2^Depth[i]) * Length[i]]     \* _index_offset

\* The nodes whose range holds offset o, from the root to the leaf.
PathTo == [o \in 0 .. 2^Level - 1 |->
    {j \in Nodes : IndexOffset[j] <= o /\ o < IndexOffset[j] + Length[j]}]
Above == [i \in Nodes |-> {j \in PathTo[IndexOffset[i]] : Depth[j] < Depth[i]}]
Upwards == [i \in Nodes |-> Above[i] \union {i}]
Below(i, S) == {j \in S : Depth[j] > Depth[i]}

BuddyNew == [i \in Nodes |-> "unused"]

\* is_pow_of_2 looks at the lowest bits of the size, and takes 0 for a power.
IsPowOf2(x) == x % 2^IntBits \in {0} \union {2^k : k \in 0 .. IntBits - 1}

NextPow2(x) == IF IsPowOf2(x) THEN x ELSE Min({p \in {2^k : k \in 0 .. 2 * IntBits} : p >= x})

\* The conversion to int.
AsInt(x) == LET low == x % 2^IntBits IN IF low < 2^(IntBits - 1) THEN low ELSE low - 2^IntBits

\* What dart_buddy_alloc takes a request of n bytes for: the next power of two
\* up to 2^(IntBits - 2), above it anything, nothing and less included.
SizeFor(n) == IF n = 0 THEN 1 ELSE AsInt(NextPow2(n))

\* A node the walk can hand out: all above an unused node are split.
Available(tree, i) ==
    \E a \in Upwards[i] : tree[a] = "unused" /\ \A b \in Above[a] : tree[b] = "split"

Candidates(tree, size) == {i \in Nodes : Length[i] = size /\ Available(tree, i)}

\* The node found, the nodes split on the way to it and their other children.
Found(tree, size) ==
    CHOOSE i \in Candidates(tree, size) :
        \A j \in Candidates(tree, size) : IndexOffset[i] <= IndexOffset[j]

Unused(tree, i) == {a \in Upwards[i] : tree[a] = "unused" /\ \A b \in Above[a] : tree[b] = "split"}

Split(tree, i) ==
    LET opened == UNION {{b \in Above[i] : Depth[b] >= Depth[a]} : a \in Unused(tree, i)}
    IN  [j \in Nodes |-> IF j \in opened THEN "split"
                         ELSE IF j # 0 /\ Parent(j) \in opened THEN "unused" ELSE tree[j]]

\* _mark_parent: an ancestor is full when its subtree towards i and the one
\* next to it are.
MarkParent(tree, i) ==
    [j \in Nodes |->
        IF j \in Above[i] /\ \A k \in Below(j, Upwards[i]) : tree[Buddy(k)] \in {"used", "full"}
        THEN "full" ELSE tree[j]]

Fits(tree, n) == Candidates(tree, SizeFor(n)) # {}

\* No node is as small as that: from the first free unit the walk goes on to
\* children that are behind the end of the array, and writes them.
LeavesTree(tree, n) == SizeFor(n) <= 0 /\ Candidates(tree, 1) # {}

\* dart_buddy_alloc when there is a node: its offset is that of Found.
BuddyAlloc(tree, n) ==
    LET i == Found(tree, SizeFor(n))
    IN  MarkParent([Split(tree, i) EXCEPT ![i] = "used"], i)

\* The node dart_buddy_free ends at: the first on the way to the offset that
\* is neither split nor full.
EndOf(tree, o) ==
    CHOOSE i \in PathTo[o] :
        tree[i] \in {"used", "unused"} /\ \A j \in Above[i] : tree[j] \in {"split", "full"}

CanFree(tree, o) == tree[EndOf(tree, o)] = "used" /\ IndexOffset[EndOf(tree, o)] = o

\* Faulty variant: freed nodes are not joined.
CombineNever(tree, i) ==
    [j \in Nodes |-> IF j = i THEN "unused"
                     ELSE IF j \in Above[i] /\ tree[j] = "full" THEN "split" ELSE tree[j]]

\* _combine: the highest node all of whose path below has an unused buddy
\* becomes unused, and the unbroken run of full nodes above it split.
Combine(tree, i) ==
    LET joined == {j \in Upwards[i] : \A k \in Below(j, Upwards[i]) : tree[Buddy(k)] = "unused"}
        top == CHOOSE j \in joined : \A k \in joined : Depth[j] <= Depth[k]
    IN  [j \in Nodes |->
            IF j = top THEN "unused"
            ELSE IF j \in Above[top] /\ \A k \in Below(j, Above[top]) \union {j} : tree[k] = "full"
            THEN "split" ELSE tree[j]]

BuddyFree(tree, o) == Combine(tree, EndOf(tree, o))

\* buddy_size
BuddySize(tree, o) == Length[EndOf(tree, o)]

\* The blocks in use, as _dump walks the tree.
BuddyBlocks(tree) ==
    {[pos |-> IndexOffset[i], len |-> Length[i]] : i \in
        {i \in Nodes : tree[i] = "used" /\ \A j \in Above[i] : tree[j] \in {"split", "full"}}}
=============================================================================
