-------------------------------- MODULE Heap --------------------------------
(***************************************************************************)
(* What a local heap promises: blocks handed out lie inside the heap and   *)
(* do not overlap, a request is refused only when there is no place for    *)
(* it, and only the start of a block can be freed.  Of a request for more  *)
(* than Limit a heap in powers of two promises the place only: it may be   *)
(* given less, or be refused.                                              *)
(***************************************************************************)
EXTENDS Integers

CONSTANTS
    Size,       \* cells of the heap
    Limit,      \* the largest request that is rounded up
    Requests    \* sizes the program asks for

VARIABLES
    grain,      \* "exact": any place will do; "pow2": sizes and places are
                \* rounded up to powers of two
    blocks,     \* the blocks handed out
    answer      \* the last request and what became of it

hvars == <<grain, blocks, answer>>

Refused == -1
Powers == {2^k : k \in 0 .. 30} \intersect 1 .. 2 * Size
Rounded(n) ==
    IF grain = "exact" THEN n
    ELSE CHOOSE p \in Powers : p >= n /\ \A q \in Powers : q >= n => p <= q

TooLarge(n) == grain = "pow2" /\ n > Limit
Lengths(n) == IF TooLarge(n) THEN Powers ELSE {Rounded(n)}

Cells(b) == b.pos .. b.pos + b.len - 1

\* The places where a block of n cells could lie now.
Places(n) ==
    {p \in 0 .. Size - n :
        /\ grain = "pow2" => p % n = 0
        /\ \A b \in blocks : Cells(b) \intersect (p .. p + n - 1) = {}}

HInit ==
    /\ grain \in {"exact", "pow2"}
    /\ blocks = {}
    /\ answer = [ask |-> "none", n |-> 0, pos |-> 0]

HAlloc(n) == \E p \in 0 .. Size - 1 :
    /\ answer' = [ask |-> "alloc", n |-> n, pos |-> p]
    /\ \E len \in Lengths(n) :
           p \in Places(len) /\ blocks' = blocks \union {[pos |-> p, len |-> len]}

HRefuse(n) ==
    /\ answer' = [ask |-> "alloc", n |-> n, pos |-> Refused]
    /\ TooLarge(n) \/ Places(Rounded(n)) = {}
    /\ UNCHANGED blocks

HFree(p) ==
    /\ answer' = [ask |-> "free", n |-> 0, pos |-> p]
    /\ \E b \in blocks : b.pos = p /\ blocks' = blocks \ {b}

HRefuseFree(p) ==
    /\ answer' = [ask |-> "free", n |-> 0, pos |-> Refused]
    /\ \A b \in blocks : b.pos # p
    /\ UNCHANGED blocks

HNext ==
    /\ \/ \E n \in Requests : HAlloc(n) \/ HRefuse(n)
       \/ \E p \in 0 .. Size - 1 : HFree(p) \/ HRefuseFree(p)
    /\ UNCHANGED grain

HSpec == HInit /\ [][HNext]_hvars
=============================================================================
