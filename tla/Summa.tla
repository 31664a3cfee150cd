-------------------------------- MODULE Summa --------------------------------
(***************************************************************************)
(* dash::summa of algorithm/SUMMA.h: C = A * B of matrices that are        *)
(* distributed in pat.  Every unit computes its own blocks of C; while   *)
(* it multiplies one pair of blocks of A and B, the next pair is on its    *)
(* way into a second pair of buffers (copy_async of Copy.h, Future.h).  A  *)
(* block of A or B the unit owns is not copied: the pointer to the buffer  *)
(* is set aside and a pointer to local memory takes its place.             *)
(*                                                                         *)
(* A, B and C have one pattern, with square tiles, that gives every unit a *)
(* block; the team is all units.  What the loop needs to know of the       *)
(* pattern is a record, MatrixView!Answers.  A point is <<column, row>>.   *)
(***************************************************************************)
EXTENDS Copy, FiniteSets

CONSTANTS
    Matrices,  \* what the patterns summa is compiled and called with answer
    Values,    \* Values[m][x]: the element of A or B at the point x
    None       \* no pointer, no block, no value

VARIABLES
    pat,       \* what the pattern of A, B and C answers
    mem,       \* mem[m][u][o]: the memory of unit u for the matrix m
    buffer,    \* buffer[u][m][i]: the two buffers of unit u for blocks of m
    ptr,       \* ptr[u][m]: the pointers get, comp, get_bac and comp_bac
    next,      \* next[u][m]: the block looked up last, and whether it is local
    inflight,  \* the reads under way: [unit, mat, dest, get]
    pc,        \* pc[u]: where in summa unit u is
    at         \* at[u]: the loop variables lb and block_k

vars == <<pat, mem, buffer, ptr, next, inflight, pc, at>>

Operands == {"A", "B"}
Team     == pat.units
Extent   == pat.extent

block_size   == pat.blocksize
num_blocks_m == pat.extent \div pat.blocksize
BlockElems   == block_size * block_size

(* Pointers into a buffer and into local memory. *)
Buffer(i)  == [kind |-> "buffer", index |-> i]
Local_(o)  == [kind |-> "local", index |-> o]
Garbage    == [i \in 0 .. BlockElems - 1 |-> None]

(* The point of the i-th element of the block b, as the block is stored.   *)
PointOf(p, b, i) == <<b[1] * p.blocksize + p.phase[i][1], b[2] * p.blocksize + p.phase[i][2]>>

(* What summa relies on, beyond what the compiler tests: one read can take *)
(* a block, every unit has a block of C, ...                               *)
SquareTiles(p) ==
    LET n == p.extent \div p.blocksize
    IN /\ p.blocksize \in Nat \ {0} /\ n \in Nat \ {0} /\ p.blocksize * p.blocksize <= MaxCopyElem
       /\ DOMAIN p.block = (0 .. n - 1) \X (0 .. n - 1)
       /\ \A u \in p.units :
             /\ p.column[u] \in 0 .. n - 1
             /\ Cardinality(DOMAIN p.cblock[u]) \in Nat \ {0}
             /\ DOMAIN p.cblock[u] = 0 .. Cardinality(DOMAIN p.cblock[u]) - 1
             /\ \A lb \in DOMAIN p.cblock[u] : p.cblock[u][lb].col \in 0 .. n - 1 /\ p.cblock[u][lb].row \in 0 .. n - 1

(* ... elements have places of their own in the memory of the units, ...    *)
Placed(p) ==
    /\ \A x, y \in DOMAIN p.place : p.place[x] = p.place[y] => x = y
    /\ \A u \in p.units : p.size[u] \in Nat
    /\ \A g \in DOMAIN p.local : /\ p.local[g] \in [unit : p.units, index : Nat]
                                 /\ p.local[g].index < p.size[p.local[g].unit]

(* ... and those of a block are one behind the other, at one unit.          *)
ContiguousTiles(p) ==
    LET elems == p.blocksize * p.blocksize
    IN \A b \in DOMAIN p.block :
          LET first == p.block[b].gpos  start == p.block[b].lpos
          IN /\ first \in Nat /\ first .. first + elems - 1 \subseteq DOMAIN p.local
             /\ start = p.local[first] /\ start.index + elems <= p.size[start.unit]
             /\ \A i \in 0 .. elems - 1 :
                   /\ PointOf(p, b, i) \in DOMAIN p.place
                   /\ p.place[PointOf(p, b, i)] = [unit |-> start.unit, index |-> start.index + i]

WellTiled(p) == SquareTiles(p) /\ Placed(p) /\ ContiguousTiles(p)

(* For the result to be the product, besides: tiles fill the matrix, their *)
(* elements are stored as multiply_local reads them, and every block of C  *)
(* is a local block of one unit.                                           *)
CoordsOfBlock(p, u, lb) == <<p.cblock[u][lb].col, p.cblock[u][lb].row>>

Multiplied(p) ==
    /\ p.extent = (p.extent \div p.blocksize) * p.blocksize
    /\ DOMAIN p.place = (0 .. p.extent - 1) \X (0 .. p.extent - 1)
    /\ \A i \in 0 .. p.blocksize * p.blocksize - 1 : p.phase[i] = <<i % p.blocksize, i \div p.blocksize>>
    /\ \A b \in DOMAIN p.block : \E u \in p.units : \E lb \in DOMAIN p.cblock[u] : CoordsOfBlock(p, u, lb) = b
    /\ \A u, v \in p.units : \A lb \in DOMAIN p.cblock[u], l \in DOMAIN p.cblock[v] :
          CoordsOfBlock(p, u, lb) = CoordsOfBlock(p, v, l) => u = v /\ lb = l
    /\ \A u \in p.units : \A lb \in DOMAIN p.cblock[u] :
          p.block[CoordsOfBlock(p, u, lb)].lpos = [unit |-> u, index |-> p.cblock[u][lb].start]

ASSUME NullAssumption == None \notin [kind : {"buffer", "local"}, index : Nat]
ASSUME CopyAssumption == MaxCopyElem \in Nat
ASSUME MatricesAssumption == \A p \in Matrices : WellTiled(p)

----------------------------------------------------------------------------
(* Contents of what a pointer points to, and a write through it.           *)
Contents(u, m, q) ==
    IF q.kind = "buffer" THEN buffer[u][m][q.index]
    ELSE [i \in 0 .. BlockElems - 1 |-> mem[m][u][q.index + i]]

(* The end of a read: what it was started for arrives in the buffer.       *)
Arrive(r) ==
    LET data(i) == mem[r.mat][r.get.from.unit][r.get.from.index + i - r.get.to]
        hit(i)  == i - r.get.to \in 0 .. r.get.len - 1
    IN /\ inflight' = inflight \ {r}
       /\ IF r.dest.kind = "buffer"
          THEN /\ buffer' = [buffer EXCEPT ![r.unit][r.mat][r.dest.index] =
                                [i \in DOMAIN @ |-> IF hit(i) THEN data(i) ELSE @[i]]]
               /\ UNCHANGED mem
          ELSE /\ mem' = [mem EXCEPT ![r.mat][r.unit] =
                             [o \in DOMAIN @ |-> IF hit(o - r.dest.index) THEN data(o - r.dest.index) ELSE @[o]]]
               /\ UNCHANGED buffer
       /\ UNCHANGED <<pat, ptr, next, pc, at>>

(* The coordinates of the blocks of A and B for a block of C and panel k.  *)
CoordsFor(cblock, k) == [m \in Operands |-> IF m = "A" THEN <<k, cblock.row>> ELSE <<cblock.col, k>>]

IsLocalBlock(u, b) == pat.block[b].lpos.unit = u

(* copy_async(block.begin(), block.end(), dest). *)
Reads(u, m, b, dest) ==
    LET gpos == pat.block[b].gpos
    IN {[unit |-> u, mat |-> m, dest |-> dest, get |-> g] : g \in Gets(pat, gpos, gpos + BlockElems, 0)}

(* Every operand: a read into where the pointer `into` points, or the      *)
(* pointer set aside in `bac` and replaced by one to the local block.      *)
FetchInto(u, coords, into, bac) ==
    /\ next' = [next EXCEPT ![u] = [m \in Operands |-> [block |-> coords[m], local |-> IsLocalBlock(u, coords[m])]]]
    /\ inflight' = inflight \cup
          UNION {Reads(u, m, coords[m], ptr[u][m][into]) : m \in {o \in Operands : ~ IsLocalBlock(u, coords[o])}}
    /\ ptr' = [ptr EXCEPT ![u] = [m \in Operands |->
          IF IsLocalBlock(u, coords[m])
          THEN [@[m] EXCEPT ![bac] = ptr[u][m][into], ![into] = Local_(pat.block[coords[m]].lpos.index)]
          ELSE [@[m] EXCEPT ![bac] = None]]]

(* Future::wait of the blocks that are not local. *)
Received(u) == \A r \in inflight : r.unit = u => next[u][r.mat].local

----------------------------------------------------------------------------
(* The first blocks go straight to where they are needed. *)
Begin(u) ==
    /\ pc[u] = "begin"
    /\ FetchInto(u, CoordsFor(pat.cblock[u][0], pat.column[u]), "comp", "comp_bac")
    /\ pc' = [pc EXCEPT ![u] = "first"]
    /\ UNCHANGED <<pat, mem, buffer, at>>

AwaitFirst(u) ==
    /\ pc[u] = "first" /\ Received(u)
    /\ pc' = [pc EXCEPT ![u] = "prefetch"]
    /\ UNCHANGED <<pat, mem, buffer, ptr, next, inflight, at>>

LastBlock(u) == at[u].lb = Cardinality(DOMAIN pat.cblock[u]) - 1 /\ at[u].k = num_blocks_m - 1

(* The panel a unit multiplies in iteration k: it begins with its own      *)
(* coordinate.                                                             *)
PanelOf(u, k) == (k + pat.column[u]) % num_blocks_m

\* Faulty variant: at the end of a block of C, the next panel is counted on.
PrefetchUnskewed(u) ==
    LET lb == at[u].lb  k == at[u].k
        wrap == k = num_blocks_m - 1
    IN /\ pc[u] = "prefetch"
       /\ IF LastBlock(u) THEN UNCHANGED <<ptr, next, inflight>>
          ELSE FetchInto(u, CoordsFor(pat.cblock[u][IF wrap THEN lb + 1 ELSE lb], IF wrap THEN 0 ELSE PanelOf(u, k + 1)),
                         "get", "get_bac")
       /\ pc' = [pc EXCEPT ![u] = "multiply"]
       /\ UNCHANGED <<pat, mem, buffer, at>>

Prefetch(u) ==
    LET lb == at[u].lb  k == at[u].k
        wrap == k = num_blocks_m - 1
    IN /\ pc[u] = "prefetch"
       /\ IF LastBlock(u) THEN UNCHANGED <<ptr, next, inflight>>
          ELSE FetchInto(u, CoordsFor(pat.cblock[u][IF wrap THEN lb + 1 ELSE lb],
                                    IF wrap THEN pat.column[u] ELSE PanelOf(u, k + 1)),
                         "get", "get_bac")
       /\ pc' = [pc EXCEPT ![u] = "multiply"]
       /\ UNCHANGED <<pat, mem, buffer, at>>

(* internal::multiply_local of blocks with as many columns as rows: the    *)
(* arrays are taken to be row by row.                                      *)
MultiplyLocal(a, b, c) ==
    LET b_ == block_size
        term(i, j) == LET t(k) == a[i * b_ + k] * b[k * b_ + j] IN MapThenSumSet(t, 0 .. b_ - 1)
    IN [x \in 0 .. BlockElems - 1 |-> c[x] + term(x \div b_, x % b_)]

(* The pointers that were set aside come back. *)
Restored(q) == IF q.comp_bac = None THEN q ELSE [q EXCEPT !.comp = q.comp_bac, !.comp_bac = None]

Multiply(u) ==
    LET start == pat.cblock[u][at[u].lb].start
        sum   == MultiplyLocal(Contents(u, "A", ptr[u]["A"].comp), Contents(u, "B", ptr[u]["B"].comp),
                               [x \in 0 .. BlockElems - 1 |-> mem["C"][u][start + x]])
    IN /\ pc[u] = "multiply"
       /\ mem' = [mem EXCEPT !["C"][u] =
                     [o \in DOMAIN @ |-> IF o - start \in 0 .. BlockElems - 1 THEN sum[o - start] ELSE @[o]]]
       /\ ptr' = [ptr EXCEPT ![u] = [m \in Operands |-> Restored(@[m])]]
       /\ pc' = [pc EXCEPT ![u] = IF LastBlock(u) THEN "barrier" ELSE "await"]
       /\ UNCHANGED <<pat, buffer, next, inflight, at>>

\* Faulty variant: does not wait for the block of B.
AwaitA(u) ==
    /\ pc[u] = "await"
    /\ \A r \in inflight : (r.unit = u /\ r.mat = "A") => next[u]["A"].local
    /\ ptr' = [ptr EXCEPT ![u] = [m \in Operands |->
           [get |-> @[m].comp, comp |-> @[m].get, get_bac |-> None,
            comp_bac |-> IF @[m].get_bac = None THEN @[m].comp_bac ELSE @[m].get_bac]]]
    /\ at' = [at EXCEPT ![u] = IF @.k = num_blocks_m - 1 THEN [lb |-> @.lb + 1, k |-> 0] ELSE [lb |-> @.lb, k |-> @.k + 1]]
    /\ pc' = [pc EXCEPT ![u] = "prefetch"]
    /\ UNCHANGED <<pat, mem, buffer, next, inflight>>

(* Wait for the next blocks, and swap the buffers. *)
AwaitNext(u) ==
    /\ pc[u] = "await" /\ Received(u)
    /\ ptr' = [ptr EXCEPT ![u] = [m \in Operands |->
           [get |-> @[m].comp, comp |-> @[m].get, get_bac |-> None,
            comp_bac |-> IF @[m].get_bac = None THEN @[m].comp_bac ELSE @[m].get_bac]]]
    /\ at' = [at EXCEPT ![u] = IF @.k = num_blocks_m - 1 THEN [lb |-> @.lb + 1, k |-> 0] ELSE [lb |-> @.lb, k |-> @.k + 1]]
    /\ pc' = [pc EXCEPT ![u] = "prefetch"]
    /\ UNCHANGED <<pat, mem, buffer, next, inflight>>

(* The buffers are freed; C.barrier(). *)
Leave(u) ==
    /\ pc[u] = "barrier"
    /\ \A v \in Team : pc[v] \in {"barrier", "done"}
    /\ pc' = [pc EXCEPT ![u] = "done"]
    /\ UNCHANGED <<pat, mem, buffer, ptr, next, inflight, at>>

----------------------------------------------------------------------------
Init ==
    /\ pat \in Matrices
    /\ mem = [m \in {"A", "B", "C"} |->
                 [u \in Team |-> [o \in 0 .. pat.size[u] - 1 |->
                     IF m = "C" THEN 0
                     ELSE Values[m][CHOOSE x \in DOMAIN pat.place : pat.place[x] = [unit |-> u, index |-> o]]]]]
    /\ buffer = [u \in Team |-> [m \in Operands |-> [i \in 0 .. 1 |-> Garbage]]]
    /\ ptr = [u \in Team |-> [m \in Operands |->
                 [get |-> Buffer(0), comp |-> Buffer(1), get_bac |-> None, comp_bac |-> None]]]
    /\ next = [u \in Team |-> [m \in Operands |-> None]]
    /\ inflight = {}
    /\ pc = [u \in Team |-> "begin"]
    /\ at = [u \in Team |-> [lb |-> 0, k |-> 0]]

Step(u) == Begin(u) \/ AwaitFirst(u) \/ Prefetch(u) \/ Multiply(u) \/ AwaitNext(u) \/ Leave(u)

Done == \A u \in Team : pc[u] = "done"

(* The program goes on to something else. *)
Terminated == Done /\ UNCHANGED vars

Next ==
    \/ \E u \in Team : Step(u)
    \/ \E r \in inflight : Arrive(r)
    \/ Terminated

Spec == Init /\ [][Next]_vars

----------------------------------------------------------------------------
(* The element of the matrix m at a point, and a block as it is stored.    *)
Element(m, x) == mem[m][pat.place[x].unit][pat.place[x].index]

BlockData(m, b) == [i \in 0 .. BlockElems - 1 |-> Values[m][PointOf(pat, b, i)]]

(* BuffersReady: when a unit multiplies, its pointers lead to the blocks   *)
(* the iteration is about, and no read is under way to where they point;   *)
(* reads only go to buffers, none of them to a buffer that is freed.       *)
BuffersReady ==
    /\ \A u \in Team : pc[u] = "multiply" =>
          LET coords == CoordsFor(pat.cblock[u][at[u].lb], PanelOf(u, at[u].k))
          IN \A m \in Operands :
                /\ Contents(u, m, ptr[u][m].comp) = BlockData(m, coords[m])
                /\ \A r \in inflight : r.unit = u /\ r.mat = m => r.dest # ptr[u][m].comp
    /\ \A r \in inflight : r.dest.kind = "buffer" /\ pc[r.unit] \notin {"barrier", "done"}

(* ProductComputed: when all have returned, C is the product of A and B,   *)
(* which are as they were.                                                 *)
ProductComputed ==
    Done => \A x \in (0 .. Extent - 1) \X (0 .. Extent - 1) :
        LET term(k) == Values["A"][<<k, x[2]>>] * Values["B"][<<x[1], k>>]
        IN /\ Element("C", x) = MapThenSumSet(term, 0 .. Extent - 1)
           /\ \A m \in Operands : Element(m, x) = Values[m][x]

(* The panels a block of C has taken. *)
Taken(u, lb) ==
    {PanelOf(u, k) : k \in {j \in 0 .. num_blocks_m - 1 :
        \/ lb < at[u].lb
        \/ lb = at[u].lb /\ (j < at[u].k \/ (j = at[u].k /\ pc[u] \in {"await", "barrier", "done"}))}}

TakenBy(b) ==
    UNION {UNION {Taken(u, lb) : lb \in {l \in DOMAIN pat.cblock[u] : CoordsOfBlock(pat, u, l) = b}} : u \in Team}

Blockwise == INSTANCE BlockProduct WITH
    A <- Values["A"],
    B <- Values["B"],
    extent <- Extent,
    size   <- block_size,
    c      <- [x \in (0 .. Extent - 1) \X (0 .. Extent - 1) |-> Element("C", x)],
    added  <- [b \in (0 .. num_blocks_m - 1) \X (0 .. num_blocks_m - 1) |-> TakenBy(b)]

(* ImplementsBlockProduct: each local multiplication adds a panel that its *)
(* block of C has not taken yet, whatever arrives at the same time, and    *)
(* what comes out is the product.                                          *)
ImplementsBlockProduct == Blockwise!PSpec /\ []ProductComputed

----------------------------------------------------------------------------
(* The inductive invariant.                                                *)

Phases   == {"begin", "first", "prefetch", "multiply", "await", "barrier", "done"}
Pointers == [kind : {"buffer", "local"}, index : Nat]

(* The pattern does not change, nor do A and B, and buffers are buffers.    *)
MemoryOf(m) ==
    [u \in Team |-> [o \in 0 .. pat.size[u] - 1 |->
        Values[m][CHOOSE x \in DOMAIN pat.place : pat.place[x] = [unit |-> u, index |-> o]]]]

Fixed ==
    /\ pat \in Matrices
    /\ mem = [m \in {"A", "B", "C"} |-> mem[m]]
    /\ \A m \in Operands : mem[m] = MemoryOf(m)
    /\ buffer = [u \in Team |-> [m \in Operands |-> [i \in 0 .. 1 |->
                   [x \in 0 .. BlockElems - 1 |-> buffer[u][m][i][x]]]]]

TypeOK ==
    /\ Fixed
    /\ ptr \in [Team -> [Operands -> [get : Pointers, comp : Pointers,
                                     get_bac : Pointers \cup {None}, comp_bac : Pointers \cup {None}]]]
    /\ next = [u \in Team |-> [m \in Operands |-> next[u][m]]]
    /\ pc \in [Team -> Phases]
    /\ at \in [Team -> [lb : Nat, k : 0 .. num_blocks_m - 1]]
    /\ \A u \in Team : at[u].lb \in DOMAIN pat.cblock[u]

(* The blocks of the iteration u is in, and of the one after it.           *)
Coords(u)     == CoordsFor(pat.cblock[u][at[u].lb], PanelOf(u, at[u].k))
NextCoords(u) ==
    IF at[u].k = num_blocks_m - 1 THEN CoordsFor(pat.cblock[u][at[u].lb + 1], PanelOf(u, 0))
    ELSE CoordsFor(pat.cblock[u][at[u].lb], PanelOf(u, at[u].k + 1))

(* A pointer leads to buffer i, or to local memory, with buffer i aside.    *)
Owns(p, bac, i) == (p = Buffer(i) /\ bac = None) \/ (p.kind = "local" /\ bac = Buffer(i))

(* The two pointers have a buffer each; a pointer that is not in use leads  *)
(* to its own.                                                              *)
PointersInv(u, m) ==
    LET q == ptr[u][m]
    IN /\ \E i \in 0 .. 1 : Owns(q.get, q.get_bac, i) /\ Owns(q.comp, q.comp_bac, 1 - i)
       /\ pc[u] \in {"begin", "first", "prefetch"} => q.get_bac = None
       /\ pc[u] \in {"begin", "await"} => q.comp_bac = None

(* Where reads of u are to arrive, and what they fetch.                     *)
Expecting(u) == pc[u] \in {"first", "await"} \/ (pc[u] = "multiply" /\ ~ LastBlock(u))
Target(u, m) == IF pc[u] = "first" THEN ptr[u][m].comp ELSE ptr[u][m].get
Expected(u)  == IF pc[u] = "first" THEN Coords(u) ELSE NextCoords(u)

(* A block expected is local, or on its way into a buffer, or there.        *)
ComingInv(u, m) ==
    LET b == Expected(u)[m]
    IN Expecting(u) =>
          /\ next[u][m] = [block |-> b, local |-> IsLocalBlock(u, b)]
          /\ IF IsLocalBlock(u, b) THEN Target(u, m) = Local_(pat.block[b].lpos.index)
             ELSE /\ Target(u, m).kind = "buffer"
                  /\ \/ \E r \in inflight : r.unit = u /\ r.mat = m
                     \/ Contents(u, m, Target(u, m)) = BlockData(m, b)

(* Every read is of a whole block that is expected and not local.           *)
ReadInv(r) ==
    /\ r.unit \in Team /\ r.mat \in Operands /\ Expecting(r.unit)
    /\ ~ next[r.unit][r.mat].local
    /\ r = [unit |-> r.unit, mat |-> r.mat, dest |-> Target(r.unit, r.mat),
            get |-> [to |-> 0, from |-> pat.block[Expected(r.unit)[r.mat]].lpos, len |-> BlockElems]]

(* The blocks of the iteration are where comp points.                      *)
ReadyInv(u, m) ==
    pc[u] \in {"prefetch", "multiply"} => Contents(u, m, ptr[u][m].comp) = BlockData(m, Coords(u)[m])

(* The loop goes on while there is a block left.                           *)
LoopInv(u) == /\ pc[u] \in {"begin", "first"} => at[u] = [lb |-> 0, k |-> 0]
              /\ pc[u] = "await" => ~ LastBlock(u)

UnitInv(u) ==
    LoopInv(u) /\ \A m \in Operands : PointersInv(u, m) /\ ComingInv(u, m) /\ ReadyInv(u, m)

SummaInv ==
    /\ TypeOK
    /\ \A r \in inflight : ReadInv(r)
    /\ \A u \in Team : UnitInv(u)

(* What the result is the product for: matrices of numbers whose tiles are *)
(* stored column by column, or are single elements.  Tiles of several      *)
(* elements stored row by row, the default of a pattern, are not; summa    *)
(* accepts them and multiplies something else.                             *)
Multipliable ==
    Multiplied(pat) /\ \A m \in Operands, x \in DOMAIN pat.place : Values[m][x] \in Int

(* And of the result: the elements of a block of C are the sums over the   *)
(* panels it has taken, and a unit leaves when it has done its blocks.     *)
BlockAround(x) == <<x[1] \div block_size, x[2] \div block_size>>

ProductInv ==
    /\ Multipliable
    /\ mem["C"] = [u \in Team |-> [o \in 0 .. pat.size[u] - 1 |-> mem["C"][u][o]]]
    /\ \A u \in Team : \A o \in 0 .. pat.size[u] - 1 : mem["C"][u][o] \in Int
    /\ \A u \in Team : pc[u] \in {"barrier", "done"} => LastBlock(u)
    /\ \A x \in Blockwise!Points :
          LET panel(v) == Blockwise!Panel(x, v)
          IN Element("C", x) = MapThenSumSet(panel, TakenBy(BlockAround(x)))
=============================================================================
