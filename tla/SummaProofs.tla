----------------------------- MODULE SummaProofs -----------------------------
(***************************************************************************)
(* Proof that dash::summa multiplies the blocks it is to multiply: what    *)
(* the pointers of a unit lead to is fetched, and not written to.          *)
(*                                                                         *)
(* The invariant says where the two buffers of a unit are in each phase    *)
(* (PointersInv), which reads there are and where they go (ReadInv), that  *)
(* a block that is expected is local, under way or there (ComingInv), and  *)
(* that the block of the iteration is there (ReadyInv).  Whether a block   *)
(* is one read is a matter of Copy.h (OneRead), and that the elements of a *)
(* block are next to each other is what summa asks of the pattern.         *)
(*                                                                         *)
(* And proof that the result is the product: a multiplication adds to each *)
(* element of a block of C the products of one panel (BlockTerms), which   *)
(* the block has not taken yet, as a unit goes round the panels once       *)
(* (MultiplyTakes); a block that has taken them all has the whole sums.    *)
(***************************************************************************)
EXTENDS Summa, RecursionLemmas

----------------------------------------------------------------------------
\* Ranges and reads (Copy.h).

\* The least element of a set of numbers.
LEMMA LeastOf ==
    ASSUME NEW S \in SUBSET Int, NEW x \in S, \A y \in S : x <= y
    PROVE  Min(S) = x
<1>1. \E m \in S : \A y \in S : m <= y
  OBVIOUS
<1>2. Min(S) \in S /\ \A y \in S : Min(S) <= y
  BY <1>1, Zenon DEF Min
<1>3. Min(S) <= x /\ x <= Min(S) /\ x \in Int /\ Min(S) \in Int
  BY <1>2
<1>. QED  BY <1>3

\* A read takes at least one element, and no more than are left.
LEMMA PieceBounds ==
    ASSUME NEW l, NEW first \in Nat, NEW last \in Nat, NEW cur \in first .. last - 1,
           MaxCopyElem \in Nat \ {0},
           l.local[cur].index \in Nat, l.size[l.local[cur].unit] \in Nat,
           l.local[cur].index < l.size[l.local[cur].unit]
    PROVE  PieceSize(l, first, last, cur) \in 1 .. last - cur
<1>. DEFINE loc == l.local[cur]
            whole == IF l.unitAt[first] = l.unitAt[last - 1] THEN last - first
                     ELSE l.size[loc.unit] - loc.index
            S == {whole, MaxCopyElem, last - cur}
<1>1. whole \in Nat \ {0} /\ last - cur \in Nat \ {0}
  OBVIOUS
<1>2. \E x \in S : \A y \in S : x <= y
  <2>. HIDE DEF whole
  <2>. QED  BY <1>1
<1>3. PICK x \in S : \A y \in S : x <= y
  BY <1>2
<1>4. S \in SUBSET Int
  <2>. HIDE DEF whole
  <2>. QED  BY <1>1
<1>5. Min(S) = x
  <2>. HIDE DEF S
  <2>. QED  BY <1>3, <1>4, LeastOf
<1>6. x \in 1 .. last - cur
  <2>. HIDE DEF whole
  <2>. QED  BY <1>1, <1>3
<1>7. PieceSize(l, first, last, cur) = Min(S)
  BY DEF PieceSize
<1>. QED  BY <1>5, <1>6, <1>7

\* A range that one read can take, at one unit, is one read.
LEMMA OneRead ==
    ASSUME NEW l, NEW first \in Nat, NEW n \in Nat \ {0},
           MaxCopyElem \in Nat, n <= MaxCopyElem,
           \A g \in first .. first + n - 1 :
               /\ l.local[g].index \in Nat /\ l.size[l.local[g].unit] \in Nat
               /\ l.local[g].index < l.size[l.local[g].unit],
           l.local[first].index + n <= l.size[l.local[first].unit]
    PROVE  Gets(l, first, first + n, 0) = {[to |-> 0, from |-> l.local[first], len |-> n]}
<1>. DEFINE last == first + n
            D == first .. last
            k(cur) == PieceSize(l, first, last, cur)
            get(cur) == [to |-> 0 + cur - first, from |-> l.local[cur], len |-> k(cur)]
            V == SUBSET [to : Int, from : {l.local[g] : g \in D}, len : Int]
            m == [cur \in D |-> last - cur]
            Stop == {last}
            val == [cur \in D |-> {}]
            next_ == [cur \in D |-> cur + k(cur)]
            step == [p \in D \X V |-> IF p[1] \in Stop THEN {} ELSE {get(p[1])} \cup p[2]]
            Body(f) == [cur \in first .. last |->
                IF cur = last THEN {}
                ELSE {[to |-> 0 + cur - first, from |-> l.local[cur],
                       len |-> PieceSize(l, first, last, cur)]}
                     \cup f[cur + PieceSize(l, first, last, cur)]]
            From == CHOOSE f : f = Body(f)
<1>1. Gets(l, first, last, 0) = From[first]
  BY DEF Gets
<1>2. ASSUME NEW cur \in D, cur \notin Stop
      PROVE  /\ cur \in first .. last - 1 /\ k(cur) \in 1 .. last - cur
             /\ next_[cur] \in D /\ m[next_[cur]] < m[cur]
             /\ get(cur) \in [to : Int, from : {l.local[g] : g \in D}, len : Int]
  <2>1. cur \in first .. last - 1
    BY <1>2
  <2>2. k(cur) \in 1 .. last - cur
    <3>1. last \in Nat /\ MaxCopyElem \in Nat \ {0}
      OBVIOUS
    <3>2. /\ l.local[cur].index \in Nat /\ l.size[l.local[cur].unit] \in Nat
          /\ l.local[cur].index < l.size[l.local[cur].unit]
      BY <2>1
    <3>. HIDE DEF last
    <3>. QED  BY <2>1, <3>1, <3>2, PieceBounds
  <2>. HIDE DEF k
  <2>3. next_[cur] \in D /\ m[next_[cur]] < m[cur]
    BY <2>1, <2>2
  <2>. QED  BY <2>1, <2>2, <2>3
<1>3. IsRecursion(D, V, n + 1, m, Stop, val, next_, step)
  <2>1. m \in [D -> Nat] /\ \A cur \in D : m[cur] < n + 1
    OBVIOUS
  <2>2. \A cur \in D : val[cur] \in V
    OBVIOUS
  <2>3. step \in [D \X V -> V]
    <3>1. ASSUME NEW p \in D \X V
          PROVE  (IF p[1] \in Stop THEN {} ELSE {get(p[1])} \cup p[2]) \in V
      <4>1. p[1] \in D /\ p[2] \in V
        BY <3>1
      <4>. HIDE DEF get, D, Stop, m, next_, k
      <4>. QED  BY <1>2, <4>1
    <3>. HIDE DEF get, D, Stop, V
    <3>. QED  BY <3>1
  <2>4. n + 1 \in Nat
    OBVIOUS
  <2>. HIDE DEF D, V, m, Stop, val, next_, step
  <2>. QED  BY <1>2, <2>1, <2>2, <2>3, <2>4 DEF IsRecursion
<1>4. \E f : f = Body(f)
  <2>1. PICK f \in [D -> V] : Solves(f, D, Stop, val, next_, step)
    <3>. HIDE DEF D, V, m, Stop, val, next_, step
    <3>. QED  BY <1>3, LinearRecursion, Zenon
  <2>2. ASSUME NEW cur \in D PROVE f[cur] = Body(f)[cur]
    <3>1. CASE cur \in Stop
      <4>1. f[cur] = val[cur]
        <5>. HIDE DEF D, val, next_, step, Stop
        <5>. QED  BY <2>1, <3>1, Zenon DEF Solves
      <4>. QED  BY <3>1, <4>1
    <3>2. CASE cur \notin Stop
      <4>1. next_[cur] \in D
        <5>. HIDE DEF D, m, next_, Stop, k, get
        <5>. QED  BY <1>2, <3>2
      <4>2. step[<<cur, f[next_[cur]]>>] = {get(cur)} \cup f[next_[cur]]
        <5>1. f[next_[cur]] \in V
          <6>. HIDE DEF D, V, next_
          <6>. QED  BY <4>1
        <5>. HIDE DEF V, D, Stop, get, next_
        <5>. QED  BY <3>2, <5>1
      <4>3. f[cur] = step[<<cur, f[next_[cur]]>>]
        <5>. HIDE DEF D, val, next_, step, Stop
        <5>. QED  BY <2>1, <3>2, Zenon DEF Solves
      <4>4. f[cur] = {get(cur)} \cup f[next_[cur]]
        BY <4>2, <4>3, Zenon
      <4>5. cur # last /\ next_[cur] = cur + k(cur)
        BY <3>2
      <4>. HIDE DEF next_
      <4>. QED  BY <4>4, <4>5
    <3>. QED  BY <3>1, <3>2
  <2>3. f = Body(f)
    <3>1. f \in [D -> V] /\ Body(f) = [cur \in D |-> Body(f)[cur]]
      OBVIOUS
    <3>. HIDE DEF Body, D, V
    <3>. QED  BY <2>2, <3>1
  <2>. HIDE DEF Body
  <2>. QED  BY <2>3
<1>5. From = Body(From)
  <2>. HIDE DEF Body
  <2>. QED  BY <1>4
<1>. HIDE DEF From
<1>6. k(first) = n
  <2>. DEFINE loc == l.local[first]
              whole == IF l.unitAt[first] = l.unitAt[last - 1] THEN last - first
                       ELSE l.size[loc.unit] - loc.index
              S == {whole, MaxCopyElem, last - first}
  <2>1. whole \in Nat /\ whole >= n /\ last - first = n
    OBVIOUS
  <2>2. S \in SUBSET Int /\ n \in S /\ \A y \in S : n <= y
    <3>. HIDE DEF whole
    <3>. QED  BY <2>1
  <2>3. Min(S) = n
    <3>. HIDE DEF S
    <3>. QED  BY <2>2, LeastOf
  <2>4. k(first) = Min(S)
    BY DEF PieceSize
  <2>. QED  BY <2>3, <2>4
<1>7. From[first] = {get(first)} \cup From[first + k(first)]
  <2>1. first \in first .. last /\ first # last
    OBVIOUS
  <2>2. From[first] = Body(From)[first]
    BY <1>5, Zenon
  <2>. HIDE DEF last
  <2>. QED  BY <2>1, <2>2
<1>8. From[last] = {}
  <2>1. last \in first .. last
    OBVIOUS
  <2>2. From[last] = Body(From)[last]
    BY <1>5, Zenon
  <2>. HIDE DEF last
  <2>. QED  BY <2>1, <2>2
<1>9. get(first) = [to |-> 0, from |-> l.local[first], len |-> n]
  BY <1>6
<1>. HIDE DEF get, k
<1>. QED  BY <1>1, <1>6, <1>7, <1>8, <1>9

----------------------------------------------------------------------------
\* What the pattern answers.

\* What the pattern of the call answers, as WellTiled has it.
LEMMA Pattern ==
    ASSUME Fixed
    PROVE  WellTiled(pat)
BY MatricesAssumption DEF Fixed

\* The tiles are square, and a read can take one.
LEMMA Shape ==
    ASSUME Fixed
    PROVE  /\ block_size \in Nat \ {0} /\ num_blocks_m \in Nat \ {0}
           /\ BlockElems \in Nat \ {0} /\ BlockElems <= MaxCopyElem
           /\ BlockElems = pat.blocksize * pat.blocksize
           /\ DOMAIN pat.block = (0 .. num_blocks_m - 1) \X (0 .. num_blocks_m - 1)
<1>1. SquareTiles(pat)
  BY Pattern DEF WellTiled
<1>. DEFINE n == pat.extent \div pat.blocksize
<1>2. /\ pat.blocksize \in Nat \ {0} /\ n \in Nat \ {0}
      /\ pat.blocksize * pat.blocksize <= MaxCopyElem
      /\ DOMAIN pat.block = (0 .. n - 1) \X (0 .. n - 1)
  BY <1>1 DEF SquareTiles
<1>3. block_size = pat.blocksize /\ num_blocks_m = n
  BY DEF block_size, num_blocks_m
<1>. HIDE DEF n
<1>4. BlockElems = pat.blocksize * pat.blocksize
  BY <1>3 DEF BlockElems
<1>5. \A x \in Nat \ {0} : x * x \in Nat \ {0}
  OBVIOUS
<1>. QED  BY <1>2, <1>3, <1>4, <1>5

\* The blocks of C of a unit, and the panel it begins with.
LEMMA BlocksOfUnit ==
    ASSUME Fixed, NEW u \in Team
    PROVE  /\ pat.column[u] \in 0 .. num_blocks_m - 1
           /\ \E N \in Nat \ {0} : /\ DOMAIN pat.cblock[u] = 0 .. N - 1
                                   /\ Cardinality(DOMAIN pat.cblock[u]) = N
           /\ \A lb \in DOMAIN pat.cblock[u] :
                 /\ pat.cblock[u][lb].col \in 0 .. num_blocks_m - 1
                 /\ pat.cblock[u][lb].row \in 0 .. num_blocks_m - 1
<1>1. SquareTiles(pat)
  BY Pattern DEF WellTiled
<1>2. /\ pat.column[u] \in 0 .. num_blocks_m - 1
      /\ Cardinality(DOMAIN pat.cblock[u]) \in Nat \ {0}
      /\ DOMAIN pat.cblock[u] = 0 .. Cardinality(DOMAIN pat.cblock[u]) - 1
      /\ \A lb \in DOMAIN pat.cblock[u] :
                 /\ pat.cblock[u][lb].col \in 0 .. num_blocks_m - 1
                 /\ pat.cblock[u][lb].row \in 0 .. num_blocks_m - 1
  BY <1>1 DEF SquareTiles, Team, num_blocks_m
<1>. QED  BY <1>2

\* The memory of the units, and the places of the elements in it.
LEMMA Places ==
    ASSUME Fixed
    PROVE  /\ \A u \in Team : pat.size[u] \in Nat
           /\ \A g \in DOMAIN pat.local : /\ pat.local[g] \in [unit : Team, index : Nat]
                                          /\ pat.local[g].index < pat.size[pat.local[g].unit]
           /\ \A x, y \in DOMAIN pat.place : pat.place[x] = pat.place[y] => x = y
BY Pattern DEF WellTiled, Placed, Team

\* A block is stored element after element, in the memory of one unit.
LEMMA BlockPlace ==
    ASSUME Fixed, NEW b \in DOMAIN pat.block
    PROVE  LET start == pat.block[b].lpos  gpos == pat.block[b].gpos
           IN  /\ start = pat.local[gpos] /\ start \in [unit : Team, index : Nat]
               /\ gpos \in Nat /\ gpos .. gpos + BlockElems - 1 \subseteq DOMAIN pat.local
               /\ start.index + BlockElems <= pat.size[start.unit]
               /\ \A i \in 0 .. BlockElems - 1 :
                     /\ PointOf(pat, b, i) \in DOMAIN pat.place
                     /\ pat.place[PointOf(pat, b, i)] = [unit |-> start.unit, index |-> start.index + i]
<1>. DEFINE start == pat.block[b].lpos
            gpos == pat.block[b].gpos
<1>1. ContiguousTiles(pat)
  BY Pattern DEF WellTiled
<1>2. /\ start = pat.local[gpos]
      /\ gpos \in Nat /\ gpos .. gpos + BlockElems - 1 \subseteq DOMAIN pat.local
      /\ start.index + BlockElems <= pat.size[start.unit]
      /\ \A i \in 0 .. BlockElems - 1 :
            /\ PointOf(pat, b, i) \in DOMAIN pat.place
            /\ pat.place[PointOf(pat, b, i)] = [unit |-> start.unit, index |-> start.index + i]
  BY <1>1, Shape DEF ContiguousTiles
<1>. HIDE DEF start, gpos
<1>3. gpos \in DOMAIN pat.local
  <2>1. gpos \in gpos .. gpos + BlockElems - 1
    BY <1>2, Shape
  <2>. QED  BY <1>2, <2>1
<1>. QED  BY <1>2, <1>3, Places DEF start, gpos

\* The elements of a block of A or B are where the table says.
LEMMA BlockStored ==
    ASSUME Fixed, NEW b \in DOMAIN pat.block, NEW m \in Operands, NEW i \in 0 .. BlockElems - 1
    PROVE  mem[m][pat.block[b].lpos.unit][pat.block[b].lpos.index + i] = BlockData(m, b)[i]
<1>. DEFINE start == pat.block[b].lpos
            x == PointOf(pat, b, i)
            here == [unit |-> start.unit, index |-> start.index + i]
<1>1. /\ start \in [unit : Team, index : Nat] /\ x \in DOMAIN pat.place /\ pat.place[x] = here
      /\ start.index + BlockElems <= pat.size[start.unit]
  BY BlockPlace
<1>2. (CHOOSE y \in DOMAIN pat.place : pat.place[y] = here) = x
  BY <1>1, Places
<1>3. start.unit \in Team /\ start.index + i \in 0 .. pat.size[start.unit] - 1
  <2>1. start.unit \in Team /\ start.index \in Nat
    BY <1>1
  <2>. HIDE DEF start
  <2>. QED  BY <1>1, <2>1, Shape, Places
<1>4. mem[m] = MemoryOf(m)
  BY DEF Fixed
<1>5. MemoryOf(m)[start.unit][start.index + i] = Values[m][x]
  <2>. DEFINE at_(u, o) == Values[m][CHOOSE y \in DOMAIN pat.place : pat.place[y] = [unit |-> u, index |-> o]]
  <2>1. MemoryOf(m) = [u \in Team |-> [o \in 0 .. pat.size[u] - 1 |-> at_(u, o)]]
    BY DEF MemoryOf
  <2>2. at_(start.unit, start.index + i) = Values[m][x]
    BY <1>2, Zenon
  <2>. HIDE DEF at_, start, x
  <2>. QED  BY <1>3, <2>1, <2>2
<1>6. BlockData(m, b)[i] = Values[m][x]
  BY DEF BlockData
<1>. QED  BY <1>4, <1>5, <1>6

\* Every block is fetched by one read.
LEMMA BlockRead ==
    ASSUME Fixed, NEW b \in DOMAIN pat.block, NEW u, NEW m, NEW dest
    PROVE  Reads(u, m, b, dest) = {[unit |-> u, mat |-> m, dest |-> dest,
               get |-> [to |-> 0, from |-> pat.block[b].lpos, len |-> BlockElems]]}
<1>. DEFINE start == pat.block[b].lpos
            gpos == pat.block[b].gpos
<1>1. /\ start = pat.local[gpos] /\ start \in [unit : Team, index : Nat]
      /\ gpos \in Nat /\ gpos .. gpos + BlockElems - 1 \subseteq DOMAIN pat.local
      /\ start.index + BlockElems <= pat.size[start.unit]
  BY BlockPlace
<1>. HIDE DEF start, gpos
<1>2. BlockElems \in Nat \ {0} /\ BlockElems <= MaxCopyElem /\ MaxCopyElem \in Nat
  BY Shape, CopyAssumption
<1>3. ASSUME NEW g \in gpos .. gpos + BlockElems - 1
      PROVE  /\ pat.local[g].index \in Nat /\ pat.size[pat.local[g].unit] \in Nat
             /\ pat.local[g].index < pat.size[pat.local[g].unit]
  <2>1. g \in DOMAIN pat.local
    BY <1>1
  <2>. QED  BY <2>1, Places
<1>4. Gets(pat, gpos, gpos + BlockElems, 0) = {[to |-> 0, from |-> start, len |-> BlockElems]}
  BY <1>1, <1>2, <1>3, OneRead
<1>. QED  BY <1>4, Zenon DEF Reads, gpos, start

----------------------------------------------------------------------------
\* What does not change.

\* What is the same when the pattern is.
LEMMA TablesSame ==
    ASSUME pat' = pat
    PROVE  /\ Team' = Team /\ BlockElems' = BlockElems /\ num_blocks_m' = num_blocks_m
           /\ \A u, b : IsLocalBlock(u, b)' <=> IsLocalBlock(u, b)
           /\ \A m, b : BlockData(m, b)' = BlockData(m, b)
           /\ \A u, k : PanelOf(u, k)' = PanelOf(u, k)
<1>1. pat' = pat
  OBVIOUS
<1>2. BlockElems' = BlockElems /\ num_blocks_m' = num_blocks_m /\ Team' = Team
  BY <1>1 DEF BlockElems, num_blocks_m, block_size, Team
<1>3. \A m, b : BlockData(m, b)' = BlockData(m, b)
  BY <1>1, <1>2 DEF BlockData
<1>. QED  BY <1>1, <1>2, <1>3 DEF IsLocalBlock, PanelOf

\* A unit that does not move expects what it did.
SameUnit(u) == pc'[u] = pc[u] /\ ptr'[u] = ptr[u] /\ next'[u] = next[u] /\ at'[u] = at[u]

\* What follows from it.
LEMMA UnitSame ==
    ASSUME pat' = pat, NEW u, SameUnit(u)
    PROVE  /\ Expecting(u)' <=> Expecting(u)
           /\ LastBlock(u)' <=> LastBlock(u)
           /\ Coords(u)' = Coords(u) /\ Expected(u)' = Expected(u)
           /\ \A m : Target(u, m)' = Target(u, m)
<1>1. /\ pat' = pat
      /\ pc'[u] = pc[u] /\ ptr'[u] = ptr[u] /\ next'[u] = next[u] /\ at'[u] = at[u]
  BY DEF SameUnit
<1>2. num_blocks_m' = num_blocks_m /\ \A k : PanelOf(u, k)' = PanelOf(u, k)
  BY TablesSame
<1>3. LastBlock(u)' <=> LastBlock(u)
  BY <1>1, <1>2 DEF LastBlock
<1>4. Coords(u)' = Coords(u) /\ NextCoords(u)' = NextCoords(u)
  BY <1>1, <1>2 DEF Coords, NextCoords, PanelOf
<1>5. Expecting(u)' <=> Expecting(u)
  BY <1>1, <1>3 DEF Expecting
<1>6. Expected(u)' = Expected(u)
  BY <1>1, <1>4 DEF Expected
<1>7. \A m : Target(u, m)' = Target(u, m)
  BY <1>1 DEF Target
<1>. QED  BY <1>3, <1>4, <1>5, <1>6, <1>7

\* A read of a unit that does not move is expected as it was.
LEMMA ReadKept ==
    ASSUME pat' = pat, NEW r, SameUnit(r.unit), ReadInv(r)
    PROVE  ReadInv(r)'
<1>. DEFINE u == r.unit
<1>1. /\ Expecting(u)' <=> Expecting(u)
      /\ Expected(u)' = Expected(u)
      /\ Target(u, r.mat)' = Target(u, r.mat)
  BY UnitSame
<1>2. Team' = Team /\ BlockElems' = BlockElems /\ pat' = pat /\ next'[u] = next[u]
  BY TablesSame DEF SameUnit
<1>. QED  BY <1>1, <1>2 DEF ReadInv

\* What is kept of a unit when its buffers, A and B are.
LEMMA UnitKept ==
    ASSUME pat' = pat, NEW u \in Team, SameUnit(u), UnitInv(u),
           buffer'[u] = buffer[u], \A m \in Operands : mem'[m][u] = mem[m][u],
           \A r : r.unit = u => (r \in inflight' <=> r \in inflight)
    PROVE  UnitInv(u)'
<1>1. /\ Expecting(u)' <=> Expecting(u)
      /\ LastBlock(u)' <=> LastBlock(u)
      /\ Coords(u)' = Coords(u) /\ Expected(u)' = Expected(u)
      /\ \A m : Target(u, m)' = Target(u, m)
  BY UnitSame
<1>2. /\ BlockElems' = BlockElems /\ pat' = pat
      /\ \A b : IsLocalBlock(u, b)' <=> IsLocalBlock(u, b)
      /\ \A m, b : BlockData(m, b)' = BlockData(m, b)
      /\ pc'[u] = pc[u] /\ ptr'[u] = ptr[u] /\ next'[u] = next[u] /\ at'[u] = at[u]
  BY TablesSame DEF SameUnit
<1>3. \A m \in Operands : \A q : Contents(u, m, q)' = Contents(u, m, q)
  BY <1>2 DEF Contents
<1>4. LoopInv(u)'
  BY <1>1, <1>2 DEF UnitInv, LoopInv
<1>5. ASSUME NEW m \in Operands PROVE PointersInv(u, m)' /\ ComingInv(u, m)' /\ ReadyInv(u, m)'
  <2>1. PointersInv(u, m) /\ ComingInv(u, m) /\ ReadyInv(u, m)
    BY <1>5 DEF UnitInv
  <2>2. PointersInv(u, m)'
    BY <1>2, <2>1 DEF PointersInv
  <2>3. ReadyInv(u, m)'
    BY <1>1, <1>2, <1>3, <1>5, <2>1 DEF ReadyInv
  <2>4. ComingInv(u, m)'
    <3>. DEFINE b == Expected(u)[m]
                t == Target(u, m)
    <3>1. Expected(u)'[m] = b /\ Target(u, m)' = t
      BY <1>1
    <3>2. (\E r \in inflight : r.unit = u /\ r.mat = m) <=> (\E r \in inflight' : r.unit = u /\ r.mat = m)
      OBVIOUS
    <3>3. Contents(u, m, Target(u, m))' = Contents(u, m, Target(u, m))
      BY <3>1, <1>2, \A n \in Operands : mem'[n][u] = mem[n][u], buffer'[u] = buffer[u] DEF Contents
    <3>4. /\ Expected(u)'[m] = b /\ (IsLocalBlock(u, Expected(u)[m])' <=> IsLocalBlock(u, b))
          /\ pat.block[Expected(u)[m]]' = pat.block[b]
          /\ BlockData(m, Expected(u)[m])' = BlockData(m, b)
      BY <1>2, <3>1 DEF IsLocalBlock, BlockData
    <3>5. /\ Target(u, m)' = t /\ Contents(u, m, Target(u, m))' = Contents(u, m, t)
          /\ pat.block[Expected(u)[m]].lpos.index' = pat.block[b].lpos.index
      BY <3>1, <3>3, <3>4
    <3>6. Expecting(u) =>
            /\ next[u][m] = [block |-> b, local |-> IsLocalBlock(u, b)]
            /\ IF IsLocalBlock(u, b) THEN t = Local_(pat.block[b].lpos.index)
               ELSE /\ t.kind = "buffer"
                    /\ \/ \E r \in inflight : r.unit = u /\ r.mat = m
                       \/ Contents(u, m, t) = BlockData(m, b)
      BY <2>1 DEF ComingInv
    <3>7. (Expecting(u)' =>
            /\ next'[u][m] = [block |-> Expected(u)'[m], local |-> IsLocalBlock(u, Expected(u)[m])']
            /\ IF IsLocalBlock(u, Expected(u)[m])'
               THEN Target(u, m)' = Local_(pat.block[Expected(u)[m]].lpos.index')
               ELSE /\ Target(u, m)'.kind = "buffer"
                    /\ \/ \E r \in inflight' : r.unit = u /\ r.mat = m
                       \/ Contents(u, m, Target(u, m))' = BlockData(m, Expected(u)[m])')
          => ComingInv(u, m)'
      BY DEF ComingInv, Local_
    <3>. HIDE DEF b, t
    <3>8. next'[u][m] = [block |-> Expected(u)'[m], local |-> IsLocalBlock(u, Expected(u)[m])']
            <=> next[u][m] = [block |-> b, local |-> IsLocalBlock(u, b)]
      BY <1>2, <3>1, <3>4 DEF IsLocalBlock
    <3>. QED  BY <1>1, <3>2, <3>4, <3>5, <3>6, <3>7, <3>8
  <2>. QED  BY <2>2, <2>3, <2>4
<1>. QED  BY <1>4, <1>5 DEF UnitInv

----------------------------------------------------------------------------
\* Iterations and fetches.

\* What is expected of the block b of m, if it is to come where t points.
ComingAt(u, m, b, t) ==
    /\ next[u][m] = [block |-> b, local |-> IsLocalBlock(u, b)]
    /\ IF IsLocalBlock(u, b) THEN t = Local_(pat.block[b].lpos.index)
       ELSE /\ t.kind = "buffer"
            /\ \/ \E r \in inflight : r.unit = u /\ r.mat = m
               \/ Contents(u, m, t) = BlockData(m, b)

\* It is what ComingInv says after the step.
LEMMA ComingNow ==
    ASSUME NEW u, NEW m, NEW b, NEW t,
           Expecting(u)' => Expected(u)'[m] = b /\ Target(u, m)' = t /\ ComingAt(u, m, b, t)'
    PROVE  ComingInv(u, m)'
<1>. SUFFICES ASSUME Expecting(u)'
              PROVE  /\ next'[u][m] = [block |-> Expected(u)'[m], local |-> IsLocalBlock(u, Expected(u)[m])']
                     /\ IF IsLocalBlock(u, Expected(u)[m])'
                        THEN Target(u, m)' = Local_(pat.block[Expected(u)[m]].lpos.index')
                        ELSE /\ Target(u, m)'.kind = "buffer"
                             /\ \/ \E r \in inflight' : r.unit = u /\ r.mat = m
                                \/ Contents(u, m, Target(u, m))' = BlockData(m, Expected(u)[m])'
  BY DEF ComingInv, Local_
<1>1. Expected(u)'[m] = b /\ Target(u, m)' = t
  OBVIOUS
<1>2. Contents(u, m, Target(u, m))' = Contents(u, m, t)'
  BY <1>1 DEF Contents
<1>3. /\ BlockData(m, Expected(u)[m])' = BlockData(m, b)'
      /\ pat.block[Expected(u)[m]]' = pat'.block[b]
  BY <1>1 DEF BlockData
<1>4. IsLocalBlock(u, Expected(u)[m])' <=> IsLocalBlock(u, b)'
  BY <1>1 DEF IsLocalBlock
<1>5. next'[u][m] = [block |-> Expected(u)'[m], local |-> IsLocalBlock(u, Expected(u)[m])']
      <=> next'[u][m] = [block |-> b, local |-> IsLocalBlock(u, b)']
  BY <1>1 DEF IsLocalBlock
<1>6. /\ next'[u][m] = [block |-> b, local |-> IsLocalBlock(u, b)']
      /\ IF IsLocalBlock(u, b)' THEN t = Local_(pat'.block[b].lpos.index)
         ELSE /\ t.kind = "buffer"
              /\ \/ \E r \in inflight' : r.unit = u /\ r.mat = m
                 \/ Contents(u, m, t)' = BlockData(m, b)'
  BY DEF ComingAt, Local_
<1>. QED  BY <1>1, <1>2, <1>3, <1>4, <1>5, <1>6

\* What TypeOK says of one unit.
PointerRecord == [get : Pointers, comp : Pointers,
                  get_bac : Pointers \cup {None}, comp_bac : Pointers \cup {None}]

\* What a unit is at is one of its blocks and one of the panels.
LEMMA PanelBounds ==
    ASSUME Fixed, NEW u \in Team
    PROVE  /\ \A k \in Nat : PanelOf(u, k) \in 0 .. num_blocks_m - 1
           /\ PanelOf(u, 0) = pat.column[u]
<1>1. pat.column[u] \in 0 .. num_blocks_m - 1 /\ num_blocks_m \in Nat \ {0}
  BY BlocksOfUnit, Shape
<1>. DEFINE n == num_blocks_m
            c == pat.column[u]
<1>. HIDE DEF n, c
<1>2. \A k \in Nat : (k + c) % n \in 0 .. n - 1
  BY <1>1, DivMod DEF n, c
<1>3. (0 + c) % n = c
  BY <1>1, RemainderUnique DEF n, c
<1>. QED  BY <1>2, <1>3 DEF PanelOf, n, c

\* The blocks of an iteration are blocks of the matrices.
LEMMA CoordsInside ==
    ASSUME Fixed, NEW u \in Team, NEW lb \in DOMAIN pat.cblock[u], NEW k \in Nat, NEW m \in Operands
    PROVE  CoordsFor(pat.cblock[u][lb], PanelOf(u, k))[m] \in DOMAIN pat.block
<1>1. PanelOf(u, k) \in 0 .. num_blocks_m - 1
  BY PanelBounds
<1>2. /\ pat.cblock[u][lb].col \in 0 .. num_blocks_m - 1
      /\ pat.cblock[u][lb].row \in 0 .. num_blocks_m - 1
  BY BlocksOfUnit
<1>3. DOMAIN pat.block = (0 .. num_blocks_m - 1) \X (0 .. num_blocks_m - 1)
  BY Shape
<1>. QED  BY <1>1, <1>2, <1>3 DEF CoordsFor

\* The next iteration: the loop variables after this one, if there is one.
NextAt(a) == IF a.k = num_blocks_m - 1 THEN [lb |-> a.lb + 1, k |-> 0] ELSE [lb |-> a.lb, k |-> a.k + 1]

\* ... and so are those of the iteration after it.
LEMMA NextInside ==
    ASSUME TypeOK, NEW u \in Team, ~ LastBlock(u)
    PROVE  /\ NextAt(at[u]) \in [lb : Nat, k : 0 .. num_blocks_m - 1]
           /\ NextAt(at[u]).lb \in DOMAIN pat.cblock[u]
           /\ NextCoords(u) = CoordsFor(pat.cblock[u][NextAt(at[u]).lb], PanelOf(u, NextAt(at[u]).k))
           /\ \A m \in Operands : NextCoords(u)[m] \in DOMAIN pat.block
<1>. DEFINE a == at[u]
            n == num_blocks_m
<1>1. Fixed /\ a \in [lb : Nat, k : 0 .. n - 1] /\ a.lb \in DOMAIN pat.cblock[u]
  BY DEF TypeOK
<1>2. n \in Nat \ {0}
  BY <1>1, Shape
<1>3. PICK N \in Nat \ {0} : DOMAIN pat.cblock[u] = 0 .. N - 1 /\ Cardinality(DOMAIN pat.cblock[u]) = N
  BY <1>1, BlocksOfUnit
<1>4. ~ (a.lb = N - 1 /\ a.k = n - 1)
  BY <1>3 DEF LastBlock
<1>. HIDE DEF n
<1>5. NextAt(a) = IF a.k = n - 1 THEN [lb |-> a.lb + 1, k |-> 0] ELSE [lb |-> a.lb, k |-> a.k + 1]
  BY DEF NextAt, n
<1>6. NextAt(a) \in [lb : Nat, k : 0 .. n - 1] /\ NextAt(a).lb \in 0 .. N - 1
  BY <1>1, <1>2, <1>3, <1>4, <1>5
<1>7. NextCoords(u) = CoordsFor(pat.cblock[u][NextAt(a).lb], PanelOf(u, NextAt(a).k))
  <2>1. CASE a.k = n - 1
    BY <1>5, <2>1 DEF NextCoords, n
  <2>2. CASE a.k # n - 1
    <3>1. NextAt(a).lb = a.lb /\ NextAt(a).k = a.k + 1
      BY <1>1, <1>5, <2>2
    <3>. QED  BY <2>2, <3>1 DEF NextCoords, n
  <2>. QED  BY <2>1, <2>2
<1>8. \A m \in Operands : NextCoords(u)[m] \in DOMAIN pat.block
  <2>1. NextAt(a).k \in Nat /\ NextAt(a).lb \in DOMAIN pat.cblock[u]
    BY <1>3, <1>6
  <2>. HIDE DEF a
  <2>. QED  BY <1>1, <1>7, <2>1, CoordsInside
<1>. QED  BY <1>3, <1>6, <1>7, <1>8 DEF n

\* The one read of a block.
Read(u, m, b, dest) == [unit |-> u, mat |-> m, dest |-> dest,
                        get |-> [to |-> 0, from |-> pat.block[b].lpos, len |-> BlockElems]]

\* A fetch adds a read for each operand whose block is not local.
LEMMA FetchReads ==
    ASSUME Fixed, NEW u, NEW coords, NEW into, NEW bac,
           \A m \in Operands : coords[m] \in DOMAIN pat.block,
           FetchInto(u, coords, into, bac)
    PROVE  \A r : r \in inflight' <=>
               \/ r \in inflight
               \/ \E m \in Operands : ~ IsLocalBlock(u, coords[m]) /\ r = Read(u, m, coords[m], ptr[u][m][into])
<1>. DEFINE far == {o \in Operands : ~ IsLocalBlock(u, coords[o])}
<1>1. inflight' = inflight \cup UNION {Reads(u, m, coords[m], ptr[u][m][into]) : m \in far}
  BY DEF FetchInto
<1>2. \A m \in far : Reads(u, m, coords[m], ptr[u][m][into]) = {Read(u, m, coords[m], ptr[u][m][into])}
  BY BlockRead DEF Read
<1>3. \A r : r \in UNION {Reads(u, m, coords[m], ptr[u][m][into]) : m \in far}
             <=> \E m \in far : r \in Reads(u, m, coords[m], ptr[u][m][into])
  OBVIOUS
<1>. HIDE DEF far
<1>4. \A r : r \in inflight' <=> r \in inflight \/ \E m \in far : r = Read(u, m, coords[m], ptr[u][m][into])
  BY <1>1, <1>2, <1>3
<1>. QED  BY <1>4 DEF far

----------------------------------------------------------------------------
\* Pointers, and what they lead to.

\* What is fixed stays so when neither the pattern nor memory changes.
LEMMA BuffersKept ==
    ASSUME Fixed, pat' = pat, UNCHANGED <<mem, buffer>>
    PROVE  Fixed'
<1>1. pat' = pat /\ mem' = mem /\ buffer' = buffer
  OBVIOUS
<1>2. Team' = Team /\ BlockElems' = BlockElems
  BY TablesSame
<1>3. \A m \in Operands : mem'[m] = MemoryOf(m)'
  <2>1. \A m : MemoryOf(m)' = MemoryOf(m)
    BY <1>1, <1>2 DEF MemoryOf
  <2>2. \A m \in Operands : mem[m] = MemoryOf(m)
    BY DEF Fixed
  <2>. QED  BY <1>1, <2>1, <2>2
<1>4. buffer' = [u \in Team' |-> [m \in Operands |-> [i \in 0 .. 1 |->
                   [x \in 0 .. BlockElems' - 1 |-> buffer'[u][m][i][x]]]]]
  BY <1>1, <1>2 DEF Fixed
<1>. QED  BY <1>1, <1>3, <1>4 DEF Fixed

\* A step of one unit keeps what is known of the others.
LEMMA OneMoves ==
    ASSUME SummaInv, NEW u \in Team, pat' = pat, TypeOK',
           \A v \in Team \ {u} : /\ SameUnit(v) /\ buffer'[v] = buffer[v]
                                 /\ \A m \in Operands : mem'[m][v] = mem[m][v],
           \A r : r.unit # u => (r \in inflight' <=> r \in inflight),
           \A r \in inflight' : r.unit = u => ReadInv(r)',
           UnitInv(u)'
    PROVE  SummaInv'
<1>1. Team' = Team
  BY TablesSame
<1>2. ASSUME NEW v \in Team PROVE UnitInv(v)'
  <2>1. CASE v = u
    BY <2>1
  <2>2. CASE v # u
    <3>1. UnitInv(v) /\ \A r : r.unit = v => (r \in inflight' <=> r \in inflight)
      BY <2>2 DEF SummaInv
    <3>. QED  BY <2>2, <3>1, UnitKept
  <2>. QED  BY <2>1, <2>2
<1>3. ASSUME NEW r \in inflight' PROVE ReadInv(r)'
  <2>1. CASE r.unit = u
    BY <2>1
  <2>2. CASE r.unit # u
    <3>1. ReadInv(r) /\ r.unit \in Team
      BY <2>2 DEF SummaInv, ReadInv
    <3>. QED  BY <2>2, <3>1, ReadKept
  <2>. QED  BY <2>1, <2>2
<1>. QED  BY <1>1, <1>2, <1>3 DEF SummaInv

\* A pointer that nothing is set aside for leads to its buffer.
LEMMA OwnsBuffer ==
    ASSUME NEW i \in 0 .. 1
    PROVE  /\ Buffer(i) \in Pointers /\ Buffer(i) # None /\ Buffer(i).kind = "buffer" /\ Buffer(i).index = i
           /\ \A p : Owns(p, None, i) <=> p = Buffer(i)
           /\ \A p, bac : Owns(p, bac, i) /\ p.kind = "buffer" => p = Buffer(i) /\ bac = None
<1>1. Buffer(i) \in Pointers /\ Buffer(i).kind = "buffer" /\ Buffer(i).index = i
  BY DEF Buffer, Pointers
<1>2. Buffer(i) # None
  BY <1>1, NullAssumption DEF Pointers
<1>. QED  BY <1>1, <1>2 DEF Owns

\* The data of a local block is in local memory.
LEMMA LocalData ==
    ASSUME Fixed, NEW u, NEW m \in Operands, NEW b \in DOMAIN pat.block, IsLocalBlock(u, b)
    PROVE  Contents(u, m, Local_(pat.block[b].lpos.index)) = BlockData(m, b)
<1>. DEFINE o == pat.block[b].lpos.index
<1>1. pat.block[b].lpos.unit = u
  BY DEF IsLocalBlock
<1>2. \A i \in 0 .. BlockElems - 1 : mem[m][u][o + i] = BlockData(m, b)[i]
  BY <1>1, BlockStored
<1>3. Local_(o).kind = "local" /\ Local_(o).index = o
  BY DEF Local_
<1>. HIDE DEF o
<1>4. Contents(u, m, Local_(o)) = [i \in 0 .. BlockElems - 1 |-> mem[m][u][o + i]]
  BY <1>3 DEF Contents
<1>5. BlockData(m, b) = [i \in 0 .. BlockElems - 1 |-> BlockData(m, b)[i]]
  BY DEF BlockData
<1>. QED  BY <1>2, <1>4, <1>5 DEF o

\* When nothing more of u is under way, what was expected is there.
LEMMA Arrived ==
    ASSUME SummaInv, NEW u \in Team, Expecting(u), Received(u), NEW m \in Operands,
           Expected(u)[m] \in DOMAIN pat.block
    PROVE  Contents(u, m, Target(u, m)) = BlockData(m, Expected(u)[m])
<1>. DEFINE b == Expected(u)[m]
            t == Target(u, m)
<1>1. ComingInv(u, m)
  BY DEF SummaInv, UnitInv
<1>2. IF IsLocalBlock(u, b) THEN t = Local_(pat.block[b].lpos.index)
      ELSE /\ t.kind = "buffer"
           /\ (\E r \in inflight : r.unit = u /\ r.mat = m) \/ Contents(u, m, t) = BlockData(m, b)
  BY <1>1 DEF ComingInv
<1>3. ~ \E r \in inflight : r.unit = u /\ r.mat = m
  <2>. SUFFICES ASSUME NEW r \in inflight, r.unit = u PROVE FALSE
    OBVIOUS
  <2>1. ReadInv(r)
    BY DEF SummaInv
  <2>. QED  BY <2>1 DEF ReadInv, Received
<1>4. Fixed
  BY DEF SummaInv, TypeOK
<1>. HIDE DEF b, t
<1>5. CASE IsLocalBlock(u, b)
  BY <1>2, <1>4, <1>5, LocalData DEF b, t
<1>6. CASE ~ IsLocalBlock(u, b)
  BY <1>2, <1>3, <1>6 DEF b, t
<1>. QED  BY <1>5, <1>6

\* Nothing is under way for a unit that expects nothing.
LEMMA NothingUnderWay ==
    ASSUME SummaInv, NEW u, ~ Expecting(u)
    PROVE  \A r \in inflight : r.unit # u
BY DEF SummaInv, ReadInv

\* Nothing is under way for a unit that has waited.
LEMMA ReceivedAll ==
    ASSUME SummaInv, NEW u, Received(u)
    PROVE  \A r \in inflight : r.unit # u
BY DEF SummaInv, ReadInv, Received

\* The four pointers after a fetch for the iteration that begins ...
LEMMA FetchesComp ==
    ASSUME TypeOK, NEW u \in Team, NEW coords,
           \A m \in Operands : coords[m] \in DOMAIN pat.block,
           FetchInto(u, coords, "comp", "comp_bac")
    PROVE  /\ next' = [v \in Team |-> [m \in Operands |-> next'[v][m]]]
           /\ \A v \in Team \ {u} : next'[v] = next[v] /\ ptr'[v] = ptr[v]
           /\ ptr' \in [Team -> [Operands -> PointerRecord]]
           /\ \A m \in Operands :
                 /\ next'[u][m] = [block |-> coords[m], local |-> IsLocalBlock(u, coords[m])]
                 /\ ptr'[u][m].get = ptr[u][m].get /\ ptr'[u][m].get_bac = ptr[u][m].get_bac
                 /\ IF IsLocalBlock(u, coords[m])
                    THEN /\ ptr'[u][m].comp = Local_(pat.block[coords[m]].lpos.index)
                         /\ ptr'[u][m].comp_bac = ptr[u][m].comp
                    ELSE ptr'[u][m].comp = ptr[u][m].comp /\ ptr'[u][m].comp_bac = None
<1>. DEFINE new(m) == IF IsLocalBlock(u, coords[m])
                      THEN [ptr[u][m] EXCEPT !["comp_bac"] = ptr[u][m]["comp"],
                                             !["comp"] = Local_(pat.block[coords[m]].lpos.index)]
                      ELSE [ptr[u][m] EXCEPT !["comp_bac"] = None]
<1>1. /\ next' = [next EXCEPT ![u] = [m \in Operands |-> [block |-> coords[m], local |-> IsLocalBlock(u, coords[m])]]]
      /\ ptr' = [ptr EXCEPT ![u] = [m \in Operands |-> new(m)]]
  BY DEF FetchInto
<1>2. /\ next = [v \in Team |-> [m \in Operands |-> next[v][m]]]
      /\ ptr \in [Team -> [Operands -> PointerRecord]] /\ Fixed
  BY DEF TypeOK, PointerRecord
<1>3. ASSUME NEW m \in Operands
      PROVE  /\ new(m) \in PointerRecord
             /\ new(m).get = ptr[u][m].get /\ new(m).get_bac = ptr[u][m].get_bac
             /\ IF IsLocalBlock(u, coords[m])
                    THEN /\ new(m).comp = Local_(pat.block[coords[m]].lpos.index)
                         /\ new(m).comp_bac = ptr[u][m].comp
                    ELSE new(m).comp = ptr[u][m].comp /\ new(m).comp_bac = None
  <2>1. ptr[u][m] \in PointerRecord
    BY <1>2
  <2>2. Local_(pat.block[coords[m]].lpos.index) \in Pointers
    <3>1. pat.block[coords[m]].lpos \in [unit : Team, index : Nat]
      BY <1>2, BlockPlace
    <3>. QED  BY <3>1 DEF Local_, Pointers
  <2>. HIDE DEF Pointers
  <2>. QED  BY <2>1, <2>2 DEF PointerRecord
<1>. HIDE DEF new
<1>4. \A v \in Team \ {u} : next'[v] = next[v] /\ ptr'[v] = ptr[v]
  BY <1>1, <1>2
<1>5. ptr'[u] = [m \in Operands |-> new(m)]
      /\ next'[u] = [m \in Operands |-> [block |-> coords[m], local |-> IsLocalBlock(u, coords[m])]]
  BY <1>1, <1>2
<1>6. ptr' \in [Team -> [Operands -> PointerRecord]]
  BY <1>1, <1>2, <1>3
<1>7. next' = [v \in Team |-> [m \in Operands |-> next'[v][m]]]
  BY <1>1, <1>2
<1>. QED  BY <1>3, <1>4, <1>5, <1>6, <1>7

\* ... and after a fetch for the one after it.
LEMMA FetchesGet ==
    ASSUME TypeOK, NEW u \in Team, NEW coords,
           \A m \in Operands : coords[m] \in DOMAIN pat.block,
           FetchInto(u, coords, "get", "get_bac")
    PROVE  /\ next' = [v \in Team |-> [m \in Operands |-> next'[v][m]]]
           /\ \A v \in Team \ {u} : next'[v] = next[v] /\ ptr'[v] = ptr[v]
           /\ ptr' \in [Team -> [Operands -> PointerRecord]]
           /\ \A m \in Operands :
                 /\ next'[u][m] = [block |-> coords[m], local |-> IsLocalBlock(u, coords[m])]
                 /\ ptr'[u][m].comp = ptr[u][m].comp /\ ptr'[u][m].comp_bac = ptr[u][m].comp_bac
                 /\ IF IsLocalBlock(u, coords[m])
                    THEN /\ ptr'[u][m].get = Local_(pat.block[coords[m]].lpos.index)
                         /\ ptr'[u][m].get_bac = ptr[u][m].get
                    ELSE ptr'[u][m].get = ptr[u][m].get /\ ptr'[u][m].get_bac = None
<1>. DEFINE new(m) == IF IsLocalBlock(u, coords[m])
                      THEN [ptr[u][m] EXCEPT !["get_bac"] = ptr[u][m]["get"],
                                             !["get"] = Local_(pat.block[coords[m]].lpos.index)]
                      ELSE [ptr[u][m] EXCEPT !["get_bac"] = None]
<1>1. /\ next' = [next EXCEPT ![u] = [m \in Operands |-> [block |-> coords[m], local |-> IsLocalBlock(u, coords[m])]]]
      /\ ptr' = [ptr EXCEPT ![u] = [m \in Operands |-> new(m)]]
  BY DEF FetchInto
<1>2. /\ next = [v \in Team |-> [m \in Operands |-> next[v][m]]]
      /\ ptr \in [Team -> [Operands -> PointerRecord]] /\ Fixed
  BY DEF TypeOK, PointerRecord
<1>3. ASSUME NEW m \in Operands
      PROVE  /\ new(m) \in PointerRecord
             /\ new(m).comp = ptr[u][m].comp /\ new(m).comp_bac = ptr[u][m].comp_bac
             /\ IF IsLocalBlock(u, coords[m])
                    THEN /\ new(m).get = Local_(pat.block[coords[m]].lpos.index)
                         /\ new(m).get_bac = ptr[u][m].get
                    ELSE new(m).get = ptr[u][m].get /\ new(m).get_bac = None
  <2>1. ptr[u][m] \in PointerRecord
    BY <1>2
  <2>2. Local_(pat.block[coords[m]].lpos.index) \in Pointers
    <3>1. pat.block[coords[m]].lpos \in [unit : Team, index : Nat]
      BY <1>2, BlockPlace
    <3>. QED  BY <3>1 DEF Local_, Pointers
  <2>. HIDE DEF Pointers
  <2>. QED  BY <2>1, <2>2 DEF PointerRecord
<1>. HIDE DEF new
<1>4. \A v \in Team \ {u} : next'[v] = next[v] /\ ptr'[v] = ptr[v]
  BY <1>1, <1>2
<1>5. ptr'[u] = [m \in Operands |-> new(m)]
      /\ next'[u] = [m \in Operands |-> [block |-> coords[m], local |-> IsLocalBlock(u, coords[m])]]
  BY <1>1, <1>2
<1>6. ptr' \in [Team -> [Operands -> PointerRecord]]
  BY <1>1, <1>2, <1>3
<1>7. next' = [v \in Team |-> [m \in Operands |-> next'[v][m]]]
  BY <1>1, <1>2
<1>. QED  BY <1>3, <1>4, <1>5, <1>6, <1>7

----------------------------------------------------------------------------
\* The steps of a unit.

\* The parts of TypeOK after a step that keeps the pattern.
LEMMA TypeKept ==
    ASSUME TypeOK, Fixed', pat' = pat, ptr' \in [Team -> [Operands -> PointerRecord]],
           next' = [u \in Team |-> [m \in Operands |-> next'[u][m]]],
           pc' \in [Team -> Phases], at' \in [Team -> [lb : Nat, k : 0 .. num_blocks_m - 1]],
           \A u \in Team : at'[u].lb \in DOMAIN pat.cblock[u]
    PROVE  TypeOK'
<1>1. Team' = Team /\ num_blocks_m' = num_blocks_m /\ pat' = pat
  BY TablesSame
<1>2. \A u \in Team' : at'[u].lb \in DOMAIN pat'.cblock[u]
  BY <1>1
<1>3. ptr' \in [Team' -> [Operands -> PointerRecord]]
  BY <1>1
<1>4. next' = [u \in Team' |-> [m \in Operands |-> next'[u][m]]]
  BY <1>1
<1>5. pc' \in [Team' -> Phases] /\ at' \in [Team' -> [lb : Nat, k : 0 .. num_blocks_m' - 1]]
  BY <1>1
<1>. QED  BY <1>2, <1>3, <1>4, <1>5 DEF TypeOK, PointerRecord

\* The blocks of an iteration depend on the loop variables only.
LEMMA AtSame ==
    ASSUME pat' = pat, NEW u, at'[u] = at[u]
    PROVE  /\ Coords(u)' = Coords(u) /\ NextCoords(u)' = NextCoords(u)
           /\ LastBlock(u)' <=> LastBlock(u)
<1>1. pat' = pat /\ num_blocks_m' = num_blocks_m
  BY TablesSame
<1>. QED  BY <1>1 DEF Coords, NextCoords, LastBlock, PanelOf

\* A pointer leads to what it did when memory is what it was.
LEMMA ContentsSame ==
    ASSUME pat' = pat, NEW u, NEW m, NEW q, buffer'[u] = buffer[u], mem'[m][u] = mem[m][u]
    PROVE  Contents(u, m, q)' = Contents(u, m, q)
<1>1. BlockElems' = BlockElems
  BY TablesSame
<1>. QED  BY <1>1 DEF Contents

\* The blocks of an iteration are there if they are where comp points.
LEMMA ReadyNow ==
    ASSUME NEW u, NEW m, NEW b, NEW t,
           pc'[u] \in {"prefetch", "multiply"} =>
               Coords(u)'[m] = b /\ ptr'[u][m].comp = t /\ Contents(u, m, t)' = BlockData(m, b)'
    PROVE  ReadyInv(u, m)'
<1>. SUFFICES ASSUME pc'[u] \in {"prefetch", "multiply"}
              PROVE  Contents(u, m, ptr[u][m].comp)' = BlockData(m, Coords(u)[m])'
  BY DEF ReadyInv
<1>1. Coords(u)'[m] = b /\ ptr'[u][m].comp = t /\ Contents(u, m, t)' = BlockData(m, b)'
  OBVIOUS
<1>2. Contents(u, m, ptr[u][m].comp)' = Contents(u, m, t)'
  BY <1>1 DEF Contents
<1>3. BlockData(m, Coords(u)[m])' = BlockData(m, b)'
  BY <1>1 DEF BlockData
<1>. QED  BY <1>1, <1>2, <1>3

\* A read that has just been started, or whose target has been renamed.
LEMMA ReadNow ==
    ASSUME pat' = pat, NEW r, NEW u \in Team, NEW m \in Operands, NEW b, NEW t,
           Expecting(u)', ~ next'[u][m].local, Expected(u)'[m] = b, Target(u, m)' = t, r = Read(u, m, b, t)
    PROVE  ReadInv(r)'
<1>1. r.unit = u /\ r.mat = m
  BY DEF Read
<1>2. Team' = Team /\ BlockElems' = BlockElems /\ pat' = pat
  BY TablesSame
<1>3. r = [unit |-> u, mat |-> m, dest |-> t, get |-> [to |-> 0, from |-> pat.block[b].lpos, len |-> BlockElems]]
  BY DEF Read
<1>4. /\ r.unit \in Team' /\ r.mat \in Operands /\ Expecting(r.unit)'
      /\ ~ next'[r.unit][r.mat].local
  BY <1>1, <1>2 DEF Expecting, LastBlock
<1>5. Target(r.unit, r.mat)' = t /\ Expected(r.unit)'[r.mat] = b
  BY <1>1 DEF Target, Expected, Coords, NextCoords, PanelOf
<1>. QED  BY <1>1, <1>2, <1>3, <1>4, <1>5 DEF ReadInv

\* The first fetch goes to where comp points.
LEMMA BeginKeeps ==
    ASSUME SummaInv, NEW u \in Team, Begin(u)
    PROVE  SummaInv'
<1>. DEFINE coords == CoordsFor(pat.cblock[u][0], pat.column[u])
<1>1. /\ pc[u] = "begin" /\ FetchInto(u, coords, "comp", "comp_bac")
      /\ pc' = [pc EXCEPT ![u] = "first"] /\ pat' = pat /\ UNCHANGED <<mem, buffer>> /\ at' = at
  BY DEF Begin
<1>2. TypeOK /\ Fixed /\ UnitInv(u)
  BY DEF SummaInv, TypeOK
<1>3. /\ at[u] = [lb |-> 0, k |-> 0] /\ 0 \in DOMAIN pat.cblock[u]
      /\ coords = Coords(u) /\ \A m \in Operands : coords[m] \in DOMAIN pat.block
  <2>1. at[u] = [lb |-> 0, k |-> 0]
    BY <1>1, <1>2 DEF UnitInv, LoopInv
  <2>2. 0 \in DOMAIN pat.cblock[u]
    BY <2>1, <1>2 DEF TypeOK
  <2>3. coords = CoordsFor(pat.cblock[u][0], PanelOf(u, 0))
    BY <1>2, PanelBounds
  <2>4. \A m \in Operands : CoordsFor(pat.cblock[u][0], PanelOf(u, 0))[m] \in DOMAIN pat.block
    BY <1>2, <2>2, CoordsInside
  <2>5. at[u].lb = 0 /\ at[u].k = 0
    BY <2>1
  <2>. QED  BY <2>1, <2>2, <2>3, <2>4, <2>5 DEF Coords
<1>. HIDE DEF coords
<1>4. /\ next' = [v \in Team |-> [m \in Operands |-> next'[v][m]]]
      /\ \A v \in Team \ {u} : next'[v] = next[v] /\ ptr'[v] = ptr[v]
      /\ ptr' \in [Team -> [Operands -> PointerRecord]]
      /\ \A m \in Operands :
            /\ next'[u][m] = [block |-> coords[m], local |-> IsLocalBlock(u, coords[m])]
            /\ ptr'[u][m].get = ptr[u][m].get /\ ptr'[u][m].get_bac = ptr[u][m].get_bac
            /\ IF IsLocalBlock(u, coords[m])
               THEN /\ ptr'[u][m].comp = Local_(pat.block[coords[m]].lpos.index)
                    /\ ptr'[u][m].comp_bac = ptr[u][m].comp
               ELSE ptr'[u][m].comp = ptr[u][m].comp /\ ptr'[u][m].comp_bac = None
  BY <1>1, <1>2, <1>3, FetchesComp
<1>5. \A r : r \in inflight' <=>
          \/ r \in inflight
          \/ \E m \in Operands : ~ IsLocalBlock(u, coords[m]) /\ r = Read(u, m, coords[m], ptr[u][m].comp)
  BY <1>1, <1>2, <1>3, FetchReads
<1>6. \A r \in inflight : r.unit # u
  BY <1>1, NothingUnderWay DEF Expecting
<1>7. TypeOK'
  <2>1. Fixed'
    BY <1>1, <1>2, BuffersKept
  <2>2. pc' \in [Team -> Phases]
    BY <1>1, <1>2 DEF TypeOK, Phases
  <2>. QED  BY <1>1, <1>2, <1>4, <2>1, <2>2, TypeKept DEF TypeOK
<1>8. pc'[u] = "first"
  BY <1>1, <1>2 DEF TypeOK
<1>9. Expecting(u)' /\ Expected(u)' = coords /\ \A m : Target(u, m)' = ptr'[u][m].comp
  BY <1>1, <1>3, <1>8, AtSame DEF Expecting, Expected, Target
<1>10. UnitInv(u)'
  <2>1. LoopInv(u)'
    BY <1>1, <1>3, <1>8 DEF LoopInv
  <2>2. ASSUME NEW m \in Operands PROVE PointersInv(u, m)' /\ ComingInv(u, m)' /\ ReadyInv(u, m)'
    <3>0. /\ next'[u][m] = [block |-> coords[m], local |-> IsLocalBlock(u, coords[m])]
          /\ ptr'[u][m].get = ptr[u][m].get /\ ptr'[u][m].get_bac = ptr[u][m].get_bac
          /\ IF IsLocalBlock(u, coords[m])
             THEN /\ ptr'[u][m].comp = Local_(pat.block[coords[m]].lpos.index)
                  /\ ptr'[u][m].comp_bac = ptr[u][m].comp
             ELSE ptr'[u][m].comp = ptr[u][m].comp /\ ptr'[u][m].comp_bac = None
      BY <1>4, Zenon
    <3>1. PICK i \in 0 .. 1 : ptr[u][m].get = Buffer(i) /\ ptr[u][m].comp = Buffer(1 - i) /\ ptr[u][m].get_bac = None
      <4>1. PointersInv(u, m)
        BY <1>2 DEF UnitInv
      <4>2. ptr[u][m].get_bac = None /\ ptr[u][m].comp_bac = None
        BY <1>1, <4>1 DEF PointersInv
      <4>3. PICK i \in 0 .. 1 : Owns(ptr[u][m].get, None, i) /\ Owns(ptr[u][m].comp, None, 1 - i)
        BY <4>1, <4>2 DEF PointersInv
      <4>4. 1 - i \in 0 .. 1
        OBVIOUS
      <4>. QED  BY <4>2, <4>3, <4>4, OwnsBuffer
    <3>2. 1 - i \in 0 .. 1
      OBVIOUS
    <3>3. PointersInv(u, m)'
      <4>1. Owns(ptr'[u][m].get, ptr'[u][m].get_bac, i)
        BY <3>0, <3>1, OwnsBuffer
      <4>2. Owns(ptr'[u][m].comp, ptr'[u][m].comp_bac, 1 - i)
        <5>1. CASE IsLocalBlock(u, coords[m])
          BY <3>0, <3>1, <5>1 DEF Owns, Local_
        <5>2. CASE ~ IsLocalBlock(u, coords[m])
          BY <3>0, <3>1, <5>2 DEF Owns
        <5>. QED  BY <5>1, <5>2
      <4>3. ptr'[u][m].get_bac = None
        BY <3>0, <3>1
      <4>. QED  BY <1>8, <4>1, <4>2, <4>3 DEF PointersInv
    <3>4. ComingInv(u, m)'
      <4>0. PICK b, t : b = coords[m] /\ t = ptr'[u][m].comp
        OBVIOUS
      <4>1. IsLocalBlock(u, b)' <=> IsLocalBlock(u, b)
        BY <1>1, TablesSame
      <4>2. next'[u][m] = [block |-> b, local |-> IsLocalBlock(u, b)']
        BY <1>1, <3>0, <4>0 DEF IsLocalBlock
      <4>3. ASSUME IsLocalBlock(u, b) PROVE ComingAt(u, m, b, t)'
        <5>1. t = Local_(pat'.block[b].lpos.index)
          BY <1>1, <3>0, <4>0, <4>3
        <5>. QED  BY <4>1, <4>2, <4>3, <5>1 DEF ComingAt, Local_
      <4>4. ASSUME ~ IsLocalBlock(u, b) PROVE ComingAt(u, m, b, t)'
        <5>1. t.kind = "buffer"
          BY <3>0, <3>1, <3>2, <4>0, <4>4, OwnsBuffer
        <5>2. \E r \in inflight' : r.unit = u /\ r.mat = m
          <6>1. Read(u, m, b, ptr[u][m].comp) \in inflight'
            BY <1>5, <4>0, <4>4
          <6>. QED  BY <6>1 DEF Read
        <5>. QED  BY <4>1, <4>2, <4>4, <5>1, <5>2 DEF ComingAt
      <4>5. ComingAt(u, m, b, t)'
        BY <4>3, <4>4
      <4>. QED  BY <1>9, <4>0, <4>5, ComingNow
    <3>5. ReadyInv(u, m)'
      BY <1>8 DEF ReadyInv
    <3>. QED  BY <3>3, <3>4, <3>5
  <2>. QED  BY <2>1, <2>2 DEF UnitInv
<1>11. ASSUME NEW r \in inflight', r.unit = u PROVE ReadInv(r)'
  <2>1. PICK m \in Operands : ~ IsLocalBlock(u, coords[m]) /\ r = Read(u, m, coords[m], ptr[u][m].comp)
    BY <1>5, <1>6, <1>11
  <2>2. ~ next'[u][m].local /\ ptr'[u][m].comp = ptr[u][m].comp
    <3>1. /\ next'[u][m] = [block |-> coords[m], local |-> IsLocalBlock(u, coords[m])]
          /\ IF IsLocalBlock(u, coords[m])
             THEN /\ ptr'[u][m].comp = Local_(pat.block[coords[m]].lpos.index)
                  /\ ptr'[u][m].comp_bac = ptr[u][m].comp
             ELSE ptr'[u][m].comp = ptr[u][m].comp /\ ptr'[u][m].comp_bac = None
      BY <1>4, Zenon
    <3>. QED  BY <2>1, <3>1
  <2>. QED  BY <1>1, <1>9, <2>1, <2>2, ReadNow
<1>12. \A r : r.unit # u => (r \in inflight' <=> r \in inflight)
  BY <1>5 DEF Read
<1>13. \A v \in Team \ {u} : /\ SameUnit(v) /\ buffer'[v] = buffer[v]
                             /\ \A m \in Operands : mem'[m][v] = mem[m][v]
  BY <1>1, <1>2, <1>4 DEF SameUnit, TypeOK
<1>. QED  BY <1>1, <1>7, <1>10, <1>11, <1>12, <1>13, OneMoves

\* The pointers of a unit that keeps them.
LEMMA PointersSame ==
    ASSUME NEW u, NEW m, ptr'[u] = ptr[u], PointersInv(u, m),
           pc'[u] \in {"begin", "first", "prefetch"} => ptr[u][m].get_bac = None,
           pc'[u] \in {"begin", "await"} => ptr[u][m].comp_bac = None
    PROVE  PointersInv(u, m)'
BY DEF PointersInv

\* Blocks that are there are there for the next phase too.
LEMMA ReadyKept ==
    ASSUME pat' = pat, NEW u, NEW m, NEW b, NEW t,
           buffer'[u] = buffer[u], mem'[m][u] = mem[m][u], Contents(u, m, t) = BlockData(m, b),
           Coords(u)'[m] = b, ptr'[u][m].comp = t
    PROVE  ReadyInv(u, m)'
<1>1. Contents(u, m, t)' = Contents(u, m, t)
  BY ContentsSame
<1>2. BlockData(m, b)' = BlockData(m, b)
  BY TablesSame
<1>. QED  BY <1>1, <1>2, ReadyNow

\* When the first wait ends, the blocks of the first iteration are there.
LEMMA AwaitFirstKeeps ==
    ASSUME SummaInv, NEW u \in Team, AwaitFirst(u)
    PROVE  SummaInv'
<1>1. /\ pc[u] = "first" /\ Received(u) /\ pc' = [pc EXCEPT ![u] = "prefetch"]
      /\ pat' = pat /\ UNCHANGED <<mem, buffer>>
      /\ ptr' = ptr /\ next' = next /\ inflight' = inflight /\ at' = at
  BY DEF AwaitFirst
<1>2. TypeOK /\ Fixed /\ UnitInv(u)
  BY DEF SummaInv, TypeOK
<1>3. \A r \in inflight : r.unit # u
  BY <1>1, ReceivedAll
<1>4. pc'[u] = "prefetch"
  BY <1>1, <1>2 DEF TypeOK
<1>5. TypeOK'
  <2>1. Fixed'
    BY <1>1, <1>2, BuffersKept
  <2>2. pc' \in [Team -> Phases]
    BY <1>1, <1>2 DEF TypeOK, Phases
  <2>. QED  BY <1>1, <1>2, <2>1, <2>2, TypeKept DEF TypeOK, PointerRecord
<1>6. Coords(u)' = Coords(u)
  BY <1>1, AtSame
<1>7. UnitInv(u)'
  <2>1. LoopInv(u)'
    BY <1>4 DEF LoopInv
  <2>2. ASSUME NEW m \in Operands PROVE PointersInv(u, m)' /\ ComingInv(u, m)' /\ ReadyInv(u, m)'
    <3>1. PointersInv(u, m)'
      <4>1. PointersInv(u, m)
        BY <1>2 DEF UnitInv
      <4>2. ptr[u][m].get_bac = None
        BY <1>1, <4>1 DEF PointersInv
      <4>. QED  BY <1>1, <1>4, <4>1, <4>2, PointersSame
    <3>2. ComingInv(u, m)'
      BY <1>4 DEF ComingInv, Expecting
    <3>3. ReadyInv(u, m)'
      <4>0. PICK b, t : b = Coords(u)[m] /\ t = ptr[u][m].comp
        OBVIOUS
      <4>1. Expecting(u) /\ Expected(u) = Coords(u) /\ Target(u, m) = t
        BY <1>1, <4>0 DEF Expecting, Expected, Target
      <4>2. b \in DOMAIN pat.block
        BY <1>2, <4>0, CoordsInside DEF TypeOK, Coords
      <4>3. Contents(u, m, t) = BlockData(m, b)
        BY <1>1, <4>0, <4>1, <4>2, Arrived
      <4>. QED  BY <1>1, <1>6, <4>0, <4>3, ReadyKept
    <3>. QED  BY <3>1, <3>2, <3>3
  <2>. QED  BY <2>1, <2>2 DEF UnitInv
<1>8. \A v \in Team \ {u} : /\ SameUnit(v) /\ buffer'[v] = buffer[v]
                            /\ \A m \in Operands : mem'[m][v] = mem[m][v]
  BY <1>1, <1>2 DEF SameUnit, TypeOK
<1>. QED  BY <1>1, <1>3, <1>5, <1>7, <1>8, OneMoves

\* A fetch for the next iteration leaves the blocks of this one alone.
LEMMA PrefetchKeeps ==
    ASSUME SummaInv, NEW u \in Team, Prefetch(u)
    PROVE  SummaInv'
<1>1. /\ pc[u] = "prefetch" /\ pc' = [pc EXCEPT ![u] = "multiply"]
      /\ pat' = pat /\ UNCHANGED <<mem, buffer>> /\ at' = at
  BY DEF Prefetch
<1>2. TypeOK /\ Fixed /\ UnitInv(u)
  BY DEF SummaInv, TypeOK
<1>3. \A r \in inflight : r.unit # u
  BY <1>1, NothingUnderWay DEF Expecting
<1>4. pc'[u] = "multiply"
  BY <1>1, <1>2 DEF TypeOK
<1>5. Coords(u)' = Coords(u) /\ NextCoords(u)' = NextCoords(u) /\ (LastBlock(u)' <=> LastBlock(u))
  BY <1>1, AtSame
<1>6. Fixed' /\ pc' \in [Team -> Phases]
  BY <1>1, <1>2, BuffersKept DEF TypeOK, Phases
<1>7. LoopInv(u)'
  BY <1>4 DEF LoopInv
<1>8. ASSUME NEW m \in Operands
      PROVE  /\ PointersInv(u, m) /\ ptr[u][m].get_bac = None
             /\ Contents(u, m, ptr[u][m].comp) = BlockData(m, Coords(u)[m])
  <2>1. PointersInv(u, m) /\ ReadyInv(u, m)
    BY <1>2 DEF UnitInv
  <2>. QED  BY <1>1, <2>1 DEF PointersInv, ReadyInv
<1>9. ASSUME NEW m \in Operands, ptr'[u][m].comp = ptr[u][m].comp PROVE ReadyInv(u, m)'
  <2>0. PICK b, t : b = Coords(u)[m] /\ t = ptr[u][m].comp
    OBVIOUS
  <2>1. Contents(u, m, t) = BlockData(m, b)
    BY <1>8, <2>0
  <2>. QED  BY <1>1, <1>5, <1>9, <2>0, <2>1, ReadyKept
<1>10. CASE LastBlock(u)
  <2>1. ptr' = ptr /\ next' = next /\ inflight' = inflight
    BY <1>10 DEF Prefetch
  <2>2. TypeOK'
    BY <1>1, <1>2, <1>6, <2>1, TypeKept DEF TypeOK, PointerRecord
  <2>3. ASSUME NEW m \in Operands PROVE PointersInv(u, m)' /\ ComingInv(u, m)' /\ ReadyInv(u, m)'
    <3>1. PointersInv(u, m)'
      BY <1>4, <1>8, <2>1, PointersSame
    <3>2. ComingInv(u, m)'
      BY <1>4, <1>5, <1>10 DEF ComingInv, Expecting
    <3>. QED  BY <1>9, <2>1, <3>1, <3>2
  <2>4. UnitInv(u)'
    BY <1>7, <2>3 DEF UnitInv
  <2>5. \A v \in Team \ {u} : /\ SameUnit(v) /\ buffer'[v] = buffer[v]
                              /\ \A m \in Operands : mem'[m][v] = mem[m][v]
    BY <1>1, <1>2, <2>1 DEF SameUnit, TypeOK
  <2>. QED  BY <1>1, <1>3, <2>1, <2>2, <2>4, <2>5, OneMoves
<1>11. CASE ~ LastBlock(u)
  <2>0. PICK coords : coords = NextCoords(u)
    OBVIOUS
  <2>1. FetchInto(u, coords, "get", "get_bac")
    <3>1. PanelOf(u, 0) = pat.column[u]
      BY <1>2, PanelBounds
    <3>2. coords = CoordsFor(pat.cblock[u][IF at[u].k = num_blocks_m - 1 THEN at[u].lb + 1 ELSE at[u].lb],
                             IF at[u].k = num_blocks_m - 1 THEN pat.column[u] ELSE PanelOf(u, at[u].k + 1))
      BY <2>0, <3>1 DEF NextCoords
    <3>. QED  BY <1>11, <3>2 DEF Prefetch
  <2>2. \A m \in Operands : coords[m] \in DOMAIN pat.block
    BY <1>2, <1>11, <2>0, NextInside
  <2>3. /\ next' = [v \in Team |-> [m \in Operands |-> next'[v][m]]]
        /\ \A v \in Team \ {u} : next'[v] = next[v] /\ ptr'[v] = ptr[v]
        /\ ptr' \in [Team -> [Operands -> PointerRecord]]
        /\ \A m \in Operands :
              /\ next'[u][m] = [block |-> coords[m], local |-> IsLocalBlock(u, coords[m])]
              /\ ptr'[u][m].comp = ptr[u][m].comp /\ ptr'[u][m].comp_bac = ptr[u][m].comp_bac
              /\ IF IsLocalBlock(u, coords[m])
                 THEN /\ ptr'[u][m].get = Local_(pat.block[coords[m]].lpos.index)
                      /\ ptr'[u][m].get_bac = ptr[u][m].get
                 ELSE ptr'[u][m].get = ptr[u][m].get /\ ptr'[u][m].get_bac = None
    BY <1>2, <2>1, <2>2, FetchesGet
  <2>4. \A r : r \in inflight' <=>
            \/ r \in inflight
            \/ \E m \in Operands : ~ IsLocalBlock(u, coords[m]) /\ r = Read(u, m, coords[m], ptr[u][m].get)
    BY <1>2, <2>1, <2>2, FetchReads
  <2>5. TypeOK'
    BY <1>1, <1>2, <1>6, <2>3, TypeKept DEF TypeOK
  <2>6. Expecting(u)' /\ Expected(u)' = coords /\ \A m : Target(u, m)' = ptr'[u][m].get
    BY <1>4, <1>5, <1>11, <2>0 DEF Expecting, Expected, Target
  <2>7. ASSUME NEW m \in Operands PROVE PointersInv(u, m)' /\ ComingInv(u, m)' /\ ReadyInv(u, m)'
    <3>0. /\ next'[u][m] = [block |-> coords[m], local |-> IsLocalBlock(u, coords[m])]
          /\ ptr'[u][m].comp = ptr[u][m].comp /\ ptr'[u][m].comp_bac = ptr[u][m].comp_bac
          /\ IF IsLocalBlock(u, coords[m])
             THEN /\ ptr'[u][m].get = Local_(pat.block[coords[m]].lpos.index)
                  /\ ptr'[u][m].get_bac = ptr[u][m].get
             ELSE ptr'[u][m].get = ptr[u][m].get /\ ptr'[u][m].get_bac = None
      BY <2>3, Zenon
    <3>1. PICK i \in 0 .. 1 : ptr[u][m].get = Buffer(i) /\ Owns(ptr[u][m].comp, ptr[u][m].comp_bac, 1 - i)
      <4>1. PICK i \in 0 .. 1 : /\ Owns(ptr[u][m].get, None, i)
                                /\ Owns(ptr[u][m].comp, ptr[u][m].comp_bac, 1 - i)
        BY <1>8 DEF PointersInv
      <4>. QED  BY <4>1, OwnsBuffer
    <3>2. PointersInv(u, m)'
      <4>1. Owns(ptr'[u][m].comp, ptr'[u][m].comp_bac, 1 - i)
        BY <3>0, <3>1
      <4>2. Owns(ptr'[u][m].get, ptr'[u][m].get_bac, i)
        <5>1. CASE IsLocalBlock(u, coords[m])
          BY <3>0, <3>1, <5>1 DEF Owns, Local_
        <5>2. CASE ~ IsLocalBlock(u, coords[m])
          BY <3>0, <3>1, <5>2 DEF Owns
        <5>. QED  BY <5>1, <5>2
      <4>. QED  BY <1>4, <4>1, <4>2 DEF PointersInv
    <3>3. ComingInv(u, m)'
      <4>0. PICK b, t : b = coords[m] /\ t = ptr'[u][m].get
        OBVIOUS
      <4>1. IsLocalBlock(u, b)' <=> IsLocalBlock(u, b)
        BY <1>1, TablesSame
      <4>2. next'[u][m] = [block |-> b, local |-> IsLocalBlock(u, b)']
        BY <1>1, <3>0, <4>0 DEF IsLocalBlock
      <4>3. ASSUME IsLocalBlock(u, b) PROVE ComingAt(u, m, b, t)'
        <5>1. t = Local_(pat'.block[b].lpos.index)
          BY <1>1, <3>0, <4>0, <4>3
        <5>. QED  BY <4>1, <4>2, <4>3, <5>1 DEF ComingAt, Local_
      <4>4. ASSUME ~ IsLocalBlock(u, b) PROVE ComingAt(u, m, b, t)'
        <5>1. t.kind = "buffer"
          BY <3>0, <3>1, <4>0, <4>4, OwnsBuffer
        <5>2. \E r \in inflight' : r.unit = u /\ r.mat = m
          <6>1. Read(u, m, b, ptr[u][m].get) \in inflight'
            BY <2>4, <4>0, <4>4
          <6>. QED  BY <6>1 DEF Read
        <5>. QED  BY <4>1, <4>2, <4>4, <5>1, <5>2 DEF ComingAt
      <4>5. ComingAt(u, m, b, t)'
        BY <4>3, <4>4
      <4>. QED  BY <2>6, <4>0, <4>5, ComingNow
    <3>4. ReadyInv(u, m)'
      BY <1>9, <3>0
    <3>. QED  BY <3>2, <3>3, <3>4
  <2>8. UnitInv(u)'
    BY <1>7, <2>7 DEF UnitInv
  <2>9. ASSUME NEW r \in inflight', r.unit = u PROVE ReadInv(r)'
    <3>1. PICK m \in Operands : ~ IsLocalBlock(u, coords[m]) /\ r = Read(u, m, coords[m], ptr[u][m].get)
      BY <1>3, <2>4, <2>9
    <3>2. ~ next'[u][m].local /\ ptr'[u][m].get = ptr[u][m].get
      <4>1. /\ next'[u][m] = [block |-> coords[m], local |-> IsLocalBlock(u, coords[m])]
            /\ IF IsLocalBlock(u, coords[m])
               THEN /\ ptr'[u][m].get = Local_(pat.block[coords[m]].lpos.index)
                    /\ ptr'[u][m].get_bac = ptr[u][m].get
               ELSE ptr'[u][m].get = ptr[u][m].get /\ ptr'[u][m].get_bac = None
        BY <2>3, Zenon
      <4>. QED  BY <3>1, <4>1
    <3>. QED  BY <1>1, <2>6, <3>1, <3>2, ReadNow
  <2>10. \A r : r.unit # u => (r \in inflight' <=> r \in inflight)
    BY <2>4 DEF Read
  <2>11. \A v \in Team \ {u} : /\ SameUnit(v) /\ buffer'[v] = buffer[v]
                               /\ \A m \in Operands : mem'[m][v] = mem[m][v]
    BY <1>1, <1>2, <2>3 DEF SameUnit, TypeOK
  <2>. QED  BY <1>1, <2>5, <2>8, <2>9, <2>10, <2>11, OneMoves
<1>. QED  BY <1>10, <1>11

\* Leaving, a unit has no read under way.
LEMMA LeaveKeeps ==
    ASSUME SummaInv, NEW u \in Team, Leave(u)
    PROVE  SummaInv'
<1>1. /\ pc[u] = "barrier" /\ pc' = [pc EXCEPT ![u] = "done"]
      /\ pat' = pat /\ UNCHANGED <<mem, buffer>>
      /\ ptr' = ptr /\ next' = next /\ inflight' = inflight /\ at' = at
  BY DEF Leave
<1>2. TypeOK /\ Fixed /\ UnitInv(u)
  BY DEF SummaInv, TypeOK
<1>3. \A r \in inflight : r.unit # u
  BY <1>1, NothingUnderWay DEF Expecting
<1>4. pc'[u] = "done"
  BY <1>1, <1>2 DEF TypeOK
<1>5. TypeOK'
  <2>1. Fixed'
    BY <1>1, <1>2, BuffersKept
  <2>2. pc' \in [Team -> Phases]
    BY <1>1, <1>2 DEF TypeOK, Phases
  <2>. QED  BY <1>1, <1>2, <2>1, <2>2, TypeKept DEF TypeOK, PointerRecord
<1>6. UnitInv(u)'
  <2>1. \A m \in Operands : PointersInv(u, m)
    BY <1>2 DEF UnitInv
  <2>2. \A m \in Operands : PointersInv(u, m)'
    BY <1>1, <1>4, <2>1, PointersSame
  <2>. QED  BY <1>4, <2>2 DEF UnitInv, LoopInv, ComingInv, Expecting, ReadyInv
<1>7. \A v \in Team \ {u} : /\ SameUnit(v) /\ buffer'[v] = buffer[v]
                            /\ \A m \in Operands : mem'[m][v] = mem[m][v]
  BY <1>1, <1>2 DEF SameUnit, TypeOK
<1>. QED  BY <1>1, <1>3, <1>5, <1>6, <1>7, OneMoves

\* Multiplying, a unit writes to its part of C only, and takes its buffers back.
LEMMA MultiplyKeeps ==
    ASSUME SummaInv, NEW u \in Team, Multiply(u)
    PROVE  SummaInv'
<1>1. /\ pc[u] = "multiply" /\ pat' = pat /\ buffer' = buffer
      /\ next' = next /\ inflight' = inflight /\ at' = at
      /\ pc' = [pc EXCEPT ![u] = IF LastBlock(u) THEN "barrier" ELSE "await"]
      /\ ptr' = [ptr EXCEPT ![u] = [m \in Operands |-> Restored(@[m])]]
  BY DEF Multiply
<1>2. TypeOK /\ Fixed /\ UnitInv(u)
  BY DEF SummaInv, TypeOK
<1>3. pc'[u] = IF LastBlock(u) THEN "barrier" ELSE "await"
  BY <1>1, <1>2 DEF TypeOK
<1>4. /\ mem' = [m \in {"A", "B", "C"} |-> mem'[m]]
      /\ \A m \in Operands : mem'[m] = mem[m]
  <2>1. PICK e : mem' = [mem EXCEPT !["C"][u] = e]
    BY DEF Multiply
  <2>2. mem = [m \in {"A", "B", "C"} |-> mem[m]]
    BY <1>2 DEF Fixed
  <2>3. mem' = [mem EXCEPT !["C"] = [mem["C"] EXCEPT ![u] = e]]
    BY <2>1
  <2>. QED  BY <2>2, <2>3 DEF Operands
<1>5. Fixed'
  <2>1. pat' = pat /\ Team' = Team /\ BlockElems' = BlockElems
    BY <1>1, TablesSame
  <2>2. \A m : MemoryOf(m)' = MemoryOf(m)
    BY <2>1 DEF MemoryOf
  <2>3. \A m \in Operands : mem'[m] = MemoryOf(m)'
    BY <1>2, <1>4, <2>2 DEF Fixed
  <2>4. buffer' = [v \in Team' |-> [m \in Operands |-> [i \in 0 .. 1 |->
                    [x \in 0 .. BlockElems' - 1 |-> buffer'[v][m][i][x]]]]]
    BY <1>1, <1>2, <2>1 DEF Fixed
  <2>. QED  BY <1>2, <1>4, <2>1, <2>3, <2>4 DEF Fixed
<1>6. /\ \A v \in Team \ {u} : ptr'[v] = ptr[v]
      /\ ptr'[u] = [m \in Operands |-> Restored(ptr[u][m])]
      /\ ptr \in [Team -> [Operands -> PointerRecord]]
  BY <1>1, <1>2 DEF TypeOK, PointerRecord
<1>7. ASSUME NEW m \in Operands
      PROVE  /\ Restored(ptr[u][m]) \in PointerRecord
             /\ ptr'[u][m].get = ptr[u][m].get /\ ptr'[u][m].get_bac = ptr[u][m].get_bac
             /\ ptr'[u][m].comp_bac = None
             /\ ptr'[u][m].comp = IF ptr[u][m].comp_bac = None THEN ptr[u][m].comp ELSE ptr[u][m].comp_bac
  <2>1. ptr[u][m] \in PointerRecord /\ ptr'[u][m] = Restored(ptr[u][m])
    BY <1>6
  <2>2. ptr[u][m].comp_bac = None \/ ptr[u][m].comp_bac \in Pointers
    BY <2>1 DEF PointerRecord
  <2>. HIDE DEF Pointers
  <2>. QED  BY <2>1, <2>2 DEF Restored, PointerRecord
<1>8. ptr' \in [Team -> [Operands -> PointerRecord]]
  BY <1>1, <1>6, <1>7
<1>9. TypeOK'
  <2>1. pc' \in [Team -> Phases]
    BY <1>1, <1>2 DEF TypeOK, Phases
  <2>. QED  BY <1>1, <1>2, <1>5, <1>8, <2>1, TypeKept DEF TypeOK
<1>10. NextCoords(u)' = NextCoords(u) /\ (LastBlock(u)' <=> LastBlock(u))
  BY <1>1, AtSame
<1>11. Expecting(u)' => /\ ~ LastBlock(u) /\ Expecting(u) /\ Expected(u)' = NextCoords(u) /\ Expected(u) = NextCoords(u)
                        /\ \A m \in Operands : Target(u, m)' = ptr[u][m].get /\ Target(u, m) = ptr[u][m].get
  BY <1>1, <1>3, <1>7, <1>10 DEF Expecting, Expected, Target
<1>12. Expecting(u) => Expecting(u)'
  BY <1>1, <1>3 DEF Expecting
<1>13. UnitInv(u)'
  <2>1. LoopInv(u)'
    BY <1>3, <1>10 DEF LoopInv
  <2>2. ASSUME NEW m \in Operands PROVE PointersInv(u, m)' /\ ComingInv(u, m)' /\ ReadyInv(u, m)'
    <3>1. PointersInv(u, m)'
      <4>1. PICK i \in 0 .. 1 : /\ Owns(ptr[u][m].get, ptr[u][m].get_bac, i)
                                /\ Owns(ptr[u][m].comp, ptr[u][m].comp_bac, 1 - i)
        BY <1>2 DEF UnitInv, PointersInv
      <4>2. 1 - i \in 0 .. 1
        OBVIOUS
      <4>3. Owns(ptr'[u][m].get, ptr'[u][m].get_bac, i)
        BY <1>7, <4>1
      <4>4. Owns(ptr'[u][m].comp, None, 1 - i)
        BY <1>7, <4>1, <4>2, OwnsBuffer DEF Owns
      <4>5. ptr'[u][m].comp_bac = None
        BY <1>7
      <4>. QED  BY <1>3, <4>3, <4>4, <4>5 DEF PointersInv
    <3>2. ComingInv(u, m)'
      <4>0. PICK b, t : b = NextCoords(u)[m] /\ t = ptr[u][m].get
        OBVIOUS
      <4>1. ASSUME Expecting(u)' PROVE Expected(u)'[m] = b /\ Target(u, m)' = t /\ ComingAt(u, m, b, t)'
        <5>1. Expected(u) = NextCoords(u) /\ Target(u, m) = t /\ Expecting(u) /\ Expected(u)' = NextCoords(u) /\ Target(u, m)' = t
          BY <1>11, <4>0, <4>1
        <5>2. ComingInv(u, m)
          BY <1>2 DEF UnitInv
        <5>3. ComingAt(u, m, b, t)
          BY <4>0, <5>1, <5>2 DEF ComingInv, ComingAt
        <5>4. /\ IsLocalBlock(u, b)' <=> IsLocalBlock(u, b)
              /\ BlockData(m, b)' = BlockData(m, b)
              /\ Contents(u, m, t)' = Contents(u, m, t)
              /\ pat' = pat
          BY <1>1, <1>4, TablesSame, ContentsSame
        <5>5. next'[u][m] = [block |-> b, local |-> IsLocalBlock(u, b)']
          BY <1>1, <5>3, <5>4 DEF ComingAt, IsLocalBlock
        <5>6. ComingAt(u, m, b, t)'
          BY <1>1, <5>3, <5>4, <5>5 DEF ComingAt, Local_
        <5>. QED  BY <4>0, <5>1, <5>6
      <4>. QED  BY <4>1, ComingNow
    <3>3. ReadyInv(u, m)'
      BY <1>3 DEF ReadyInv
    <3>. QED  BY <3>1, <3>2, <3>3
  <2>. QED  BY <2>1, <2>2 DEF UnitInv
<1>14. ASSUME NEW r \in inflight', r.unit = u PROVE ReadInv(r)'
  <2>1. ReadInv(r)
    BY <1>1, <1>14 DEF SummaInv
  <2>2. PICK m \in Operands : m = r.mat
    BY <2>1 DEF ReadInv
  <2>3. PICK b, t : b = NextCoords(u)[m] /\ t = ptr[u][m].get
    OBVIOUS
  <2>4. Expecting(u)' /\ Expected(u)'[m] = b /\ Target(u, m)' = t /\ Expected(u)[m] = b /\ Target(u, m) = t
    BY <1>11, <1>12, <1>14, <2>1, <2>3 DEF ReadInv
  <2>5. r = Read(u, m, b, t) /\ ~ next'[u][m].local
    BY <1>1, <1>14, <2>1, <2>2, <2>4 DEF ReadInv, Read
  <2>. QED  BY <1>1, <2>4, <2>5, ReadNow
<1>15. \A v \in Team \ {u} : /\ SameUnit(v) /\ buffer'[v] = buffer[v]
                             /\ \A m \in Operands : mem'[m][v] = mem[m][v]
  BY <1>1, <1>2, <1>4, <1>6 DEF SameUnit, TypeOK
<1>. QED  BY <1>1, <1>9, <1>13, <1>14, <1>15, OneMoves

\* When the wait ends, what was fetched is what comp points to next.
LEMMA AwaitNextKeeps ==
    ASSUME SummaInv, NEW u \in Team, AwaitNext(u)
    PROVE  SummaInv'
<1>. DEFINE q(m) == [get |-> ptr[u][m].comp, comp |-> ptr[u][m].get, get_bac |-> None,
                     comp_bac |-> IF ptr[u][m].get_bac = None THEN ptr[u][m].comp_bac ELSE ptr[u][m].get_bac]
<1>1. /\ pc[u] = "await" /\ Received(u) /\ pat' = pat /\ UNCHANGED <<mem, buffer>>
      /\ next' = next /\ inflight' = inflight /\ pc' = [pc EXCEPT ![u] = "prefetch"]
      /\ ptr' = [ptr EXCEPT ![u] = [m \in Operands |-> q(m)]]
      /\ at' = [at EXCEPT ![u] = NextAt(at[u])]
  BY DEF AwaitNext, NextAt
<1>2. TypeOK /\ Fixed /\ UnitInv(u)
  BY DEF SummaInv, TypeOK
<1>3. \A r \in inflight : r.unit # u
  BY <1>1, ReceivedAll
<1>4. ~ LastBlock(u)
  BY <1>1, <1>2 DEF UnitInv, LoopInv
<1>5. pc'[u] = "prefetch" /\ at'[u] = NextAt(at[u])
  BY <1>1, <1>2 DEF TypeOK
<1>6. ptr \in [Team -> [Operands -> PointerRecord]]
  BY <1>2 DEF TypeOK, PointerRecord
<1>7. ASSUME NEW m \in Operands
      PROVE  /\ q(m) \in PointerRecord /\ q(m).get = ptr[u][m].comp /\ q(m).comp = ptr[u][m].get
             /\ q(m).get_bac = None /\ q(m).comp_bac = ptr[u][m].get_bac /\ ptr[u][m].comp_bac = None
  <2>1. ptr[u][m].comp_bac = None
    BY <1>1, <1>2 DEF UnitInv, PointersInv
  <2>2. ptr[u][m] \in PointerRecord
    BY <1>6
  <2>. HIDE DEF Pointers
  <2>. QED  BY <2>1, <2>2 DEF PointerRecord
<1>. HIDE DEF q
<1>8. /\ \A v \in Team \ {u} : ptr'[v] = ptr[v] /\ at'[v] = at[v] /\ pc'[v] = pc[v]
      /\ ptr'[u] = [m \in Operands |-> q(m)]
      /\ ptr' \in [Team -> [Operands -> PointerRecord]]
  BY <1>1, <1>2, <1>6, <1>7 DEF TypeOK
<1>9. TypeOK'
  <2>1. Fixed'
    BY <1>1, <1>2, BuffersKept
  <2>2. pc' \in [Team -> Phases]
    BY <1>1, <1>2 DEF TypeOK, Phases
  <2>3. NextAt(at[u]) \in [lb : Nat, k : 0 .. num_blocks_m - 1] /\ NextAt(at[u]).lb \in DOMAIN pat.cblock[u]
    BY <1>2, <1>4, NextInside
  <2>. HIDE DEF NextAt
  <2>4. at' \in [Team -> [lb : Nat, k : 0 .. num_blocks_m - 1]]
    BY <1>1, <1>2, <2>3 DEF TypeOK
  <2>5. \A v \in Team : at'[v].lb \in DOMAIN pat.cblock[v]
    BY <1>5, <1>8, <1>2, <2>3 DEF TypeOK
  <2>. QED  BY <1>1, <1>2, <1>8, <2>1, <2>2, <2>4, <2>5, TypeKept DEF TypeOK
<1>10. Coords(u)' = NextCoords(u)
  <2>1. NextCoords(u) = CoordsFor(pat.cblock[u][NextAt(at[u]).lb], PanelOf(u, NextAt(at[u]).k))
    BY <1>2, <1>4, NextInside
  <2>2. pat' = pat /\ num_blocks_m' = num_blocks_m
    BY <1>1, TablesSame
  <2>. QED  BY <1>5, <2>1, <2>2 DEF Coords, PanelOf
<1>11. UnitInv(u)'
  <2>1. LoopInv(u)'
    BY <1>5 DEF LoopInv
  <2>2. ASSUME NEW m \in Operands PROVE PointersInv(u, m)' /\ ComingInv(u, m)' /\ ReadyInv(u, m)'
    <3>0. /\ ptr'[u][m].get = ptr[u][m].comp /\ ptr'[u][m].comp = ptr[u][m].get
          /\ ptr'[u][m].get_bac = None /\ ptr'[u][m].comp_bac = ptr[u][m].get_bac /\ ptr[u][m].comp_bac = None
      BY <1>7, <1>8
    <3>1. PointersInv(u, m)'
      <4>1. PICK i \in 0 .. 1 : /\ Owns(ptr[u][m].get, ptr[u][m].get_bac, i)
                                /\ Owns(ptr[u][m].comp, ptr[u][m].comp_bac, 1 - i)
        BY <1>2 DEF UnitInv, PointersInv
      <4>2. PICK j \in 0 .. 1 : j = 1 - i /\ i = 1 - j
        OBVIOUS
      <4>3. Owns(ptr'[u][m].get, ptr'[u][m].get_bac, j) /\ Owns(ptr'[u][m].comp, ptr'[u][m].comp_bac, 1 - j)
        BY <3>0, <4>1, <4>2
      <4>. QED  BY <1>5, <3>0, <4>3 DEF PointersInv
    <3>2. ComingInv(u, m)'
      BY <1>5 DEF ComingInv, Expecting
    <3>3. ReadyInv(u, m)'
      <4>0. PICK b, t : b = NextCoords(u)[m] /\ t = ptr[u][m].get
        OBVIOUS
      <4>1. Expecting(u) /\ Expected(u) = NextCoords(u) /\ Target(u, m) = t
        BY <1>1, <4>0 DEF Expecting, Expected, Target
      <4>2. b \in DOMAIN pat.block
        BY <1>2, <1>4, <4>0, NextInside
      <4>3. Contents(u, m, t) = BlockData(m, b)
        BY <1>1, <4>0, <4>1, <4>2, Arrived
      <4>. QED  BY <1>1, <1>10, <3>0, <4>0, <4>3, ReadyKept
    <3>. QED  BY <3>1, <3>2, <3>3
  <2>. QED  BY <2>1, <2>2 DEF UnitInv
<1>12. \A v \in Team \ {u} : /\ SameUnit(v) /\ buffer'[v] = buffer[v]
                             /\ \A m \in Operands : mem'[m][v] = mem[m][v]
  BY <1>1, <1>8 DEF SameUnit
<1>. QED  BY <1>1, <1>3, <1>9, <1>11, <1>12, OneMoves

----------------------------------------------------------------------------
\* The end of a read.

\* A read goes to a buffer that comp does not lead to while it multiplies.
LEMMA ReadsGoToBuffers ==
    ASSUME SummaInv, NEW r \in inflight
    PROVE  /\ r.unit \in Team /\ r.mat \in Operands /\ ReadInv(r) /\ Expecting(r.unit)
           /\ ~ IsLocalBlock(r.unit, Expected(r.unit)[r.mat])
           /\ \E j \in 0 .. 1 : r.dest = Buffer(j)
           /\ r.dest = Target(r.unit, r.mat) /\ r.dest.kind = "buffer"
           /\ pc[r.unit] # "first" => ptr[r.unit][r.mat].comp # r.dest
<1>. DEFINE u == r.unit
            m == r.mat
<1>1. ReadInv(r)
  BY DEF SummaInv
<1>2. u \in Team /\ m \in Operands /\ Expecting(u) /\ ~ next[u][m].local /\ r.dest = Target(u, m)
  BY <1>1 DEF ReadInv
<1>. HIDE DEF u, m
<1>3. ComingInv(u, m) /\ PointersInv(u, m)
  BY <1>2 DEF SummaInv, UnitInv
<1>4. ~ IsLocalBlock(u, Expected(u)[m])
  BY <1>2, <1>3 DEF ComingInv
<1>5. Target(u, m).kind = "buffer"
  BY <1>2, <1>3, <1>4 DEF ComingInv
<1>6. PICK i \in 0 .. 1 : Owns(ptr[u][m].get, ptr[u][m].get_bac, i) /\ Owns(ptr[u][m].comp, ptr[u][m].comp_bac, 1 - i)
  BY <1>3 DEF PointersInv
<1>7. 1 - i \in 0 .. 1 /\ i # 1 - i
  OBVIOUS
<1>8. CASE pc[u] = "first"
  <2>1. Target(u, m) = ptr[u][m].comp
    BY <1>8 DEF Target
  <2>2. Target(u, m) = Buffer(1 - i)
    BY <1>5, <1>6, <1>7, <2>1, OwnsBuffer
  <2>. QED  BY <1>1, <1>2, <1>4, <1>5, <1>7, <1>8, <2>2 DEF u, m
<1>9. CASE pc[u] # "first"
  <2>1. Target(u, m) = ptr[u][m].get
    BY <1>9 DEF Target
  <2>2. Target(u, m) = Buffer(i)
    BY <1>5, <1>6, <2>1, OwnsBuffer
  <2>3. ptr[u][m].comp # Buffer(i)
    <3>1. SUFFICES ASSUME ptr[u][m].comp = Buffer(i) PROVE FALSE
      OBVIOUS
    <3>2. Buffer(i) = Buffer(1 - i)
      BY <1>6, <1>7, <3>1, OwnsBuffer
    <3>. QED  BY <1>7, <3>2, OwnsBuffer
  <2>. QED  BY <1>1, <1>2, <1>4, <1>5, <2>2, <2>3 DEF u, m
<1>. QED  BY <1>8, <1>9

\* What a read was started for, when it ends.
LEMMA ReadData ==
    ASSUME SummaInv, NEW r \in inflight, Arrive(r), NEW j \in 0 .. 1, r.dest = Buffer(j)
    PROVE  /\ pat' = pat /\ mem' = mem /\ ptr' = ptr /\ next' = next /\ pc' = pc /\ at' = at
           /\ inflight' = inflight \ {r}
           /\ Fixed'
           /\ \A v \in Team \ {r.unit} : buffer'[v] = buffer[v]
           /\ \A n \in Operands \ {r.mat} : buffer'[r.unit][n] = buffer[r.unit][n]
           /\ buffer'[r.unit][r.mat][1 - j] = buffer[r.unit][r.mat][1 - j]
           /\ buffer'[r.unit][r.mat][j] = BlockData(r.mat, Expected(r.unit)[r.mat])
<1>. DEFINE u == r.unit
            m == r.mat
            b == Expected(u)[m]
            start == pat.block[b].lpos
<1>1. /\ u \in Team /\ m \in Operands /\ Expecting(u) /\ Fixed /\ TypeOK
      /\ r.get = [to |-> 0, from |-> start, len |-> BlockElems]
  <2>1. u \in Team /\ m \in Operands /\ Expecting(u) /\ ReadInv(r)
    BY ReadsGoToBuffers
  <2>2. r = [unit |-> u, mat |-> m, dest |-> Target(u, m), get |-> [to |-> 0, from |-> start, len |-> BlockElems]]
    BY <2>1 DEF ReadInv
  <2>. HIDE DEF u, m, start
  <2>3. r.get = [to |-> 0, from |-> start, len |-> BlockElems]
    BY <2>2
  <2>. QED  BY <2>1, <2>3 DEF SummaInv, TypeOK
<1>2. b \in DOMAIN pat.block
  <2>1. CASE pc[u] = "first"
    <3>1. Coords(u)[m] \in DOMAIN pat.block
      <4>1. at[u].lb \in DOMAIN pat.cblock[u] /\ at[u].k \in Nat
        <5>1. at[u] \in [lb : Nat, k : 0 .. num_blocks_m - 1] /\ at[u].lb \in DOMAIN pat.cblock[u]
          BY <1>1 DEF TypeOK
        <5>. QED  BY <5>1
      <4>. HIDE DEF u, m
      <4>. QED  BY <1>1, <4>1, CoordsInside DEF Coords
    <3>2. Expected(u) = Coords(u)
      BY <2>1 DEF Expected
    <3>. QED  BY <3>1, <3>2
  <2>2. CASE pc[u] # "first"
    <3>1. ~ LastBlock(u)
      <4>1. UnitInv(u)
        BY <1>1 DEF SummaInv
      <4>. HIDE DEF u
      <4>. QED  BY <1>1, <2>2, <4>1 DEF UnitInv, LoopInv, Expecting
    <3>2. NextCoords(u)[m] \in DOMAIN pat.block
      BY <1>1, <3>1, NextInside
    <3>3. Expected(u) = NextCoords(u)
      BY <2>2 DEF Expected
    <3>. QED  BY <3>2, <3>3
  <2>. QED  BY <2>1, <2>2
<1>3. r.dest.kind = "buffer" /\ r.dest.index = j
  BY DEF Buffer
<1>. DEFINE data(i) == mem[m][r.get.from.unit][r.get.from.index + i - r.get.to]
            hit(i)  == i - r.get.to \in 0 .. r.get.len - 1
            old == buffer[u][m][j]
            new == [i \in DOMAIN old |-> IF hit(i) THEN data(i) ELSE old[i]]
<1>4. /\ pat' = pat /\ mem' = mem /\ ptr' = ptr /\ next' = next /\ pc' = pc /\ at' = at
      /\ inflight' = inflight \ {r}
      /\ buffer' = [buffer EXCEPT ![u][m][j] = new]
  BY <1>3 DEF Arrive
<1>5. start \in [unit : Team, index : Nat] /\ BlockElems \in Nat \ {0}
  BY <1>1, <1>2, BlockPlace, Shape
<1>6. buffer = [v \in Team |-> [n \in Operands |-> [i \in 0 .. 1 |->
                  [x \in 0 .. BlockElems - 1 |-> buffer[v][n][i][x]]]]]
  BY <1>1 DEF Fixed
<1>7. old = [x \in 0 .. BlockElems - 1 |-> buffer[u][m][j][x]]
  <2>1. buffer[u] = [n \in Operands |-> [i \in 0 .. 1 |-> [x \in 0 .. BlockElems - 1 |-> buffer[u][n][i][x]]]]
    BY <1>1, <1>6
  <2>2. buffer[u][m] = [i \in 0 .. 1 |-> [x \in 0 .. BlockElems - 1 |-> buffer[u][m][i][x]]]
    BY <1>1, <2>1
  <2>. QED  BY <2>2
<1>8. new = BlockData(m, b)
  <2>1. DOMAIN old = 0 .. BlockElems - 1
    BY <1>7
  <2>2. ASSUME NEW i \in 0 .. BlockElems - 1 PROVE hit(i) /\ data(i) = BlockData(m, b)[i]
    <3>1. hit(i)
      BY <1>1, <1>5
    <3>2. data(i) = mem[m][start.unit][start.index + i - 0]
      BY <1>1
    <3>3. start.index + i - 0 = start.index + i
      BY <1>5
    <3>4. mem[m][start.unit][start.index + i] = BlockData(m, b)[i]
      BY <1>1, <1>2, BlockStored
    <3>. QED  BY <3>1, <3>2, <3>3, <3>4
  <2>. HIDE DEF hit, data, old
  <2>3. new = [i \in 0 .. BlockElems - 1 |-> BlockData(m, b)[i]]
    BY <2>1, <2>2
  <2>4. BlockData(m, b) = [i \in 0 .. BlockElems - 1 |-> BlockData(m, b)[i]]
    BY DEF BlockData
  <2>. QED  BY <2>3, <2>4
<1>9. PICK d : d = new /\ d = BlockData(m, b)
  BY <1>8
<1>10. buffer' = [buffer EXCEPT ![u][m][j] = d]
  BY <1>4, <1>9
<1>11. d = [x \in 0 .. BlockElems - 1 |-> d[x]]
  BY <1>9 DEF BlockData
<1>. HIDE DEF new, old, hit, data, u, m, b
<1>12. /\ \A v \in Team \ {u} : buffer'[v] = buffer[v]
       /\ buffer'[u] = [buffer[u] EXCEPT ![m] = [buffer[u][m] EXCEPT ![j] = d]]
  BY <1>1, <1>6, <1>10
<1>13. /\ \A n \in Operands \ {m} : buffer'[u][n] = buffer[u][n]
       /\ buffer'[u][m] = [buffer[u][m] EXCEPT ![j] = d]
  <2>1. buffer[u] = [n \in Operands |-> [i \in 0 .. 1 |-> [x \in 0 .. BlockElems - 1 |-> buffer[u][n][i][x]]]]
    BY <1>1, <1>6
  <2>. QED  BY <1>1, <1>12, <2>1
<1>14. buffer'[u][m][1 - j] = buffer[u][m][1 - j] /\ buffer'[u][m][j] = d
  <2>1. buffer[u] = [n \in Operands |-> [i \in 0 .. 1 |-> [x \in 0 .. BlockElems - 1 |-> buffer[u][n][i][x]]]]
    BY <1>1, <1>6
  <2>2. buffer[u][m] = [i \in 0 .. 1 |-> [x \in 0 .. BlockElems - 1 |-> buffer[u][m][i][x]]]
    BY <1>1, <2>1
  <2>3. 1 - j \in 0 .. 1 /\ 1 - j # j
    OBVIOUS
  <2>4. DOMAIN buffer[u][m] = 0 .. 1
    BY <2>2
  <2>. QED  BY <1>13, <2>3, <2>4
<1>15. Fixed'
  <2>1. pat' = pat /\ Team' = Team /\ BlockElems' = BlockElems
    BY <1>4, TablesSame
  <2>2. \A n : MemoryOf(n)' = MemoryOf(n)
    BY <2>1 DEF MemoryOf
  <2>3. \A n \in Operands : mem'[n] = MemoryOf(n)'
    BY <1>1, <1>4, <2>2 DEF Fixed
  <2>4. mem' = [n \in {"A", "B", "C"} |-> mem'[n]]
    BY <1>1, <1>4 DEF Fixed
  <2>5. buffer' = [v \in Team |-> [n \in Operands |-> [i \in 0 .. 1 |->
                    [x \in 0 .. BlockElems - 1 |-> buffer'[v][n][i][x]]]]]
    <3>1. \A v \in Team : \A n \in Operands : \A i \in 0 .. 1 :
             buffer[v][n][i] = [x \in 0 .. BlockElems - 1 |-> buffer[v][n][i][x]]
      <4>. SUFFICES ASSUME NEW v \in Team, NEW n \in Operands, NEW i \in 0 .. 1
                    PROVE  buffer[v][n][i] = [x \in 0 .. BlockElems - 1 |-> buffer[v][n][i][x]]
        OBVIOUS
      <4>1. buffer[v] = [o \in Operands |-> [l \in 0 .. 1 |-> [x \in 0 .. BlockElems - 1 |-> buffer[v][o][l][x]]]]
        BY <1>6
      <4>2. buffer[v][n] = [l \in 0 .. 1 |-> [x \in 0 .. BlockElems - 1 |-> buffer[v][n][l][x]]]
        BY <4>1
      <4>. QED  BY <4>2
    <3>2. buffer' = [v \in Team |-> buffer'[v]]
      BY <1>6, <1>10
    <3>3. ASSUME NEW v \in Team PROVE buffer'[v] = [n \in Operands |-> [i \in 0 .. 1 |-> buffer'[v][n][i]]]
      <4>1. buffer[v] = [o \in Operands |-> [l \in 0 .. 1 |-> [x \in 0 .. BlockElems - 1 |-> buffer[v][o][l][x]]]]
        BY <1>6
      <4>2. buffer[v] = [o \in Operands |-> buffer[v][o]]
            /\ \A o \in Operands : buffer[v][o] = [l \in 0 .. 1 |-> buffer[v][o][l]]
        BY <4>1
      <4>3. CASE v # u
        BY <1>12, <4>2, <4>3
      <4>4. CASE v = u
        <5>1. buffer'[u] = [n \in Operands |-> buffer'[u][n]]
          BY <1>12, <4>2, <4>4
        <5>2. \A n \in Operands : buffer'[u][n] = [i \in 0 .. 1 |-> buffer'[u][n][i]]
          BY <1>1, <1>13, <4>2, <4>4
        <5>. QED  BY <4>4, <5>1, <5>2
      <4>. QED  BY <4>3, <4>4
    <3>4. \A v \in Team : \A n \in Operands : \A i \in 0 .. 1 :
             buffer'[v][n][i] = [x \in 0 .. BlockElems - 1 |-> buffer'[v][n][i][x]]
      <4>. SUFFICES ASSUME NEW v \in Team, NEW n \in Operands, NEW i \in 0 .. 1
                    PROVE  buffer'[v][n][i] = [x \in 0 .. BlockElems - 1 |-> buffer'[v][n][i][x]]
        OBVIOUS
      <4>1. CASE v = u /\ n = m /\ i = j
        BY <1>11, <1>14, <4>1
      <4>2. CASE ~ (v = u /\ n = m /\ i = j)
        <5>1. buffer'[v][n][i] = buffer[v][n][i]
          <6>1. CASE v = u /\ n = m
            <7>1. i = 1 - j
              BY <4>2, <6>1
            <7>. QED  BY <1>14, <6>1, <7>1
          <6>2. CASE v # u \/ n # m
            BY <1>12, <1>13, <6>2
          <6>. QED  BY <6>1, <6>2
        <5>2. PICK e : e = buffer[v][n][i]
          OBVIOUS
        <5>3. e = [x \in 0 .. BlockElems - 1 |-> e[x]]
          <6>1. buffer[v][n][i] = [x \in 0 .. BlockElems - 1 |-> buffer[v][n][i][x]]
            BY <3>1
          <6>. QED  BY <5>2, <6>1
        <5>4. buffer'[v][n][i] = e
          BY <5>1, <5>2
        <5>. QED  BY <5>3, <5>4
      <4>. QED  BY <4>1, <4>2
    <3>5. ASSUME NEW v \in Team
          PROVE  buffer'[v] = [n \in Operands |-> [i \in 0 .. 1 |->
                                 [x \in 0 .. BlockElems - 1 |-> buffer'[v][n][i][x]]]]
      <4>1. ASSUME NEW n \in Operands
            PROVE  buffer'[v][n] = [i \in 0 .. 1 |-> [x \in 0 .. BlockElems - 1 |-> buffer'[v][n][i][x]]]
        <5>1. buffer'[v][n] = [i \in 0 .. 1 |-> buffer'[v][n][i]]
          BY <3>3
        <5>2. \A i \in 0 .. 1 : buffer'[v][n][i] = [x \in 0 .. BlockElems - 1 |-> buffer'[v][n][i][x]]
          BY <3>4
        <5>. QED  BY <5>1, <5>2, Zenon
      <4>2. buffer'[v] = [n \in Operands |-> buffer'[v][n]]
        BY <3>3
      <4>. QED  BY <4>1, <4>2, Zenon
    <3>. QED  BY <3>2, <3>5, Zenon
  <2>. QED  BY <1>1, <2>1, <2>3, <2>4, <2>5 DEF Fixed
<1>. QED  BY <1>4, <1>9, <1>12, <1>13, <1>14, <1>15 DEF u, m, b

\* The end of a read fills the buffer it was for, and no other.
LEMMA ArriveKeeps ==
    ASSUME SummaInv, NEW r \in inflight, Arrive(r)
    PROVE  SummaInv'
<1>. DEFINE u == r.unit
            m == r.mat
<1>1. /\ u \in Team /\ m \in Operands /\ ReadInv(r) /\ Expecting(u)
      /\ ~ IsLocalBlock(u, Expected(u)[m])
      /\ r.dest = Target(u, m) /\ r.dest.kind = "buffer"
      /\ pc[u] # "first" => ptr[u][m].comp # r.dest
  BY ReadsGoToBuffers
<1>2. PICK j \in 0 .. 1 : r.dest = Buffer(j)
  BY ReadsGoToBuffers
<1>3. /\ pat' = pat /\ mem' = mem /\ ptr' = ptr /\ next' = next /\ pc' = pc /\ at' = at
      /\ inflight' = inflight \ {r} /\ Fixed'
      /\ \A v \in Team \ {u} : buffer'[v] = buffer[v]
      /\ \A n \in Operands \ {m} : buffer'[u][n] = buffer[u][n]
      /\ buffer'[u][m][1 - j] = buffer[u][m][1 - j]
      /\ buffer'[u][m][j] = BlockData(m, Expected(u)[m])
  BY <1>2, ReadData
<1>. HIDE DEF u, m
<1>4. TypeOK /\ UnitInv(u) /\ SameUnit(u) /\ r.unit = u /\ r.mat = m
  BY <1>1, <1>3 DEF SummaInv, SameUnit, u, m
<1>5. TypeOK'
  BY <1>3, <1>4, TypeKept DEF TypeOK, PointerRecord
<1>6. /\ Expecting(u)' <=> Expecting(u)
      /\ LastBlock(u)' <=> LastBlock(u)
      /\ Coords(u)' = Coords(u) /\ Expected(u)' = Expected(u)
      /\ \A n : Target(u, n)' = Target(u, n)
  BY <1>3, <1>4, UnitSame
\* What is read is not touched but where the block was expected.
<1>7. ASSUME NEW n \in Operands, NEW t, t.kind = "buffer" => t.index \in 0 .. 1,
             n = m => t # Buffer(j) /\ (t.kind = "buffer" => t = Buffer(t.index))
      PROVE  Contents(u, n, t)' = Contents(u, n, t)
  <2>1. BlockElems' = BlockElems
    BY <1>3, TablesSame
  <2>2. CASE t.kind # "buffer"
    BY <1>3, <2>1, <2>2 DEF Contents
  <2>3. CASE t.kind = "buffer"
    <3>1. buffer'[u][n][t.index] = buffer[u][n][t.index]
      <4>1. CASE n = m
        <5>1. t.index # j /\ t.index \in 0 .. 1
          BY <1>7, <2>3, <4>1
        <5>2. t.index = 1 - j
          BY <5>1
        <5>. QED  BY <1>3, <4>1, <5>2
      <4>2. CASE n # m
        BY <1>3, <1>7, <4>2
      <4>. QED  BY <4>1, <4>2
    <3>. QED  BY <2>3, <3>1 DEF Contents
  <2>. QED  BY <2>2, <2>3
<1>8. ASSUME NEW n \in Operands
      PROVE  /\ ptr[u][n].comp.kind = "buffer" => ptr[u][n].comp.index \in 0 .. 1 /\ ptr[u][n].comp = Buffer(ptr[u][n].comp.index)
             /\ ptr[u][n].get.kind = "buffer" => ptr[u][n].get.index \in 0 .. 1 /\ ptr[u][n].get = Buffer(ptr[u][n].get.index)
  <2>1. PICK i \in 0 .. 1 : Owns(ptr[u][n].get, ptr[u][n].get_bac, i) /\ Owns(ptr[u][n].comp, ptr[u][n].comp_bac, 1 - i)
    BY <1>4 DEF UnitInv, PointersInv
  <2>2. 1 - i \in 0 .. 1
    OBVIOUS
  <2>. QED  BY <2>1, <2>2, OwnsBuffer
<1>9. ASSUME NEW n \in Operands PROVE ReadyInv(u, n)'
  <2>0. PICK b, t : b = Coords(u)[n] /\ t = ptr[u][n].comp
    OBVIOUS
  <2>1. ASSUME pc'[u] \in {"prefetch", "multiply"}
        PROVE  Coords(u)'[n] = b /\ ptr'[u][n].comp = t /\ Contents(u, n, t)' = BlockData(n, b)'
    <3>1. Contents(u, n, t) = BlockData(n, b)
      BY <1>3, <1>4, <2>0, <2>1 DEF UnitInv, ReadyInv
    <3>2. pc[u] # "first"
      BY <1>3, <2>1
    <3>3. Contents(u, n, t)' = Contents(u, n, t)
      BY <1>1, <1>2, <1>7, <1>8, <2>0, <3>2
    <3>4. BlockData(n, b)' = BlockData(n, b)
      BY <1>3, TablesSame
    <3>. QED  BY <1>3, <1>6, <2>0, <3>1, <3>3, <3>4
  <2>. QED  BY <2>1, ReadyNow
<1>10. ASSUME NEW n \in Operands PROVE ComingInv(u, n)'
  <2>0. PICK b, t : b = Expected(u)[n] /\ t = Target(u, n)
    OBVIOUS
  <2>1. ComingAt(u, n, b, t)
    BY <1>1, <1>4, <2>0 DEF UnitInv, ComingInv, ComingAt
  <2>2. /\ IsLocalBlock(u, b)' <=> IsLocalBlock(u, b)
        /\ BlockData(n, b)' = BlockData(n, b) /\ pat' = pat
    BY <1>3, TablesSame
  <2>3. next'[u][n] = [block |-> b, local |-> IsLocalBlock(u, b)']
    BY <1>3, <2>1, <2>2 DEF ComingAt, IsLocalBlock
  <2>4. ASSUME IsLocalBlock(u, b) PROVE ComingAt(u, n, b, t)'
    BY <2>1, <2>2, <2>3, <2>4 DEF ComingAt, Local_
  <2>5. ASSUME ~ IsLocalBlock(u, b) PROVE ComingAt(u, n, b, t)'
    <3>1. t.kind = "buffer"
      BY <2>1, <2>5 DEF ComingAt
    <3>2. (\E s \in inflight' : s.unit = u /\ s.mat = n) \/ Contents(u, n, t)' = BlockData(n, b)'
      <4>1. CASE n = m
        <5>1. t = Buffer(j)
          BY <1>1, <1>2, <2>0, <4>1
        <5>2. Contents(u, n, t)' = buffer'[u][n][j]
          BY <3>1, <5>1 DEF Contents, Buffer
        <5>. QED  BY <1>3, <2>0, <2>2, <4>1, <5>2
      <4>2. CASE n # m
        <5>1. CASE \E s \in inflight : s.unit = u /\ s.mat = n
          BY <1>3, <1>4, <4>2, <5>1
        <5>2. CASE Contents(u, n, t) = BlockData(n, b)
          <6>1. t.index \in 0 .. 1
            BY <1>8, <2>0, <3>1 DEF Target
          <6>2. Contents(u, n, t)' = Contents(u, n, t)
            BY <1>7, <4>2, <6>1
          <6>. QED  BY <2>2, <5>2, <6>2
        <5>. QED  BY <2>1, <2>5, <5>1, <5>2 DEF ComingAt
      <4>. QED  BY <4>1, <4>2
    <3>. QED  BY <2>2, <2>3, <2>5, <3>1, <3>2 DEF ComingAt
  <2>6. ComingAt(u, n, b, t)'
    BY <2>4, <2>5
  <2>. QED  BY <1>6, <2>0, <2>6, ComingNow
<1>11. UnitInv(u)'
  <2>1. LoopInv(u)'
    BY <1>3, <1>4, <1>6 DEF UnitInv, LoopInv
  <2>2. ASSUME NEW n \in Operands PROVE PointersInv(u, n)'
    BY <1>3, <1>4 DEF UnitInv, PointersInv
  <2>. QED  BY <1>9, <1>10, <2>1, <2>2 DEF UnitInv
<1>12. ASSUME NEW s \in inflight', s.unit = u PROVE ReadInv(s)'
  <2>1. ReadInv(s)
    BY <1>3, <1>12 DEF SummaInv
  <2>. QED  BY <1>3, <1>4, <1>12, <2>1, ReadKept
<1>13. \A s : s.unit # u => (s \in inflight' <=> s \in inflight)
  BY <1>3, <1>4
<1>14. \A v \in Team \ {u} : /\ SameUnit(v) /\ buffer'[v] = buffer[v]
                             /\ \A n \in Operands : mem'[n][v] = mem[n][v]
  BY <1>3 DEF SameUnit
<1>. QED  BY <1>1, <1>3, <1>5, <1>11, <1>12, <1>13, <1>14, OneMoves

----------------------------------------------------------------------------
\* The invariant.

\* The initial states.
LEMMA SummaStarts == Init => SummaInv
<1>. SUFFICES ASSUME Init PROVE SummaInv
  OBVIOUS
<1>1. Fixed
  <2>1. pat \in Matrices
    BY DEF Init
  <2>2. mem = [m \in {"A", "B", "C"} |->
                 [u \in Team |-> [o \in 0 .. pat.size[u] - 1 |->
                     IF m = "C" THEN 0
                     ELSE Values[m][CHOOSE x \in DOMAIN pat.place : pat.place[x] = [unit |-> u, index |-> o]]]]]
    BY DEF Init
  <2>3. mem = [m \in {"A", "B", "C"} |-> mem[m]] /\ \A m \in Operands : mem[m] = MemoryOf(m)
    BY <2>2 DEF MemoryOf, Operands
  <2>4. buffer = [u \in Team |-> [m \in Operands |-> [i \in 0 .. 1 |-> [x \in 0 .. BlockElems - 1 |-> None]]]]
    BY DEF Init, Garbage
  <2>5. buffer = [u \in Team |-> [m \in Operands |-> [i \in 0 .. 1 |->
                    [x \in 0 .. BlockElems - 1 |-> buffer[u][m][i][x]]]]]
    BY <2>4
  <2>. QED  BY <2>1, <2>3, <2>5 DEF Fixed
<1>2. /\ ptr = [u \in Team |-> [m \in Operands |->
                  [get |-> Buffer(0), comp |-> Buffer(1), get_bac |-> None, comp_bac |-> None]]]
      /\ next = [u \in Team |-> [m \in Operands |-> None]]
      /\ inflight = {} /\ pc = [u \in Team |-> "begin"]
      /\ at = [u \in Team |-> [lb |-> 0, k |-> 0]]
  BY DEF Init
<1>3. TypeOK
  <2>1. ptr \in [Team -> [Operands -> [get : Pointers, comp : Pointers,
                                       get_bac : Pointers \cup {None}, comp_bac : Pointers \cup {None}]]]
    <3>1. Buffer(0) \in Pointers /\ Buffer(1) \in Pointers
      BY OwnsBuffer
    <3>. HIDE DEF Pointers
    <3>. QED  BY <1>2, <3>1
  <2>2. next = [u \in Team |-> [m \in Operands |-> next[u][m]]]
    BY <1>2
  <2>3. pc \in [Team -> Phases]
    BY <1>2 DEF Phases
  <2>4. at \in [Team -> [lb : Nat, k : 0 .. num_blocks_m - 1]]
    BY <1>1, <1>2, Shape
  <2>5. \A u \in Team : at[u].lb \in DOMAIN pat.cblock[u]
    BY <1>1, <1>2, BlocksOfUnit
  <2>. QED  BY <1>1, <2>1, <2>2, <2>3, <2>4, <2>5 DEF TypeOK
<1>4. ASSUME NEW u \in Team PROVE UnitInv(u)
  <2>1. pc[u] = "begin" /\ at[u] = [lb |-> 0, k |-> 0]
    BY <1>2
  <2>2. ASSUME NEW m \in Operands PROVE PointersInv(u, m)
    <3>1. Owns(Buffer(0), None, 0) /\ Owns(Buffer(1), None, 1 - 0)
      BY DEF Owns
    <3>2. ptr[u][m] = [get |-> Buffer(0), comp |-> Buffer(1), get_bac |-> None, comp_bac |-> None]
      BY <1>2
    <3>. QED  BY <3>1, <3>2 DEF PointersInv
  <2>. QED  BY <2>1, <2>2 DEF UnitInv, LoopInv, ComingInv, Expecting, ReadyInv
<1>. QED  BY <1>2, <1>3, <1>4 DEF SummaInv

\* Steps that change nothing.
LEMMA SummaStutters ==
    ASSUME SummaInv, UNCHANGED vars
    PROVE  SummaInv'
<1>1. /\ pat' = pat /\ UNCHANGED <<mem, buffer>>
      /\ ptr' = ptr /\ next' = next /\ inflight' = inflight /\ pc' = pc /\ at' = at
  BY DEF vars
<1>2. TypeOK /\ Fixed /\ Team' = Team
  BY <1>1, TablesSame DEF SummaInv, TypeOK
<1>3. Fixed'
  BY <1>1, <1>2, BuffersKept
<1>4. TypeOK'
  BY <1>1, <1>2, <1>3, TypeKept DEF TypeOK, PointerRecord
<1>5. ASSUME NEW v \in Team PROVE UnitInv(v)'
  BY <1>1, UnitKept DEF SummaInv, SameUnit
<1>6. ASSUME NEW r \in inflight PROVE ReadInv(r)'
  BY <1>1, ReadKept DEF SummaInv, SameUnit
<1>. QED  BY <1>1, <1>2, <1>4, <1>5, <1>6 DEF SummaInv

\* SummaInv is inductive.
LEMMA SummaKeeps == SummaInv /\ [Next]_vars => SummaInv'
<1>. SUFFICES ASSUME SummaInv, [Next]_vars PROVE SummaInv'
  OBVIOUS
<1>1. ASSUME NEW u \in Team, Step(u) PROVE SummaInv'
  BY <1>1, BeginKeeps, AwaitFirstKeeps, PrefetchKeeps, MultiplyKeeps, AwaitNextKeeps, LeaveKeeps DEF Step
<1>2. ASSUME NEW r \in inflight, Arrive(r) PROVE SummaInv'
  BY <1>2, ArriveKeeps
<1>3. CASE Terminated \/ UNCHANGED vars
  BY <1>3, SummaStutters DEF Terminated
<1>. QED  BY <1>1, <1>2, <1>3 DEF Next

\* SummaInv says that the buffers are ready.
LEMMA SummaIsReady == SummaInv => BuffersReady
<1>. SUFFICES ASSUME SummaInv PROVE BuffersReady
  OBVIOUS
<1>1. ASSUME NEW u \in Team, pc[u] = "multiply", NEW m \in Operands
      PROVE  /\ Contents(u, m, ptr[u][m].comp) = BlockData(m, Coords(u)[m])
             /\ \A r \in inflight : r.unit = u /\ r.mat = m => r.dest # ptr[u][m].comp
  <2>1. Contents(u, m, ptr[u][m].comp) = BlockData(m, Coords(u)[m])
    BY <1>1 DEF SummaInv, UnitInv, ReadyInv
  <2>2. ASSUME NEW r \in inflight, r.unit = u, r.mat = m PROVE r.dest # ptr[u][m].comp
    BY <1>1, <2>2, ReadsGoToBuffers
  <2>. QED  BY <2>1, <2>2
<1>2. ASSUME NEW r \in inflight PROVE r.dest.kind = "buffer" /\ pc[r.unit] \notin {"barrier", "done"}
  <2>1. r.dest.kind = "buffer" /\ Expecting(r.unit)
    BY ReadsGoToBuffers
  <2>. QED  BY <2>1 DEF Expecting
<1>. QED  BY <1>1, <1>2 DEF BuffersReady, Coords

(* SummaBuffers: whatever the pattern, the matrices and the order in which *)
(* reads end, when a unit of dash::summa multiplies, its pointers lead to  *)
(* the blocks of A and B that the iteration is about, no read is under way *)
(* to where they point, and none goes to local memory or to a buffer that  *)
(* is freed.                                                               *)
THEOREM SummaBuffers == Spec => []BuffersReady
<1>1. Init => SummaInv
  BY SummaStarts
<1>2. SummaInv /\ [Next]_vars => SummaInv'
  BY SummaKeeps
<1>3. SummaInv => BuffersReady
  BY SummaIsReady
<1>. QED  BY <1>1, <1>2, <1>3, PTL DEF Spec

----------------------------------------------------------------------------
\* The product.

\* What an element of C is the sum of: a product for every element of a row
\* of A and a column of B.
TermAt(x) == [k \in 0 .. Extent - 1 |-> Values["A"][<<k, x[2]>>] * Values["B"][<<x[1], k>>]]

PanelElems(v) == v * block_size .. (v + 1) * block_size - 1
PanelSums(x)  == [v \in 0 .. num_blocks_m - 1 |-> SumOf(TermAt(x), PanelElems(v))]

\* What the pattern answers beyond the buffers.
LEMMA Answered ==
    ASSUME Fixed, Multipliable
    PROVE  /\ Multiplied(pat)
           /\ Extent = num_blocks_m * block_size /\ Extent \in Nat
           /\ DOMAIN pat.place = (0 .. Extent - 1) \X (0 .. Extent - 1)
           /\ Blockwise!Points = DOMAIN pat.place
           /\ Blockwise!Panels = 0 .. num_blocks_m - 1
           /\ Blockwise!Blocks = DOMAIN pat.block
           /\ \A m \in Operands, x \in DOMAIN pat.place : Values[m][x] \in Int
<1>2. Multiplied(pat) /\ \A m \in Operands, x \in DOMAIN pat.place : Values[m][x] \in Int
  BY DEF Multipliable
<1>3. Extent = num_blocks_m * block_size /\ DOMAIN pat.place = (0 .. Extent - 1) \X (0 .. Extent - 1)
  BY <1>2 DEF Multiplied, Extent, num_blocks_m, block_size
<1>4. block_size \in Nat \ {0} /\ num_blocks_m \in Nat \ {0} /\ DOMAIN pat.block = (0 .. num_blocks_m - 1) \X (0 .. num_blocks_m - 1)
  BY Shape
<1>5. Extent \in Nat
  BY <1>3, <1>4
<1>6. Blockwise!Points = DOMAIN pat.place
  BY <1>3 DEF Blockwise!Points
<1>7. Blockwise!Panels = 0 .. num_blocks_m - 1
  BY DEF Blockwise!Panels, Extent, num_blocks_m, block_size
<1>8. Blockwise!Blocks = DOMAIN pat.block
  BY <1>4, <1>7 DEF Blockwise!Blocks
<1>. QED  BY <1>2, <1>3, <1>5, <1>6, <1>7, <1>8

\* The elements of a panel are elements of the row and of the column.
LEMMA PanelInside ==
    ASSUME Fixed, Multipliable, NEW v \in 0 .. num_blocks_m - 1
    PROVE  /\ PanelElems(v) \subseteq 0 .. Extent - 1
           /\ IsFiniteSet(PanelElems(v))
           /\ v * block_size \in Nat /\ (v + 1) * block_size = v * block_size + block_size
<1>1. block_size \in Nat \ {0} /\ num_blocks_m \in Nat \ {0} /\ Extent = num_blocks_m * block_size
  BY Shape, Answered
<1>. DEFINE s == block_size
            n == num_blocks_m
            a == v * s
<1>. HIDE DEF s, n
<1>2. v \in 0 .. n - 1 /\ s \in Nat \ {0} /\ n \in Nat
  BY <1>1 DEF s, n
<1>3. a \in Nat /\ (v + 1) * s = a + s
  BY <1>2
<1>4. s - 1 \in 0 .. s - 1 /\ 0 \in 0 .. s - 1
  BY <1>2
<1>5. a + (s - 1) \in 0 .. n * s - 1
  BY <1>2, <1>4, QuotientBound
<1>6. n * s \in Nat
  BY <1>2
<1>7. PanelElems(v) = a .. a + s - 1
  <2>1. PanelElems(v) = a .. (v + 1) * s - 1
    BY DEF PanelElems, s
  <2>2. (v + 1) * s - 1 = a + s - 1
    BY <1>2, <1>3
  <2>. QED  BY <2>1, <2>2, Zenon
<1>. HIDE DEF a
<1>8. a .. a + s - 1 \subseteq 0 .. n * s - 1
  BY <1>2, <1>3, <1>5, <1>6
<1>9. IsFiniteSet(a .. a + s - 1)
  BY <1>2, <1>3, FS_Interval
<1>. QED  BY <1>1, <1>3, <1>7, <1>8, <1>9 DEF s, n, a

\* The terms of an element, and what panels make of them, are numbers.
LEMMA TermsAreNumbers ==
    ASSUME Fixed, Multipliable, NEW x \in Blockwise!Points
    PROVE  /\ \A k \in 0 .. Extent - 1 : TermAt(x)[k] \in Int
           /\ \A v \in 0 .. num_blocks_m - 1 : PanelSums(x)[v] \in Int
<1>1. ASSUME NEW k \in 0 .. Extent - 1 PROVE TermAt(x)[k] \in Int
  <2>1. x[1] \in 0 .. Extent - 1 /\ x[2] \in 0 .. Extent - 1
    BY Answered
  <2>2. <<k, x[2]>> \in DOMAIN pat.place /\ <<x[1], k>> \in DOMAIN pat.place
    BY <2>1, Answered
  <2>3. Values["A"][<<k, x[2]>>] \in Int /\ Values["B"][<<x[1], k>>] \in Int
    BY <2>2, Answered DEF Operands
  <2>. QED  BY <2>3 DEF TermAt
<1>2. ASSUME NEW v \in 0 .. num_blocks_m - 1 PROVE PanelSums(x)[v] \in Int
  <2>1. PanelElems(v) \subseteq 0 .. Extent - 1 /\ IsFiniteSet(PanelElems(v))
    BY PanelInside
  <2>2. \A k \in PanelElems(v) : TermAt(x)[k] \in Int
    BY <1>1, <2>1
  <2>3. SumOf(TermAt(x), PanelElems(v)) \in Int
    BY <2>1, <2>2, SumOfExists
  <2>. QED  BY <2>3 DEF PanelSums
<1>. QED  BY <1>1, <1>2

\* What Panel of BlockProduct is.
LEMMA PanelIs ==
    ASSUME Fixed, Multipliable, NEW x \in Blockwise!Points, NEW v \in 0 .. num_blocks_m - 1
    PROVE  Blockwise!Panel(x, v) = PanelSums(x)[v]
<1>. DEFINE S == PanelElems(v)
            f == TermAt(x)
            h == CHOOSE g : g = SumStep(f, S, g)
<1>1. S \subseteq 0 .. Extent - 1 /\ IsFiniteSet(S)
  BY PanelInside
<1>2. Blockwise!Panel(x, v) = h[S]
  <2>1. \A g : SumStep(f, S, g) = [s \in SUBSET S |-> IF s = {} THEN 0 ELSE
           Values["A"][<<Chosen(s), x[2]>>] * Values["B"][<<x[1], Chosen(s)>>] + g[s \ {Chosen(s)}]]
    <3>1. \A s \in SUBSET S : s # {} => Chosen(s) \in 0 .. Extent - 1
      BY <1>1 DEF Chosen
    <3>. QED  BY <3>1 DEF TermAt, SumStep
  <2>2. h = CHOOSE g : g = [s \in SUBSET S |-> IF s = {} THEN 0 ELSE
           Values["A"][<<Chosen(s), x[2]>>] * Values["B"][<<x[1], Chosen(s)>>] + g[s \ {Chosen(s)}]]
    BY <2>1, Zenon DEF h
  <2>. HIDE DEF h
  <2>. QED  BY <2>2, Zenon DEF Blockwise!Panel, Blockwise!MapThenSumSet, Blockwise!MapThenFoldSet, Chosen, PanelElems
<1>3. h[S] = SumOf(f, S)
  <2>1. \A k \in S : f[k] \in Int
    BY <1>1, TermsAreNumbers
  <2>. HIDE DEF S, f
  <2>. QED  BY <1>1, <2>1, SumFold
<1>. QED  BY <1>2, <1>3 DEF PanelSums

\* The sums of ProductInv, of ProductComputed and of MultiplyLocal.
PanelsTaken(x, T) == LET panel(v) == Blockwise!Panel(x, v) IN MapThenSumSet(panel, T)

\* What the invariant says an element of C is.
LEMMA PanelsAre ==
    ASSUME Fixed, Multipliable, NEW x \in Blockwise!Points, NEW T \in SUBSET (0 .. num_blocks_m - 1)
    PROVE  PanelsTaken(x, T) = SumOf(PanelSums(x), T)
<1>. DEFINE f == PanelSums(x)
            h == CHOOSE g : g = SumStep(f, T, g)
<1>1. \A v \in T : f[v] \in Int
  BY TermsAreNumbers
<1>2. PanelsTaken(x, T) = h[T]
  <2>1. \A g : SumStep(f, T, g) = [s \in SUBSET T |-> IF s = {} THEN 0 ELSE
           Blockwise!Panel(x, Chosen(s)) + g[s \ {Chosen(s)}]]
    <3>1. \A s \in SUBSET T : s # {} => Chosen(s) \in 0 .. num_blocks_m - 1
      BY DEF Chosen
    <3>. QED  BY <3>1, PanelIs DEF SumStep
  <2>2. h = CHOOSE g : g = [s \in SUBSET T |-> IF s = {} THEN 0 ELSE
           Blockwise!Panel(x, Chosen(s)) + g[s \ {Chosen(s)}]]
    BY <2>1, Zenon DEF h
  <2>. HIDE DEF h
  <2>. QED  BY <2>2, Zenon DEF PanelsTaken, MapThenSumSet, MapThenFoldSet, Chosen
<1>3. IsFiniteSet(T)
  <2>1. num_blocks_m \in Nat
    BY Shape
  <2>2. IsFiniteSet(0 .. num_blocks_m - 1)
    BY <2>1, FS_Interval
  <2>. QED  BY <2>2, FS_Subset
<1>. HIDE DEF f
<1>4. h[T] = SumOf(f, T)
  BY <1>1, <1>3, SumFold
<1>. QED  BY <1>2, <1>4 DEF f

ProductOf(x) ==
    LET term(k) == Values["A"][<<k, x[2]>>] * Values["B"][<<x[1], k>>] IN MapThenSumSet(term, 0 .. Extent - 1)

\* What an element of the product is.
LEMMA ProductIs ==
    ASSUME Fixed, Multipliable, NEW x \in Blockwise!Points
    PROVE  ProductOf(x) = SumOf(TermAt(x), 0 .. Extent - 1)
<1>. DEFINE S == 0 .. Extent - 1
            f == TermAt(x)
            h == CHOOSE g : g = SumStep(f, S, g)
<1>1. IsFiniteSet(S)
  BY Answered, FS_Interval
<1>2. ProductOf(x) = h[S]
  <2>1. \A g : SumStep(f, S, g) = [s \in SUBSET S |-> IF s = {} THEN 0 ELSE
           Values["A"][<<Chosen(s), x[2]>>] * Values["B"][<<x[1], Chosen(s)>>] + g[s \ {Chosen(s)}]]
    <3>1. \A s \in SUBSET S : s # {} => Chosen(s) \in 0 .. Extent - 1
      BY DEF Chosen
    <3>. QED  BY <3>1 DEF TermAt, SumStep
  <2>2. h = CHOOSE g : g = [s \in SUBSET S |-> IF s = {} THEN 0 ELSE
           Values["A"][<<Chosen(s), x[2]>>] * Values["B"][<<x[1], Chosen(s)>>] + g[s \ {Chosen(s)}]]
    BY <2>1, Zenon DEF h
  <2>. HIDE DEF h
  <2>. QED  BY <2>2, Zenon DEF ProductOf, MapThenSumSet, MapThenFoldSet, Chosen
<1>3. h[S] = SumOf(f, S)
  <2>1. \A k \in S : f[k] \in Int
    BY TermsAreNumbers
  <2>. HIDE DEF S, f
  <2>. QED  BY <1>1, <2>1, SumFold
<1>. QED  BY <1>2, <1>3

TermsOf(a, b, i, j) == [k \in 0 .. block_size - 1 |-> a[i * block_size + k] * b[k * block_size + j]]

\* What multiply_local adds to an element of C.
LEMMA MultiplyLocalIs ==
    ASSUME block_size \in Nat, NEW a, NEW b, NEW c, NEW x \in 0 .. BlockElems - 1,
           \A k \in 0 .. block_size - 1 : TermsOf(a, b, x \div block_size, x % block_size)[k] \in Int
    PROVE  MultiplyLocal(a, b, c)[x] =
               c[x] + SumOf(TermsOf(a, b, x \div block_size, x % block_size), 0 .. block_size - 1)
<1>. DEFINE i == x \div block_size
            j == x % block_size
            S == 0 .. block_size - 1
            f == TermsOf(a, b, i, j)
            h == CHOOSE g : g = SumStep(f, S, g)
<1>1. IsFiniteSet(S)
  BY FS_Interval
<1>2. MultiplyLocal(a, b, c)[x] = c[x] + h[S]
  <2>1. \A g : SumStep(f, S, g) = [s \in SUBSET S |-> IF s = {} THEN 0 ELSE
           a[i * block_size + Chosen(s)] * b[Chosen(s) * block_size + j] + g[s \ {Chosen(s)}]]
    <3>. HIDE DEF i, j
    <3>1. \A s \in SUBSET S : s # {} => Chosen(s) \in S
      BY DEF Chosen
    <3>. QED  BY <3>1 DEF TermsOf, SumStep
  <2>2. h = CHOOSE g : g = [s \in SUBSET S |-> IF s = {} THEN 0 ELSE
           a[i * block_size + Chosen(s)] * b[Chosen(s) * block_size + j] + g[s \ {Chosen(s)}]]
    BY <2>1, Zenon DEF h
  <2>. HIDE DEF h
  <2>. QED  BY <2>2, Zenon DEF MultiplyLocal, MapThenSumSet, MapThenFoldSet, Chosen
<1>3. h[S] = SumOf(f, S)
  <2>1. \A k \in S : f[k] \in Int
    OBVIOUS
  <2>. HIDE DEF S, f
  <2>. QED  BY <1>1, <2>1, SumFold
<1>. QED  BY <1>2, <1>3

\* The elements of a block are where multiply_local expects them.
LEMMA PointInBlock ==
    ASSUME Fixed, Multipliable, NEW b \in DOMAIN pat.block, NEW i \in 0 .. BlockElems - 1
    PROVE  /\ i % block_size \in 0 .. block_size - 1 /\ i \div block_size \in 0 .. block_size - 1
           /\ PointOf(pat, b, i) = <<b[1] * block_size + (i % block_size), b[2] * block_size + (i \div block_size)>>
           /\ PointOf(pat, b, i) \in Blockwise!Points
           /\ BlockAround(PointOf(pat, b, i)) = b
<1>1. block_size \in Nat \ {0} /\ BlockElems = block_size * block_size
  BY Shape DEF BlockElems
<1>2. i % block_size \in 0 .. block_size - 1 /\ i \div block_size \in 0 .. block_size - 1
  BY <1>1, QuotientBound
<1>3. PointOf(pat, b, i) = <<b[1] * block_size + (i % block_size), b[2] * block_size + (i \div block_size)>>
  <2>1. pat.phase[i] = <<i % pat.blocksize, i \div pat.blocksize>>
    BY Answered DEF Multiplied, BlockElems, block_size
  <2>. QED  BY <2>1 DEF PointOf, block_size
<1>4. PointOf(pat, b, i) \in Blockwise!Points
  BY BlockPlace, Answered
<1>5. b \in (0 .. num_blocks_m - 1) \X (0 .. num_blocks_m - 1)
  BY Shape
<1>6. BlockAround(PointOf(pat, b, i)) = b
  <2>. DEFINE r == i % block_size
              q == i \div block_size
              s == block_size
  <2>1. /\ s \in Nat \ {0} /\ r \in 0 .. s - 1 /\ q \in 0 .. s - 1
        /\ b[1] \in Int /\ b[2] \in Int /\ b = <<b[1], b[2]>>
    BY <1>1, <1>2, <1>5
  <2>2. BlockAround(PointOf(pat, b, i)) = <<(b[1] * s + r) \div s, (b[2] * s + q) \div s>>
    <3>1. PointOf(pat, b, i)[1] = b[1] * s + r /\ PointOf(pat, b, i)[2] = b[2] * s + q
      BY <1>3
    <3>. HIDE DEF r, q
    <3>. QED  BY <3>1 DEF BlockAround, s
  <2>. HIDE DEF r, q, s
  <2>3. (b[1] * s + r) \div s = b[1] /\ (b[2] * s + q) \div s = b[2]
    BY <2>1, QuotientOf
  <2>. QED  BY <2>1, <2>2, <2>3
<1>. QED  BY <1>2, <1>3, <1>4, <1>6

\* Every point is in a block.
LEMMA BlockOfPoint ==
    ASSUME Fixed, Multipliable, NEW x \in Blockwise!Points
    PROVE  /\ BlockAround(x) \in DOMAIN pat.block
           /\ \E i \in 0 .. BlockElems - 1 : x = PointOf(pat, BlockAround(x), i)
<1>. DEFINE s == block_size
            n == num_blocks_m
            c == x[1] \div s
            r == x[2] \div s
            j == x[1] % s
            i == x[2] % s
            y == i * s + j
<1>1. s \in Nat \ {0} /\ n \in Nat /\ BlockElems = s * s /\ Extent = n * s
  BY Shape, Answered DEF BlockElems
<1>2. x[1] \in 0 .. n * s - 1 /\ x[2] \in 0 .. n * s - 1 /\ x = <<x[1], x[2]>>
  BY <1>1, Answered
<1>. HIDE DEF s, n
<1>3. /\ c \in 0 .. n - 1 /\ j \in 0 .. s - 1 /\ x[1] = c * s + j
      /\ r \in 0 .. n - 1 /\ i \in 0 .. s - 1 /\ x[2] = r * s + i
  BY <1>1, <1>2, QuotientBound
<1>4. BlockAround(x) = <<c, r>>
  BY DEF BlockAround, s
<1>5. BlockAround(x) \in DOMAIN pat.block
  BY <1>3, <1>4, Shape DEF n
<1>. HIDE DEF c, r, i, j
<1>6. y \in 0 .. s * s - 1
  BY <1>1, <1>3, QuotientBound
<1>7. y \div s = i /\ y % s = j
  BY <1>1, <1>3, QuotientOf
<1>. HIDE DEF y
<1>8. y \in 0 .. BlockElems - 1
  BY <1>1, <1>6
<1>9. PointOf(pat, BlockAround(x), y) = <<BlockAround(x)[1] * s + (y % s), BlockAround(x)[2] * s + (y \div s)>>
  BY <1>5, <1>8, PointInBlock DEF s
<1>10. PointOf(pat, BlockAround(x), y) = <<c * s + j, r * s + i>>
  BY <1>4, <1>7, <1>9
<1>. QED  BY <1>2, <1>3, <1>5, <1>8, <1>10

\* Where the blocks of a unit are in its memory, ...
LEMMA LocalBlockPlace ==
    ASSUME Fixed, Multipliable, NEW u \in Team, NEW lb \in DOMAIN pat.cblock[u]
    PROVE  LET b == CoordsOfBlock(pat, u, lb)
               start == pat.cblock[u][lb].start
           IN  /\ b \in DOMAIN pat.block /\ start \in Nat
               /\ pat.size[u] \in Nat /\ start + BlockElems <= pat.size[u]
               /\ \A i \in 0 .. BlockElems - 1 : pat.place[PointOf(pat, b, i)] = [unit |-> u, index |-> start + i]
<1>. DEFINE b == CoordsOfBlock(pat, u, lb)
            start == pat.cblock[u][lb].start
<1>1. b \in DOMAIN pat.block
  BY BlocksOfUnit, Shape DEF CoordsOfBlock
<1>2. pat.block[b].lpos = [unit |-> u, index |-> start]
  BY Answered DEF Multiplied, Team
<1>3. pat.size[u] \in Nat
  BY Places
<1>. HIDE DEF b, start
<1>4. /\ [unit |-> u, index |-> start] \in [unit : Team, index : Nat]
      /\ start + BlockElems <= pat.size[u]
      /\ \A i \in 0 .. BlockElems - 1 : pat.place[PointOf(pat, b, i)] = [unit |-> u, index |-> start + i]
  BY <1>1, <1>2, BlockPlace
<1>5. start \in Nat
  BY <1>4
<1>. QED  BY <1>1, <1>3, <1>4, <1>5 DEF b, start

\* ... and that they are apart.
LEMMA BlocksApart ==
    ASSUME Fixed, Multipliable, NEW u \in Team, NEW lb \in DOMAIN pat.cblock[u], NEW l \in DOMAIN pat.cblock[u], l # lb,
           NEW i \in 0 .. BlockElems - 1
    PROVE  (pat.cblock[u][l].start + i) - pat.cblock[u][lb].start \notin 0 .. BlockElems - 1
<1>. DEFINE a == CoordsOfBlock(pat, u, lb)
            b == CoordsOfBlock(pat, u, l)
            j == (pat.cblock[u][l].start + i) - pat.cblock[u][lb].start
            first == pat.cblock[u][lb].start
            second == pat.cblock[u][l].start
<1>1. a # b
  BY Answered DEF Multiplied, Team
<1>. SUFFICES ASSUME j \in 0 .. BlockElems - 1 PROVE FALSE
  OBVIOUS
<1>2. /\ a \in DOMAIN pat.block /\ b \in DOMAIN pat.block /\ first \in Nat /\ second \in Nat
      /\ pat.place[PointOf(pat, a, j)] = [unit |-> u, index |-> first + j]
      /\ pat.place[PointOf(pat, b, i)] = [unit |-> u, index |-> second + i]
  <2>. HIDE DEF j
  <2>. QED  BY LocalBlockPlace
<1>3. first + j = second + i
  <2>1. j = (second + i) - first
    OBVIOUS
  <2>. HIDE DEF j, first, second
  <2>. QED  BY <1>2, <2>1
<1>. HIDE DEF a, b, j, first, second
<1>4. pat.place[PointOf(pat, a, j)] = pat.place[PointOf(pat, b, i)]
  BY <1>2, <1>3
<1>5. /\ PointOf(pat, a, j) \in DOMAIN pat.place /\ PointOf(pat, b, i) \in DOMAIN pat.place
      /\ BlockAround(PointOf(pat, a, j)) = a /\ BlockAround(PointOf(pat, b, i)) = b
  BY <1>2, PointInBlock, Answered
<1>6. PointOf(pat, a, j) = PointOf(pat, b, i)
  BY <1>4, <1>5, Places
<1>. QED  BY <1>1, <1>5, <1>6

\* Every block of C is a local block of one unit.
LEMMA BlockOwner ==
    ASSUME Fixed, Multipliable, NEW b \in DOMAIN pat.block
    PROVE  \E u \in Team : \E lb \in DOMAIN pat.cblock[u] : CoordsOfBlock(pat, u, lb) = b
BY Answered DEF Multiplied, Team

\* What a block of C has taken, its unit has multiplied.
LEMMA TakenByOwner ==
    ASSUME Fixed, Multipliable, NEW u \in Team, NEW lb \in DOMAIN pat.cblock[u]
    PROVE  TakenBy(CoordsOfBlock(pat, u, lb)) = Taken(u, lb)
<1>. DEFINE b == CoordsOfBlock(pat, u, lb)
            S(v) == {l \in DOMAIN pat.cblock[v] : CoordsOfBlock(pat, v, l) = b}
<1>1. S(u) = {lb} /\ \A v \in Team \ {u} : S(v) = {}
  BY Answered DEF Multiplied, Team
<1>2. TakenBy(b) = UNION {UNION {Taken(v, l) : l \in S(v)} : v \in Team}
  BY DEF TakenBy
<1>3. ASSUME NEW e PROVE e \in TakenBy(b) <=> \E v \in Team : \E l \in S(v) : e \in Taken(v, l)
  <2>. DEFINE U(v) == UNION {Taken(v, l) : l \in S(v)}
  <2>1. \A v : e \in U(v) <=> \E l \in S(v) : e \in Taken(v, l)
    <3>. HIDE DEF S
    <3>. QED  OBVIOUS
  <2>2. e \in TakenBy(b) <=> \E v \in Team : e \in U(v)
    <3>. HIDE DEF S
    <3>1. TakenBy(b) = UNION {U(v) : v \in Team}
      BY <1>2
    <3>. HIDE DEF U
    <3>. QED  BY <3>1
  <2>. HIDE DEF S, U
  <2>. QED  BY <2>1, <2>2
<1>. HIDE DEF S
<1>4. \A e : e \in TakenBy(b) <=> e \in Taken(u, lb)
  BY <1>1, <1>3
<1>. QED  BY <1>4

\* The elements of C a unit has are numbers.
NumbersInC ==
    /\ mem["C"] = [u \in Team |-> [o \in 0 .. pat.size[u] - 1 |-> mem["C"][u][o]]]
    /\ \A u \in Team : \A o \in 0 .. pat.size[u] - 1 : mem["C"][u][o] \in Int

LeftLast == \A u \in Team : pc[u] \in {"barrier", "done"} => LastBlock(u)

SumsTaken == \A x \in Blockwise!Points : Element("C", x) = SumOf(PanelSums(x), TakenBy(BlockAround(x)))

\* The panels a block has taken are panels.
LEMMA TakenInside ==
    ASSUME Fixed, Multipliable
    PROVE  /\ \A u \in Team : \A lb : Taken(u, lb) \subseteq 0 .. num_blocks_m - 1
           /\ \A b : TakenBy(b) \subseteq 0 .. num_blocks_m - 1
<1>1. ASSUME NEW u \in Team, NEW lb PROVE Taken(u, lb) \subseteq 0 .. num_blocks_m - 1
  <2>1. \A k \in 0 .. num_blocks_m - 1 : PanelOf(u, k) \in 0 .. num_blocks_m - 1
    BY PanelBounds
  <2>. QED  BY <2>1 DEF Taken
<1>2. ASSUME NEW b PROVE TakenBy(b) \subseteq 0 .. num_blocks_m - 1
  <2>. DEFINE U(u) == UNION {Taken(u, lb) : lb \in {l \in DOMAIN pat.cblock[u] : CoordsOfBlock(pat, u, l) = b}}
  <2>1. ASSUME NEW u \in Team PROVE U(u) \subseteq 0 .. num_blocks_m - 1
    BY <1>1
  <2>2. TakenBy(b) = UNION {U(u) : u \in Team}
    BY DEF TakenBy
  <2>. HIDE DEF U
  <2>. QED  BY <2>1, <2>2
<1>. QED  BY <1>1, <1>2

\* The invariant in terms of sums.
LEMMA SumsAre == Fixed /\ Multipliable => (ProductInv <=> NumbersInC /\ LeftLast /\ SumsTaken)
<1>. SUFFICES ASSUME Fixed, Multipliable PROVE ProductInv <=> NumbersInC /\ LeftLast /\ SumsTaken
  OBVIOUS
<1>1. ProductInv <=> /\ NumbersInC /\ LeftLast
                     /\ \A x \in Blockwise!Points : Element("C", x) = PanelsTaken(x, TakenBy(BlockAround(x)))
  BY Zenon DEF ProductInv, NumbersInC, LeftLast, PanelsTaken
<1>2. ASSUME NEW x \in Blockwise!Points
      PROVE  PanelsTaken(x, TakenBy(BlockAround(x))) = SumOf(PanelSums(x), TakenBy(BlockAround(x)))
  <2>1. TakenBy(BlockAround(x)) \in SUBSET (0 .. num_blocks_m - 1)
    BY TakenInside
  <2>. QED  BY <2>1, PanelsAre
<1>3. (\A x \in Blockwise!Points : Element("C", x) = PanelsTaken(x, TakenBy(BlockAround(x)))) <=> SumsTaken
  BY <1>2 DEF SumsTaken
<1>. QED  BY <1>1, <1>3

\* The same of the state after a step.
LEMMA SumsAreNext == Fixed' /\ Multipliable' => (ProductInv' <=> NumbersInC' /\ LeftLast' /\ SumsTaken')
BY SumsAre, PTL

\* The pattern does not change, nor does what it answers.
LEMMA StaysMultipliable ==
    ASSUME ProductInv, pat' = pat
    PROVE  Multipliable /\ Multipliable'
<1>1. Multipliable
  BY DEF ProductInv
<1>. QED  BY <1>1 DEF Multipliable

Owned(x, u, lb, i) ==
    /\ BlockAround(x) = CoordsOfBlock(pat, u, lb) /\ x = PointOf(pat, BlockAround(x), i)
    /\ pat.place[x] = [unit |-> u, index |-> pat.cblock[u][lb].start + i]
    /\ pat.cblock[u][lb].start + i \in 0 .. pat.size[u] - 1

\* Where the elements of C are.
LEMMA PointOwned ==
    ASSUME Fixed, Multipliable, NEW x \in Blockwise!Points
    PROVE  \E u \in Team : \E lb \in DOMAIN pat.cblock[u] : \E i \in 0 .. BlockElems - 1 : Owned(x, u, lb, i)
<1>1. BlockAround(x) \in DOMAIN pat.block
  BY BlockOfPoint
<1>2. PICK i \in 0 .. BlockElems - 1 : x = PointOf(pat, BlockAround(x), i)
  BY BlockOfPoint
<1>3. PICK u \in Team : \E lb \in DOMAIN pat.cblock[u] : CoordsOfBlock(pat, u, lb) = BlockAround(x)
  BY <1>1, BlockOwner
<1>4. PICK lb \in DOMAIN pat.cblock[u] : CoordsOfBlock(pat, u, lb) = BlockAround(x)
  BY <1>3
<1>. DEFINE start == pat.cblock[u][lb].start
<1>5. /\ pat.place[PointOf(pat, CoordsOfBlock(pat, u, lb), i)] = [unit |-> u, index |-> start + i]
      /\ start \in Nat /\ pat.size[u] \in Nat /\ start + BlockElems <= pat.size[u]
  BY LocalBlockPlace
<1>6. BlockElems \in Nat
  BY Shape
<1>7. start + i \in 0 .. pat.size[u] - 1
  <2>. HIDE DEF start
  <2>. QED  BY <1>5, <1>6
<1>8. pat.place[x] = [unit |-> u, index |-> start + i]
  BY <1>2, <1>4, <1>5
<1>. QED  BY <1>2, <1>4, <1>7, <1>8 DEF Owned

\* Whether u has multiplied for iteration j of its block lb.
Past(u, lb, j) ==
    \/ lb < at[u].lb
    \/ lb = at[u].lb /\ (j < at[u].k \/ (j = at[u].k /\ pc[u] \in {"await", "barrier", "done"}))

\* The panels of a local block follow from where its unit is.
LEMMA TakenSame ==
    ASSUME pat' = pat, NEW u, NEW lb,
           \A j \in 0 .. num_blocks_m - 1 : Past(u, lb, j)' <=> Past(u, lb, j)
    PROVE  Taken(u, lb)' = Taken(u, lb)
<1>1. num_blocks_m' = num_blocks_m /\ \A k : PanelOf(u, k)' = PanelOf(u, k)
  BY TablesSame
<1>2. Taken(u, lb) = {PanelOf(u, k) : k \in {j \in 0 .. num_blocks_m - 1 : Past(u, lb, j)}}
  BY Zenon DEF Taken, Past
<1>3. Taken(u, lb)' = {PanelOf(u, k)' : k \in {j \in 0 .. num_blocks_m' - 1 : Past(u, lb, j)'}}
  BY Zenon DEF Taken, Past
<1>4. {j \in 0 .. num_blocks_m' - 1 : Past(u, lb, j)'} = {j \in 0 .. num_blocks_m - 1 : Past(u, lb, j)}
  BY <1>1
<1>. DEFINE S == {j \in 0 .. num_blocks_m - 1 : Past(u, lb, j)}
<1>5. Taken(u, lb) = {PanelOf(u, k) : k \in S} /\ Taken(u, lb)' = {PanelOf(u, k)' : k \in S}
  BY <1>2, <1>3, <1>4
<1>. HIDE DEF S
<1>. QED  BY <1>1, <1>5

\* What the abstract specification sees.
CView     == [x \in (0 .. Extent - 1) \X (0 .. Extent - 1) |-> Element("C", x)]
AddedView == [b \in (0 .. num_blocks_m - 1) \X (0 .. num_blocks_m - 1) |-> TakenBy(b)]
ProductVars == <<Extent, block_size, CView, AddedView>>

\* What depends on the pattern alone.
LEMMA ProductSame ==
    ASSUME pat' = pat
    PROVE  /\ Extent' = Extent /\ block_size' = block_size /\ num_blocks_m' = num_blocks_m
           /\ Blockwise!Points' = Blockwise!Points
           /\ \A x : PanelSums(x)' = PanelSums(x)
           /\ \A x : BlockAround(x)' = BlockAround(x)
<1>1. Extent' = Extent /\ block_size' = block_size /\ num_blocks_m' = num_blocks_m
  BY DEF Extent, block_size, num_blocks_m
<1>2. Blockwise!Points' = Blockwise!Points
  BY <1>1 DEF Blockwise!Points
<1>3. \A x : TermAt(x)' = TermAt(x)
  BY <1>1 DEF TermAt
<1>4. \A v : PanelElems(v)' = PanelElems(v)
  BY <1>1 DEF PanelElems
<1>5. \A x : PanelSums(x)' = PanelSums(x)
  <2>. SUFFICES ASSUME NEW x PROVE PanelSums(x)' = PanelSums(x)
    OBVIOUS
  <2>1. \A v : SumOf(TermAt(x)', PanelElems(v)') = SumOf(TermAt(x), PanelElems(v))
    BY <1>3, <1>4
  <2>2. PanelSums(x)' = [v \in 0 .. num_blocks_m' - 1 |-> SumOf(TermAt(x)', PanelElems(v)')]
    BY DEF PanelSums
  <2>. QED  BY <1>1, <2>1, <2>2 DEF PanelSums
<1>6. \A x : BlockAround(x)' = BlockAround(x)
  BY <1>1 DEF BlockAround
<1>. QED  BY <1>1, <1>2, <1>5, <1>6

\* A step that adds nothing.
LEMMA NothingAdded ==
    ASSUME SummaInv, SummaInv', ProductInv, pat' = pat, mem'["C"] = mem["C"],
           \A u \in Team : \A lb \in DOMAIN pat.cblock[u] : Taken(u, lb)' = Taken(u, lb),
           \A u \in Team : pc'[u] \in {"barrier", "done"} => pc[u] \in {"barrier", "done"} /\ at'[u] = at[u]
    PROVE  ProductInv' /\ UNCHANGED ProductVars
<1>1. /\ Fixed /\ Fixed' /\ Multipliable /\ Multipliable'
      /\ NumbersInC /\ LeftLast /\ SumsTaken
  BY SumsAre, StaysMultipliable DEF SummaInv, TypeOK
<1>2. /\ Extent' = Extent /\ block_size' = block_size /\ num_blocks_m' = num_blocks_m
      /\ Blockwise!Points' = Blockwise!Points
      /\ \A x : PanelSums(x)' = PanelSums(x)
      /\ \A x : BlockAround(x)' = BlockAround(x)
  BY ProductSame
<1>3. \A b : TakenBy(b)' = TakenBy(b)
  <2>. SUFFICES ASSUME NEW b PROVE TakenBy(b)' = TakenBy(b)
    OBVIOUS
  <2>. DEFINE S(u) == {l \in DOMAIN pat.cblock[u] : CoordsOfBlock(pat, u, l) = b}
              T(u) == {Taken(u, lb) : lb \in S(u)}
              TN(u) == {Taken(u, lb)' : lb \in S(u)}
  <2>1. ASSUME NEW u \in Team PROVE TN(u) = T(u)
    OBVIOUS
  <2>2. TakenBy(b) = UNION {UNION T(u) : u \in Team}
    BY DEF TakenBy
  <2>3. TakenBy(b)' = UNION {UNION TN(u) : u \in Team}
    BY DEF TakenBy, Team, CoordsOfBlock
  <2>. HIDE DEF T, TN
  <2>. QED  BY <2>1, <2>2, <2>3
<1>4. \A x : Element("C", x)' = Element("C", x)
  BY DEF Element
<1>5. NumbersInC'
  BY <1>1 DEF NumbersInC, Team
<1>6. LeftLast'
  BY <1>1, AtSame DEF LeftLast, Team
<1>7. SumsTaken'
  BY <1>1, <1>2, <1>3, <1>4 DEF SumsTaken
<1>8. UNCHANGED ProductVars
  <2>1. CView' = CView
    BY <1>2, <1>4 DEF CView
  <2>2. AddedView' = AddedView
    BY <1>2, <1>3 DEF AddedView
  <2>. QED  BY <1>2, <2>1, <2>2 DEF ProductVars
<1>. QED  BY <1>1, <1>5, <1>6, <1>7, <1>8, SumsAreNext

\* Steps of one unit that multiply nothing.
LEMMA PhaseAdvances ==
    ASSUME SummaInv, SummaInv', ProductInv, NEW u \in Team, NEW q, pat' = pat, mem' = mem, at' = at,
           pc' = [pc EXCEPT ![u] = q],
           q \in {"await", "barrier", "done"} <=> pc[u] \in {"await", "barrier", "done"},
           q \in {"barrier", "done"} => pc[u] \in {"barrier", "done"}
    PROVE  ProductInv' /\ UNCHANGED ProductVars
<1>1. \A v \in Team : IF v = u THEN pc'[v] = q ELSE pc'[v] = pc[v]
  BY DEF SummaInv, TypeOK
<1>2. \A v \in Team : \A lb, j : Past(v, lb, j)' <=> Past(v, lb, j)
  BY <1>1 DEF Past
<1>3. \A v \in Team : \A lb \in DOMAIN pat.cblock[v] : Taken(v, lb)' = Taken(v, lb)
  BY <1>2, TakenSame
<1>. QED  BY <1>1, <1>3, NothingAdded

\* The next panel begins when the last one has been added.
LEMMA AwaitNextAdds ==
    ASSUME SummaInv, SummaInv', ProductInv, NEW u \in Team, AwaitNext(u)
    PROVE  ProductInv' /\ UNCHANGED ProductVars
<1>1. pc[u] = "await" /\ pat' = pat /\ mem' = mem /\ pc' = [pc EXCEPT ![u] = "prefetch"]
  BY DEF AwaitNext
<1>2. /\ \A v \in Team \ {u} : pc'[v] = pc[v] /\ at'[v] = at[v]
      /\ pc'[u] = "prefetch"
      /\ at'[u] = IF at[u].k = num_blocks_m - 1 THEN [lb |-> at[u].lb + 1, k |-> 0]
                  ELSE [lb |-> at[u].lb, k |-> at[u].k + 1]
  BY DEF AwaitNext, SummaInv, TypeOK
<1>3. at[u].lb \in Nat /\ at[u].k \in 0 .. num_blocks_m - 1 /\ num_blocks_m \in Nat \ {0}
  BY Shape DEF SummaInv, TypeOK
<1>4. ASSUME NEW lb \in DOMAIN pat.cblock[u] PROVE Taken(u, lb)' = Taken(u, lb)
  <2>1. lb \in Nat
    <3>1. PICK N \in Nat \ {0} : DOMAIN pat.cblock[u] = 0 .. N - 1
      BY BlocksOfUnit DEF SummaInv, TypeOK
    <3>. QED  BY <3>1
  <2>. DEFINE n == num_blocks_m
              k == at[u].k
              l == at[u].lb
  <2>2. ASSUME NEW j \in 0 .. n - 1 PROVE Past(u, lb, j)' <=> Past(u, lb, j)
    <3>1. Past(u, lb, j) <=> lb < l \/ (lb = l /\ j <= k)
      BY <1>1, <1>3 DEF Past
    <3>2. Past(u, lb, j)' <=> lb < at'[u].lb \/ (lb = at'[u].lb /\ j < at'[u].k)
      BY <1>2 DEF Past
    <3>3. CASE k = n - 1
      <4>1. at'[u].lb = l + 1 /\ at'[u].k = 0
        BY <1>2, <3>3
      <4>. HIDE DEF n, k, l
      <4>. QED  BY <1>3, <2>1, <3>1, <3>2, <3>3, <4>1 DEF n, k, l
    <3>4. CASE k # n - 1
      <4>1. at'[u].lb = l /\ at'[u].k = k + 1
        BY <1>2, <3>4
      <4>. HIDE DEF n, k, l
      <4>. QED  BY <1>3, <2>1, <3>1, <3>2, <3>4, <4>1 DEF n, k, l
    <3>. QED  BY <3>3, <3>4
  <2>. QED  BY <1>1, <2>2, TakenSame
<1>5. ASSUME NEW v \in Team \ {u}, NEW lb \in DOMAIN pat.cblock[v] PROVE Taken(v, lb)' = Taken(v, lb)
  <2>1. \A j : Past(v, lb, j)' <=> Past(v, lb, j)
    BY <1>2 DEF Past
  <2>. QED  BY <1>1, <2>1, TakenSame
<1>6. \A v \in Team : pc'[v] \in {"barrier", "done"} => pc[v] \in {"barrier", "done"} /\ at'[v] = at[v]
  BY <1>2
<1>. QED  BY <1>1, <1>4, <1>5, <1>6, NothingAdded

\* What multiplying a block of A and one of B adds to an element of C.
LEMMA BlockTerms ==
    ASSUME Fixed, Multipliable, NEW d \in DOMAIN pat.block, NEW p \in 0 .. num_blocks_m - 1, NEW i \in 0 .. BlockElems - 1
    PROVE  LET terms == TermsOf(BlockData("A", <<p, d[2]>>), BlockData("B", <<d[1], p>>),
                                i \div block_size, i % block_size)
           IN  /\ \A k \in 0 .. block_size - 1 : terms[k] \in Int
               /\ SumOf(terms, 0 .. block_size - 1) = PanelSums(PointOf(pat, d, i))[p]
<1>. DEFINE s == block_size
            n == num_blocks_m
            q == i \div s
            r == i % s
            x == PointOf(pat, d, i)
            a == <<p, d[2]>>
            b == <<d[1], p>>
            terms == TermsOf(BlockData("A", a), BlockData("B", b), q, r)
            base == p * s
<1>1. s \in Nat \ {0} /\ n \in Nat \ {0} /\ BlockElems = s * s /\ DOMAIN pat.block = (0 .. n - 1) \X (0 .. n - 1)
  BY Shape DEF BlockElems
<1>2. q \in 0 .. s - 1 /\ r \in 0 .. s - 1 /\ x = <<d[1] * s + r, d[2] * s + q>> /\ x \in Blockwise!Points
  BY PointInBlock
<1>3. a \in DOMAIN pat.block /\ b \in DOMAIN pat.block
  BY <1>1
<1>4. base \in Nat /\ PanelElems(p) = base .. base + s - 1 /\ PanelElems(p) \subseteq 0 .. Extent - 1
  <2>1. (p + 1) * s = base + s /\ base \in Nat /\ PanelElems(p) \subseteq 0 .. Extent - 1
    BY PanelInside
  <2>2. PanelElems(p) = base .. (p + 1) * s - 1
    BY DEF PanelElems
  <2>3. (p + 1) * s - 1 = base + s - 1
    <3>. HIDE DEF base, s
    <3>. QED  BY <1>1, <2>1
  <2>. QED  BY <2>1, <2>2, <2>3, Zenon
<1>5. ASSUME NEW k \in 0 .. s - 1
      PROVE  /\ TermAt(x)[base + k] \in Int
             /\ terms[k] = TermAt(x)[base + k]
  <2>. DEFINE y == q * s + k
              z == k * s + r
  <2>1. /\ y \in 0 .. BlockElems - 1 /\ y \div s = q /\ y % s = k
        /\ z \in 0 .. BlockElems - 1 /\ z \div s = k /\ z % s = r
    <3>. HIDE DEF q, r, s
    <3>1. s \in Nat \ {0} /\ s \in Nat /\ q \in 0 .. s - 1 /\ q \in Int /\ r \in 0 .. s - 1 /\ k \in Int
      BY <1>1, <1>2
    <3>2. y \in 0 .. s * s - 1 /\ z \in 0 .. s * s - 1
      BY <3>1, QuotientBound
    <3>3. y \div s = q /\ y % s = k /\ z \div s = k /\ z % s = r
      BY <3>1, QuotientOf
    <3>. QED  BY <1>1, <3>2, <3>3
  <2>2. base + k \in 0 .. Extent - 1
    <3>1. base + k \in base .. base + s - 1
      <4>. HIDE DEF base, s
      <4>. QED  BY <1>1, <1>4
    <3>. QED  BY <1>4, <3>1
  <2>3. BlockData("A", a)[y] = Values["A"][<<base + k, d[2] * s + q>>]
    <3>1. PointOf(pat, a, y) = <<a[1] * s + (y % s), a[2] * s + (y \div s)>>
      <4>. HIDE DEF a, y
      <4>. QED  BY <1>3, <2>1, PointInBlock
    <3>2. BlockData("A", a)[y] = Values["A"][PointOf(pat, a, y)]
      <4>. HIDE DEF a, y
      <4>. QED  BY <2>1 DEF BlockData
    <3>3. a[1] = p /\ a[2] = d[2]
      OBVIOUS
    <3>. HIDE DEF a, y, q
    <3>. QED  BY <2>1, <3>1, <3>2, <3>3
  <2>4. BlockData("B", b)[z] = Values["B"][<<d[1] * s + r, base + k>>]
    <3>1. PointOf(pat, b, z) = <<b[1] * s + (z % s), b[2] * s + (z \div s)>>
      <4>. HIDE DEF b, z
      <4>. QED  BY <1>3, <2>1, PointInBlock
    <3>2. BlockData("B", b)[z] = Values["B"][PointOf(pat, b, z)]
      <4>. HIDE DEF b, z
      <4>. QED  BY <2>1 DEF BlockData
    <3>3. b[1] = d[1] /\ b[2] = p
      OBVIOUS
    <3>. HIDE DEF b, z, r
    <3>. QED  BY <2>1, <3>1, <3>2, <3>3
  <2>5. terms[k] = BlockData("A", a)[y] * BlockData("B", b)[z]
    BY DEF TermsOf
  <2>6. x[1] = d[1] * s + r /\ x[2] = d[2] * s + q
    <3>. HIDE DEF x
    <3>. QED  BY <1>2
  <2>7. TermAt(x)[base + k] = Values["A"][<<base + k, x[2]>>] * Values["B"][<<x[1], base + k>>]
    <3>. HIDE DEF x, base
    <3>. QED  BY <2>2 DEF TermAt
  <2>8. TermAt(x)[base + k] \in Int
    BY <1>2, <2>2, TermsAreNumbers
  <2>. HIDE DEF x, y, z, q, r, a, b, base, s, terms
  <2>. QED  BY <2>3, <2>4, <2>5, <2>6, <2>7, <2>8
<1>6. PanelSums(x)[p] = SumOf(TermAt(x), base .. base + s - 1)
  BY <1>4 DEF PanelSums
<1>. HIDE DEF x, terms, base, s
<1>. DEFINE f == TermAt(x)
            z == 0
<1>7. \A k \in 0 .. s - 1 : f[base + k] \in Int /\ terms[z + k] = f[base + k]
  BY <1>5
<1>8. SumOf(f, base .. base + s - 1) = SumOf(terms, z .. z + s - 1)
  <2>1. z \in Int /\ base \in Int /\ s \in Nat
    BY <1>1, <1>4
  <2>. HIDE DEF f, z
  <2>2. SameTerms(f, base, terms, z, s)
    BY <1>7 DEF SameTerms
  <2>3. SumOf(f, Span(base, s)) = SumOf(terms, Span(z, s))
    BY <2>1, <2>2, SumOfShift
  <2>. QED  BY <2>3 DEF Span
<1>9. \A k \in 0 .. s - 1 : terms[k] \in Int
  BY <1>5
<1>10. 0 + s - 1 = s - 1
  BY <1>1
<1>. QED  BY <1>6, <1>8, <1>9, <1>10 DEF x, terms, s

\* A multiplication is the step of its panel: what else is taken is not.
LEMMA MultiplyTakes ==
    ASSUME SummaInv, NEW u \in Team, Multiply(u)
    PROVE  LET p == PanelOf(u, at[u].k)
           IN  /\ p \in 0 .. num_blocks_m - 1
               /\ p \notin Taken(u, at[u].lb)
               /\ \A v \in Team : \A lb \in DOMAIN pat.cblock[v] :
                     Taken(v, lb)' = IF v = u /\ lb = at[u].lb THEN Taken(v, lb) \cup {p} ELSE Taken(v, lb)
<1>. DEFINE p == PanelOf(u, at[u].k)
            n == num_blocks_m
<1>1. pc[u] = "multiply" /\ pat' = pat /\ at' = at /\ pc' = [pc EXCEPT ![u] = IF LastBlock(u) THEN "barrier" ELSE "await"]
  BY DEF Multiply
<1>2. (\A v \in Team \ {u} : pc'[v] = pc[v]) /\ pc'[u] \in {"barrier", "await"}
  BY <1>1 DEF SummaInv, TypeOK
<1>3. /\ at[u].k \in 0 .. n - 1 /\ n \in Nat \ {0} /\ pat.column[u] \in 0 .. n - 1 /\ at[u].k \in Nat
      /\ Fixed
  BY Shape, BlocksOfUnit DEF SummaInv, TypeOK
<1>4. p \in 0 .. n - 1
  BY <1>3, PanelBounds
<1>5. ASSUME NEW j \in 0 .. n - 1, PanelOf(u, j) = p PROVE j = at[u].k
  <2>1. (j + pat.column[u]) % n = (at[u].k + pat.column[u]) % n
    BY <1>5 DEF PanelOf
  <2>. HIDE DEF n, p
  <2>. QED  BY <1>3, <2>1, Rotation
<1>6. p \notin Taken(u, at[u].lb)
  <2>1. \A j \in 0 .. n - 1 : Past(u, at[u].lb, j) => j < at[u].k
    BY <1>1 DEF Past, SummaInv, TypeOK
  <2>2. Taken(u, at[u].lb) = {PanelOf(u, j) : j \in {i \in 0 .. n - 1 : Past(u, at[u].lb, i)}}
    BY Zenon DEF Taken, Past
  <2>. SUFFICES ASSUME p \in Taken(u, at[u].lb) PROVE FALSE
    OBVIOUS
  <2>3. PICK j \in 0 .. n - 1 : Past(u, at[u].lb, j) /\ p = PanelOf(u, j)
    BY <2>2
  <2>4. j = at[u].k
    BY <1>5, <2>3
  <2>. QED  BY <1>3, <2>1, <2>3, <2>4
<1>7. ASSUME NEW v \in Team, NEW lb \in DOMAIN pat.cblock[v], v # u \/ lb # at[u].lb
      PROVE  Taken(v, lb)' = Taken(v, lb)
  <2>1. \A j : Past(v, lb, j)' <=> Past(v, lb, j)
    BY <1>1, <1>2, <1>7 DEF Past
  <2>. QED  BY <1>1, <2>1, TakenSame
<1>8. ASSUME NEW lb \in DOMAIN pat.cblock[u], lb = at[u].lb
      PROVE  Taken(u, lb)' = Taken(u, lb) \cup {p}
  <2>. DEFINE k == at[u].k
              S == {j \in 0 .. n - 1 : Past(u, lb, j)}
              SN == {j \in 0 .. n - 1 : j <= k}
  <2>1. S = {j \in 0 .. n - 1 : j < k}
    <3>1. at[u].lb \in Nat
      BY DEF SummaInv, TypeOK
    <3>2. \A j : Past(u, lb, j) <=> j < k
      BY <1>1, <1>8, <3>1 DEF Past
    <3>. QED  BY <3>2
  <2>2. \A j \in 0 .. n - 1 : Past(u, lb, j)' <=> j <= k
    <3>1. at[u].lb \in Nat
      BY DEF SummaInv, TypeOK
    <3>2. \A j : Past(u, lb, j)' <=> (j < k \/ j = k)
      BY <1>1, <1>2, <1>8, <3>1 DEF Past
    <3>. HIDE DEF n, k
    <3>. QED  BY <1>3, <3>2 DEF k
  <2>3. Taken(u, lb) = {PanelOf(u, j) : j \in S}
    BY Zenon DEF Taken, Past
  <2>4. Taken(u, lb)' = {PanelOf(u, j) : j \in SN}
    <3>1. n' = n /\ \A j : PanelOf(u, j)' = PanelOf(u, j)
      BY <1>1, TablesSame
    <3>2. Taken(u, lb)' = {PanelOf(u, j)' : j \in {i \in 0 .. n' - 1 : Past(u, lb, i)'}}
      BY Zenon DEF Taken, Past
    <3>3. {i \in 0 .. n' - 1 : Past(u, lb, i)'} = SN
      BY <2>2, <3>1
    <3>. HIDE DEF SN
    <3>. QED  BY <3>1, <3>2, <3>3
  <2>5. SN = S \cup {k}
    <3>. HIDE DEF n, S, k
    <3>. QED  BY <1>3, <2>1 DEF k
  <2>. HIDE DEF S, SN
  <2>. QED  BY <2>3, <2>4, <2>5
<1>. QED  BY <1>4, <1>6, <1>7, <1>8

\* What a multiplication writes.
LEMMA MultiplyWrites ==
    ASSUME SummaInv, Multipliable, NumbersInC, NEW u \in Team, Multiply(u)
    PROVE  LET d == CoordsOfBlock(pat, u, at[u].lb)
               p == PanelOf(u, at[u].k)
               start == pat.cblock[u][at[u].lb].start
           IN  /\ mem'["C"] = [v \in Team |-> [o \in 0 .. pat.size[v] - 1 |-> mem'["C"][v][o]]]
               /\ \A v \in Team \ {u} : mem'["C"][v] = mem["C"][v]
               /\ \A o \in 0 .. pat.size[u] - 1 :
                     mem'["C"][u][o] = IF o - start \in 0 .. BlockElems - 1
                                       THEN mem["C"][u][o] + PanelSums(PointOf(pat, d, o - start))[p]
                                       ELSE mem["C"][u][o]
<1>. DEFINE lb == at[u].lb
            d == CoordsOfBlock(pat, u, lb)
            p == PanelOf(u, at[u].k)
            start == pat.cblock[u][lb].start
            a == Contents(u, "A", ptr[u]["A"].comp)
            b == Contents(u, "B", ptr[u]["B"].comp)
            c == [x \in 0 .. BlockElems - 1 |-> mem["C"][u][start + x]]
            sum == MultiplyLocal(a, b, c)
<1>1. /\ Fixed /\ TypeOK /\ UnitInv(u) /\ pc[u] = "multiply"
      /\ lb \in DOMAIN pat.cblock[u] /\ at[u].k \in Nat
  <2>1. TypeOK /\ UnitInv(u) /\ pc[u] = "multiply"
    BY DEF SummaInv, Multiply
  <2>2. Fixed /\ lb \in DOMAIN pat.cblock[u] /\ at[u].k \in 0 .. num_blocks_m - 1
    BY <2>1 DEF TypeOK
  <2>. QED  BY <2>1, <2>2
<1>2. mem' = [mem EXCEPT !["C"][u] = [o \in DOMAIN @ |-> IF o - start \in 0 .. BlockElems - 1 THEN sum[o - start] ELSE @[o]]]
  BY DEF Multiply
<1>3. a = BlockData("A", <<p, d[2]>>) /\ b = BlockData("B", <<d[1], p>>)
  <2>1. \A m \in Operands : Contents(u, m, ptr[u][m].comp) = BlockData(m, Coords(u)[m])
    BY <1>1 DEF UnitInv, ReadyInv
  <2>2. Coords(u)["A"] = <<p, d[2]>> /\ Coords(u)["B"] = <<d[1], p>>
    BY DEF Coords, CoordsFor, Operands, CoordsOfBlock
  <2>3. "A" \in Operands /\ "B" \in Operands
    BY DEF Operands
  <2>4. Contents(u, "A", ptr[u]["A"].comp) = BlockData("A", Coords(u)["A"])
    BY <2>1, <2>3
  <2>5. Contents(u, "B", ptr[u]["B"].comp) = BlockData("B", Coords(u)["B"])
    BY <2>1, <2>3
  <2>. QED  BY <2>2, <2>4, <2>5
<1>4. d \in DOMAIN pat.block /\ start \in Nat /\ pat.size[u] \in Nat /\ start + BlockElems <= pat.size[u]
  BY <1>1, LocalBlockPlace
<1>5. p \in 0 .. num_blocks_m - 1
  BY <1>1, PanelBounds
<1>6. ASSUME NEW i \in 0 .. BlockElems - 1
      PROVE  sum[i] = mem["C"][u][start + i] + PanelSums(PointOf(pat, d, i))[p]
  <2>. DEFINE terms == TermsOf(a, b, i \div block_size, i % block_size)
  <2>1. block_size \in Nat
    BY <1>1, Shape
  <2>. HIDE DEF a, b, c, d, p, start
  <2>2. terms = TermsOf(BlockData("A", <<p, d[2]>>), BlockData("B", <<d[1], p>>), i \div block_size, i % block_size)
    BY <1>3
  <2>3. (\A k \in 0 .. block_size - 1 : terms[k] \in Int) /\ SumOf(terms, 0 .. block_size - 1) = PanelSums(PointOf(pat, d, i))[p]
    <3>. HIDE DEF terms
    <3>. QED  BY <1>1, <1>4, <1>5, <2>2, BlockTerms
  <2>4. sum[i] = c[i] + SumOf(terms, 0 .. block_size - 1)
    BY <2>1, <2>3, MultiplyLocalIs
  <2>5. c[i] = mem["C"][u][start + i]
    BY DEF c
  <2>. QED  BY <2>3, <2>4, <2>5
<1>. HIDE DEF sum
<1>7. /\ mem["C"] = [v \in Team |-> [o \in 0 .. pat.size[v] - 1 |-> mem["C"][v][o]]]
      /\ mem = [m \in {"A", "B", "C"} |-> mem[m]]
  BY <1>1 DEF NumbersInC, Fixed
<1>. DEFINE e == [o \in 0 .. pat.size[u] - 1 |-> IF o - start \in 0 .. BlockElems - 1 THEN sum[o - start] ELSE mem["C"][u][o]]
<1>8. mem'["C"] = [mem["C"] EXCEPT ![u] = e]
  <2>1. mem["C"][u] = [o \in 0 .. pat.size[u] - 1 |-> mem["C"][u][o]]
    BY <1>7
  <2>2. DOMAIN mem["C"][u] = 0 .. pat.size[u] - 1
    BY <2>1
  <2>. DEFINE f == [o \in DOMAIN mem["C"][u] |-> IF o - start \in 0 .. BlockElems - 1 THEN sum[o - start] ELSE mem["C"][u][o]]
  <2>3. f = e
    BY <2>2
  <2>4. mem' = [mem EXCEPT !["C"] = [mem["C"] EXCEPT ![u] = f]]
    BY <1>2
  <2>. HIDE DEF f, e
  <2>. QED  BY <1>7, <2>3, <2>4
<1>9. mem'["C"] = [v \in Team |-> IF v = u THEN e ELSE mem["C"][v]]
  <2>. HIDE DEF e
  <2>. QED  BY <1>7, <1>8
<1>10. mem'["C"] = [v \in Team |-> [o \in 0 .. pat.size[v] - 1 |-> mem'["C"][v][o]]]
  <2>1. ASSUME NEW v \in Team PROVE mem'["C"][v] = [o \in 0 .. pat.size[v] - 1 |-> mem'["C"][v][o]]
    <3>1. CASE v = u
      <4>1. mem'["C"][v] = e
        <5>. HIDE DEF e
        <5>. QED  BY <1>9, <3>1
      <4>. QED  BY <3>1, <4>1
    <3>2. CASE v # u
      <4>1. mem'["C"][v] = mem["C"][v]
        <5>. HIDE DEF e
        <5>. QED  BY <1>9, <3>2
      <4>. QED  BY <1>7, <4>1
    <3>. QED  BY <3>1, <3>2
  <2>2. mem'["C"] = [v \in Team |-> mem'["C"][v]]
    BY <1>9
  <2>. QED  BY <2>1, <2>2
<1>11. \A v \in Team \ {u} : mem'["C"][v] = mem["C"][v]
  <2>. HIDE DEF e
  <2>. QED  BY <1>9
<1>12. ASSUME NEW o \in 0 .. pat.size[u] - 1
       PROVE  mem'["C"][u][o] = IF o - start \in 0 .. BlockElems - 1
                                THEN mem["C"][u][o] + PanelSums(PointOf(pat, d, o - start))[p] ELSE mem["C"][u][o]
  <2>1. mem'["C"][u][o] = IF o - start \in 0 .. BlockElems - 1 THEN sum[o - start] ELSE mem["C"][u][o]
    BY <1>9
  <2>2. start + (o - start) = o
    BY <1>4
  <2>. QED  BY <1>6, <2>1, <2>2
<1>. QED  BY <1>10, <1>11, <1>12

OwnersTake ==
    \A u \in Team : \A lb \in DOMAIN pat.cblock[u] : TakenBy(CoordsOfBlock(pat, u, lb)) = Taken(u, lb)

\* The panels a block has taken are those its owner has multiplied, ...
LEMMA TakenByOwners == Fixed /\ Multipliable => OwnersTake
BY TakenByOwner DEF OwnersTake

\* ... also after a step.
LEMMA TakenByOwnersNext == Fixed' /\ Multipliable' => OwnersTake'
BY TakenByOwners, PTL

\* A multiplication adds a panel to one block of C.
LEMMA MultiplyAdds ==
    ASSUME SummaInv, SummaInv', ProductInv, NEW u \in Team, Multiply(u)
    PROVE  LET d == CoordsOfBlock(pat, u, at[u].lb)
               p == PanelOf(u, at[u].k)
           IN  /\ d \in DOMAIN pat.block /\ p \in 0 .. num_blocks_m - 1 /\ p \notin TakenBy(d)
               /\ \A b \in DOMAIN pat.block : TakenBy(b)' = IF b = d THEN TakenBy(b) \cup {p} ELSE TakenBy(b)
               /\ \A x \in Blockwise!Points :
                     Element("C", x)' = IF BlockAround(x) = d THEN Element("C", x) + PanelSums(x)[p] ELSE Element("C", x)
               /\ NumbersInC' /\ LeftLast'
<1>. DEFINE d == CoordsOfBlock(pat, u, at[u].lb)
            p == PanelOf(u, at[u].k)
            start == pat.cblock[u][at[u].lb].start
<1>1. /\ Fixed /\ Fixed' /\ Multipliable /\ Multipliable' /\ NumbersInC /\ LeftLast /\ pat' = pat
      /\ at[u].lb \in DOMAIN pat.cblock[u]
  BY SumsAre, StaysMultipliable DEF SummaInv, TypeOK, Multiply
<1>2. /\ p \in 0 .. num_blocks_m - 1
      /\ p \notin Taken(u, at[u].lb)
      /\ \A v \in Team : \A lb \in DOMAIN pat.cblock[v] :
            Taken(v, lb)' = IF v = u /\ lb = at[u].lb THEN Taken(v, lb) \cup {p} ELSE Taken(v, lb)
  BY MultiplyTakes
<1>3. /\ mem'["C"] = [v \in Team |-> [o \in 0 .. pat.size[v] - 1 |-> mem'["C"][v][o]]]
      /\ \A v \in Team \ {u} : mem'["C"][v] = mem["C"][v]
      /\ \A o \in 0 .. pat.size[u] - 1 :
            mem'["C"][u][o] = IF o - start \in 0 .. BlockElems - 1
                              THEN mem["C"][u][o] + PanelSums(PointOf(pat, d, o - start))[p]
                              ELSE mem["C"][u][o]
  BY <1>1, MultiplyWrites
<1>4. \A v \in Team : \A lb \in DOMAIN pat.cblock[v] : CoordsOfBlock(pat, v, lb) = d <=> v = u /\ lb = at[u].lb
  BY <1>1, Answered DEF Multiplied, Team
<1>5. \A v \in Team : \A lb \in DOMAIN pat.cblock[v] :
         /\ TakenBy(CoordsOfBlock(pat, v, lb)) = Taken(v, lb)
         /\ TakenBy(CoordsOfBlock(pat, v, lb))' = Taken(v, lb)'
  BY <1>1, TakenByOwners, TakenByOwnersNext DEF OwnersTake, CoordsOfBlock, Team
<1>6. d \in DOMAIN pat.block /\ start \in Nat
  BY <1>1, LocalBlockPlace
<1>7. p \notin TakenBy(d)
  BY <1>1, <1>2, <1>5
<1>8. ASSUME NEW b \in DOMAIN pat.block
      PROVE  TakenBy(b)' = IF b = d THEN TakenBy(b) \cup {p} ELSE TakenBy(b)
  <2>. HIDE DEF p
  <2>1. PICK v \in Team : \E lb \in DOMAIN pat.cblock[v] : CoordsOfBlock(pat, v, lb) = b
    BY <1>1, BlockOwner
  <2>2. PICK lb \in DOMAIN pat.cblock[v] : CoordsOfBlock(pat, v, lb) = b
    BY <2>1
  <2>3. TakenBy(b) = Taken(v, lb)
    BY <1>5, <2>2
  <2>4. TakenBy(b)' = Taken(v, lb)'
    <3>1. TakenBy(CoordsOfBlock(pat, v, lb))' = Taken(v, lb)'
      BY <1>5
    <3>2. CoordsOfBlock(pat, v, lb)' = b
      BY <1>1, <2>2 DEF CoordsOfBlock
    <3>. QED  BY <3>1, <3>2 DEF TakenBy
  <2>5. b = d <=> v = u /\ lb = at[u].lb
    BY <1>4, <2>2
  <2>. HIDE DEF d
  <2>. QED  BY <1>2, <2>3, <2>4, <2>5
<1>9. ASSUME NEW x \in Blockwise!Points
      PROVE  Element("C", x)' = IF BlockAround(x) = d THEN Element("C", x) + PanelSums(x)[p] ELSE Element("C", x)
  <2>1. PICK v \in Team : \E lb \in DOMAIN pat.cblock[v] : \E i \in 0 .. BlockElems - 1 :
              Owned(x, v, lb, i)
    BY <1>1, PointOwned
  <2>2. PICK lb \in DOMAIN pat.cblock[v] : \E i \in 0 .. BlockElems - 1 : Owned(x, v, lb, i)
    BY <2>1
  <2>3. PICK i \in 0 .. BlockElems - 1 :
              /\ BlockAround(x) = CoordsOfBlock(pat, v, lb) /\ x = PointOf(pat, BlockAround(x), i)
              /\ pat.place[x] = [unit |-> v, index |-> pat.cblock[v][lb].start + i]
              /\ pat.cblock[v][lb].start + i \in 0 .. pat.size[v] - 1
    BY <2>2 DEF Owned
  <2>. DEFINE o == pat.cblock[v][lb].start + i
  <2>4. Element("C", x) = mem["C"][v][o] /\ Element("C", x)' = mem'["C"][v][o]
    BY <1>1, <2>3 DEF Element
  <2>5. CASE v # u
    BY <1>3, <1>4, <2>3, <2>4, <2>5
  <2>6. CASE v = u /\ lb # at[u].lb
    <3>1. o - start \notin 0 .. BlockElems - 1
      <4>1. (pat.cblock[u][lb].start + i) - pat.cblock[u][at[u].lb].start \notin 0 .. BlockElems - 1
        <5>1. lb \in DOMAIN pat.cblock[u]
          BY <2>6
        <5>. QED  BY <1>1, <2>6, <5>1, BlocksApart
      <4>2. o - start = (pat.cblock[u][lb].start + i) - pat.cblock[u][at[u].lb].start
        <5>1. o = pat.cblock[u][lb].start + i
          BY <2>6
        <5>. QED  BY <5>1, Zenon
      <4>. HIDE DEF o, start
      <4>. QED  BY <4>1, <4>2, Zenon
    <3>2. BlockAround(x) # d
      BY <1>4, <2>3, <2>6
    <3>. HIDE DEF start, d, p, o
    <3>3. o \in 0 .. pat.size[u] - 1
      BY <2>3, <2>6 DEF o
    <3>4. mem'["C"][u][o] = mem["C"][u][o]
      BY <1>3, <3>1, <3>3
    <3>. QED  BY <2>4, <2>6, <3>2, <3>4
  <2>7. CASE v = u /\ lb = at[u].lb
    <3>1. BlockAround(x) = d
      BY <2>3, <2>7
    <3>2. o = start + i
      BY <2>7
    <3>. HIDE DEF start, d, p, o
    <3>3. o - start = i /\ o \in 0 .. pat.size[u] - 1
      BY <1>6, <2>3, <2>7, <3>2 DEF o
    <3>4. mem'["C"][u][o] = mem["C"][u][o] + PanelSums(PointOf(pat, d, i))[p]
      BY <1>3, <3>3
    <3>. QED  BY <2>3, <2>4, <2>7, <3>1, <3>4
  <2>. QED  BY <2>5, <2>6, <2>7
<1>10. NumbersInC'
  <2>1. \A v \in Team : \A o \in 0 .. pat.size[v] - 1 : mem["C"][v][o] \in Int
    BY <1>1 DEF NumbersInC
  <2>2. ASSUME NEW o \in 0 .. pat.size[u] - 1 PROVE mem'["C"][u][o] \in Int
    <3>. HIDE DEF start, d, p
    <3>1. CASE o - start \in 0 .. BlockElems - 1
      <4>1. PointOf(pat, d, o - start) \in Blockwise!Points
        BY <1>1, <1>6, <3>1, PointInBlock
      <4>2. PanelSums(PointOf(pat, d, o - start))[p] \in Int
        BY <1>1, <1>2, <4>1, TermsAreNumbers
      <4>3. mem'["C"][u][o] = mem["C"][u][o] + PanelSums(PointOf(pat, d, o - start))[p]
        BY <1>3, <3>1
      <4>4. mem["C"][u][o] \in Int
        BY <2>1
      <4>. QED  BY <4>2, <4>3, <4>4
    <3>2. CASE o - start \notin 0 .. BlockElems - 1
      BY <1>3, <2>1, <3>2
    <3>. QED  BY <3>1, <3>2
  <2>3. \A v \in Team : \A o \in 0 .. pat.size[v] - 1 : mem'["C"][v][o] \in Int
    BY <1>3, <2>1, <2>2
  <2>4. Team' = Team
    BY <1>1, TablesSame
  <2>. HIDE DEF start, d, p
  <2>. QED  BY <1>1, <1>3, <2>3, <2>4 DEF NumbersInC
<1>11. LeftLast'
  <2>1. \A v \in Team : LastBlock(v)' <=> LastBlock(v)
    BY <1>1, AtSame DEF Multiply
  <2>2. \A v \in Team : pc'[v] \in {"barrier", "done"} => LastBlock(v)
    BY <1>1 DEF Multiply, LeftLast, SummaInv, TypeOK
  <2>. QED  BY <1>1, <2>1, <2>2 DEF LeftLast, Team
<1>. QED  BY <1>2, <1>6, <1>7, <1>8, <1>9, <1>10, <1>11

\* So it is a step of BlockProduct.
LEMMA MultiplyIsAdd ==
    ASSUME SummaInv, SummaInv', ProductInv, NEW u \in Team, Multiply(u)
    PROVE  ProductInv' /\ Blockwise!PNext
<1>. DEFINE d == CoordsOfBlock(pat, u, at[u].lb)
            p == PanelOf(u, at[u].k)
<1>1. Fixed /\ Fixed' /\ Multipliable /\ Multipliable' /\ pat' = pat /\ SumsTaken /\ NumbersInC
  BY SumsAre, StaysMultipliable DEF SummaInv, TypeOK, Multiply
<1>2. /\ d \in DOMAIN pat.block /\ p \in 0 .. num_blocks_m - 1 /\ p \notin TakenBy(d)
      /\ \A b \in DOMAIN pat.block : TakenBy(b)' = IF b = d THEN TakenBy(b) \cup {p} ELSE TakenBy(b)
      /\ \A x \in Blockwise!Points :
            Element("C", x)' = IF BlockAround(x) = d THEN Element("C", x) + PanelSums(x)[p] ELSE Element("C", x)
      /\ NumbersInC' /\ LeftLast'
  BY MultiplyAdds
<1>. HIDE DEF d, p
<1>3. /\ Extent' = Extent /\ block_size' = block_size /\ num_blocks_m' = num_blocks_m
      /\ Blockwise!Points' = Blockwise!Points
      /\ \A x : PanelSums(x)' = PanelSums(x)
      /\ \A x : BlockAround(x)' = BlockAround(x)
  BY <1>1, ProductSame
<1>4. SumsTaken'
  <2>. SUFFICES ASSUME NEW x \in Blockwise!Points
                PROVE  Element("C", x)' = SumOf(PanelSums(x), TakenBy(BlockAround(x))')
    BY <1>3 DEF SumsTaken
  <2>1. PICK b \in DOMAIN pat.block : BlockAround(x) = b
    BY <1>1, BlockOfPoint
  <2>. DEFINE T == TakenBy(b)
              f == PanelSums(x)
  <2>2. TakenBy(BlockAround(x))' = TakenBy(b)' /\ TakenBy(BlockAround(x)) = T
    BY <1>3, <2>1 DEF TakenBy
  <2>3. Element("C", x) = SumOf(f, T)
    BY <1>1, <2>2 DEF SumsTaken
  <2>4. CASE b = d
    <3>1. TakenBy(b)' = T \cup {p} /\ p \notin T
      BY <1>2, <2>4
    <3>2. T \subseteq 0 .. num_blocks_m - 1
      BY <1>1, TakenInside
    <3>3. IsFiniteSet(T)
      <4>1. num_blocks_m \in Nat
        BY <1>1, Shape
      <4>2. IsFiniteSet(0 .. num_blocks_m - 1)
        BY <4>1, FS_Interval
      <4>. QED  BY <3>2, <4>2, FS_Subset
    <3>4. \A v \in 0 .. num_blocks_m - 1 : f[v] \in Int
      BY <1>1, TermsAreNumbers
    <3>5. Element("C", x)' = Element("C", x) + f[p]
      BY <1>2, <2>1, <2>4
    <3>. HIDE DEF T, f
    <3>6. SumOf(f, T \cup {p}) = SumOf(f, T) + f[p]
      BY <1>2, <3>1, <3>2, <3>3, <3>4, SumOfInsert
    <3>. QED  BY <2>2, <2>3, <3>1, <3>5, <3>6 DEF f
  <2>5. CASE b # d
    <3>1. TakenBy(b)' = T
      BY <1>2, <2>5
    <3>2. Element("C", x)' = Element("C", x)
      BY <1>2, <2>1, <2>5
    <3>. HIDE DEF T
    <3>. QED  BY <2>2, <2>3, <3>1, <3>2
  <2>. QED  BY <2>4, <2>5
<1>5. ProductInv'
  BY <1>1, <1>2, <1>4, SumsAreNext
<1>6. Blockwise!Add(d, p)
  <2>1. p \notin AddedView[d]
    BY <1>2, Shape, <1>1 DEF AddedView
  <2>2. CView' = [x \in Blockwise!Points |-> IF <<x[1] \div block_size, x[2] \div block_size>> = d
                                             THEN CView[x] + Blockwise!Panel(x, p) ELSE CView[x]]
    <3>1. Blockwise!Points = (0 .. Extent - 1) \X (0 .. Extent - 1)
      BY DEF Blockwise!Points
    <3>2. CView' = [x \in Blockwise!Points |-> Element("C", x)']
      BY <1>3, <3>1 DEF CView
    <3>3. \A x \in Blockwise!Points : CView[x] = Element("C", x) /\ Blockwise!Panel(x, p) = PanelSums(x)[p]
      BY <1>1, <1>2, <3>1, PanelIs DEF CView
    <3>4. \A x : BlockAround(x) = <<x[1] \div block_size, x[2] \div block_size>>
      BY DEF BlockAround
    <3>. QED  BY <1>2, <3>2, <3>3, <3>4
  <2>3. AddedView' = [AddedView EXCEPT ![d] = @ \cup {p}]
    <3>1. DOMAIN pat.block = (0 .. num_blocks_m - 1) \X (0 .. num_blocks_m - 1)
      BY <1>1, Shape
    <3>2. AddedView = [b \in DOMAIN pat.block |-> TakenBy(b)] /\ AddedView' = [b \in DOMAIN pat.block |-> TakenBy(b)']
      BY <1>3, <3>1 DEF AddedView
    <3>. QED  BY <1>2, <3>2
  <2>4. Extent' = Extent /\ block_size' = block_size
    BY <1>3
  <2>. QED  BY <2>1, <2>2, <2>3, <2>4 DEF Blockwise!Add, CView, AddedView
<1>7. d \in Blockwise!Blocks /\ p \in Blockwise!Panels
  BY <1>1, <1>2, Answered
<1>. QED  BY <1>5, <1>6, <1>7 DEF Blockwise!PNext

\* At the beginning nothing has been added.
LEMMA ProductStarts == Init /\ Multipliable => ProductInv /\ Blockwise!PInit
<1>. SUFFICES ASSUME Init, Multipliable PROVE ProductInv /\ Blockwise!PInit
  OBVIOUS
<1>1. SummaInv /\ Fixed
  BY SummaStarts DEF SummaInv, TypeOK
<1>2. mem["C"] = [u \in Team |-> [o \in 0 .. pat.size[u] - 1 |-> 0]]
  BY DEF Init
<1>3. NumbersInC
  BY <1>2 DEF NumbersInC
<1>4. LeftLast
  BY DEF Init, LeftLast
<1>5. ASSUME NEW u \in Team, NEW lb \in DOMAIN pat.cblock[u] PROVE Taken(u, lb) = {}
  <2>1. PICK N \in Nat \ {0} : DOMAIN pat.cblock[u] = 0 .. N - 1
    BY <1>1, BlocksOfUnit
  <2>2. lb \in Nat /\ pc[u] = "begin" /\ at[u] = [lb |-> 0, k |-> 0]
    BY <2>1 DEF Init
  <2>3. \A j \in 0 .. num_blocks_m - 1 : ~ Past(u, lb, j)
    BY <2>2 DEF Past
  <2>4. Taken(u, lb) = {PanelOf(u, k) : k \in {j \in 0 .. num_blocks_m - 1 : Past(u, lb, j)}}
    BY Zenon DEF Taken, Past
  <2>. QED  BY <2>3, <2>4
<1>6. ASSUME NEW b \in DOMAIN pat.block PROVE TakenBy(b) = {}
  BY <1>1, <1>5, BlockOwner, TakenByOwner
<1>7. ASSUME NEW x \in Blockwise!Points PROVE Element("C", x) = 0
  <2>1. PICK u \in Team : \E lb \in DOMAIN pat.cblock[u] : \E i \in 0 .. BlockElems - 1 : Owned(x, u, lb, i)
    BY <1>1, PointOwned
  <2>. QED  BY <1>2, <2>1 DEF Owned, Element
<1>8. SumsTaken
  <2>. SUFFICES ASSUME NEW x \in Blockwise!Points PROVE Element("C", x) = SumOf(PanelSums(x), TakenBy(BlockAround(x)))
    BY DEF SumsTaken
  <2>1. TakenBy(BlockAround(x)) = {}
    BY <1>1, <1>6, BlockOfPoint
  <2>2. SumOf(PanelSums(x), {}) = 0
    BY SumOfNothing
  <2>. QED  BY <1>7, <2>1, <2>2
<1>9. Blockwise!PInit
  <2>1. CView = [x \in Blockwise!Points |-> 0]
    BY <1>7 DEF CView, Blockwise!Points
  <2>2. AddedView = [b \in Blockwise!Blocks |-> {}]
    <3>1. AddedView = [b \in DOMAIN pat.block |-> TakenBy(b)]
      BY <1>1, Shape DEF AddedView
    <3>. QED  BY <1>1, <1>6, <3>1, Answered
  <2>. QED  BY <2>1, <2>2 DEF Blockwise!PInit, CView, AddedView
<1>. QED  BY <1>1, <1>3, <1>4, <1>8, <1>9, SumsAre

\* Every step is a step of BlockProduct, or adds nothing.
LEMMA ProductKeeps ==
    SummaInv /\ SummaInv' /\ ProductInv /\ [Next]_vars => ProductInv' /\ [Blockwise!PNext]_ProductVars
<1>. SUFFICES ASSUME SummaInv, SummaInv', ProductInv, [Next]_vars
              PROVE  ProductInv' /\ [Blockwise!PNext]_ProductVars
  OBVIOUS
<1>1. ASSUME NEW u \in Team, Begin(u) PROVE ProductInv' /\ UNCHANGED ProductVars
  <2>1. /\ pc[u] = "begin" /\ pat' = pat /\ mem' = mem /\ at' = at /\ pc' = [pc EXCEPT ![u] = "first"]
    BY <1>1 DEF Begin
  <2>. QED  BY <2>1, PhaseAdvances
<1>2. ASSUME NEW u \in Team, AwaitFirst(u) PROVE ProductInv' /\ UNCHANGED ProductVars
  <2>1. /\ pc[u] = "first" /\ pat' = pat /\ mem' = mem /\ at' = at /\ pc' = [pc EXCEPT ![u] = "prefetch"]
    BY <1>2 DEF AwaitFirst
  <2>. QED  BY <2>1, PhaseAdvances
<1>3. ASSUME NEW u \in Team, Prefetch(u) PROVE ProductInv' /\ UNCHANGED ProductVars
  <2>1. /\ pc[u] = "prefetch" /\ pat' = pat /\ mem' = mem /\ at' = at /\ pc' = [pc EXCEPT ![u] = "multiply"]
    BY <1>3 DEF Prefetch
  <2>. QED  BY <2>1, PhaseAdvances
<1>4. ASSUME NEW u \in Team, Leave(u) PROVE ProductInv' /\ UNCHANGED ProductVars
  <2>1. /\ pc[u] = "barrier" /\ pat' = pat /\ mem' = mem /\ at' = at /\ pc' = [pc EXCEPT ![u] = "done"]
    BY <1>4 DEF Leave
  <2>. QED  BY <2>1, PhaseAdvances
<1>5. ASSUME NEW u \in Team, Step(u) PROVE ProductInv' /\ [Blockwise!PNext]_ProductVars
  BY <1>1, <1>2, <1>3, <1>4, <1>5, AwaitNextAdds, MultiplyIsAdd DEF Step
<1>6. ASSUME pat' = pat, mem' = mem, pc' = pc, at' = at PROVE ProductInv' /\ UNCHANGED ProductVars
  <2>1. \A v \in Team : \A lb, j : Past(v, lb, j)' <=> Past(v, lb, j)
    BY <1>6 DEF Past
  <2>2. \A v \in Team : \A lb \in DOMAIN pat.cblock[v] : Taken(v, lb)' = Taken(v, lb)
    BY <1>6, <2>1, TakenSame
  <2>. QED  BY <1>6, <2>2, NothingAdded
<1>7. ASSUME NEW r \in inflight, Arrive(r) PROVE ProductInv' /\ UNCHANGED ProductVars
  <2>1. PICK j \in 0 .. 1 : r.dest = Buffer(j)
    BY ReadsGoToBuffers
  <2>2. pat' = pat /\ mem' = mem /\ pc' = pc /\ at' = at
    BY <1>7, <2>1, ReadData
  <2>. QED  BY <1>6, <2>2
<1>8. CASE Terminated \/ UNCHANGED vars
  <2>1. pat' = pat /\ mem' = mem /\ pc' = pc /\ at' = at
    BY <1>8 DEF Terminated, vars
  <2>. QED  BY <1>6, <2>1
<1>. QED  BY <1>5, <1>7, <1>8 DEF Next

\* At the end every block has taken every panel, and has the product.
LEMMA ProductIsComputed == SummaInv /\ ProductInv => ProductComputed
<1>. SUFFICES ASSUME SummaInv, ProductInv, Done, NEW x \in Blockwise!Points
              PROVE  /\ Element("C", x) = ProductOf(x)
                     /\ \A m \in Operands : Element(m, x) = Values[m][x]
  BY DEF ProductComputed, ProductOf, Blockwise!Points
<1>. DEFINE n == num_blocks_m
            s == block_size
            f == TermAt(x)
            p == PanelSums(x)
<1>1. /\ Fixed /\ Multipliable /\ SumsTaken /\ LeftLast /\ n \in Nat \ {0} /\ s \in Nat \ {0} /\ Extent = n * s
  <2>1. Fixed /\ Multipliable
    BY DEF SummaInv, TypeOK, ProductInv
  <2>. QED  BY <2>1, SumsAre, Shape, Answered
<1>2. PICK u \in Team : \E lb \in DOMAIN pat.cblock[u] : \E i \in 0 .. BlockElems - 1 : Owned(x, u, lb, i)
  BY <1>1, PointOwned
<1>3. PICK lb \in DOMAIN pat.cblock[u] : \E i \in 0 .. BlockElems - 1 : Owned(x, u, lb, i)
  BY <1>2
<1>4. PICK i \in 0 .. BlockElems - 1 : Owned(x, u, lb, i)
  BY <1>3
<1>5. \A j \in 0 .. n - 1 : Past(u, lb, j)
  <2>1. PICK N \in Nat \ {0} : DOMAIN pat.cblock[u] = 0 .. N - 1 /\ Cardinality(DOMAIN pat.cblock[u]) = N
    BY <1>1, BlocksOfUnit
  <2>2. pc[u] = "done"
    BY DEF Done
  <2>3. at[u].lb = N - 1 /\ at[u].k = n - 1
    BY <1>1, <2>1, <2>2 DEF LeftLast, LastBlock
  <2>. HIDE DEF n
  <2>4. lb \in Nat /\ lb <= N - 1
    BY <2>1
  <2>5. \A j \in 0 .. n - 1 : j < n - 1 \/ j = n - 1
    BY <1>1
  <2>6. lb < N - 1 \/ lb = N - 1
    BY <2>1, <2>4
  <2>. QED  BY <2>2, <2>3, <2>5, <2>6 DEF Past
<1>6. TakenBy(BlockAround(x)) = 0 .. n - 1
  <2>1. TakenBy(BlockAround(x)) = Taken(u, lb)
    BY <1>1, <1>4, TakenByOwner DEF Owned
  <2>2. Taken(u, lb) = {PanelOf(u, k) : k \in {j \in 0 .. n - 1 : Past(u, lb, j)}}
    BY Zenon DEF Taken, Past
  <2>3. Taken(u, lb) = {PanelOf(u, k) : k \in 0 .. n - 1}
    BY <1>5, <2>2
  <2>4. \A v \in 0 .. n - 1 : \E k \in 0 .. n - 1 : PanelOf(u, k) = v
    <3>. DEFINE c == pat.column[u]
    <3>1. c \in 0 .. n - 1 /\ \A k : PanelOf(u, k) = (k + c) % n
      BY <1>1, BlocksOfUnit DEF PanelOf
    <3>. HIDE DEF n, c
    <3>2. \A v \in 0 .. n - 1 : \E k \in 0 .. n - 1 : (k + c) % n = v
      BY <1>1, <3>1, Rotation
    <3>. QED  BY <3>1, <3>2, Zenon
  <2>5. Taken(u, lb) \subseteq 0 .. n - 1
    BY <1>1, TakenInside
  <2>. HIDE DEF n
  <2>. QED  BY <2>1, <2>3, <2>4, <2>5
<1>7. SumOf(p, 0 .. n - 1) = SumOf(f, 0 .. n * s - 1)
  <2>1. \A k \in 0 .. n * s - 1 : f[k] \in Int
    BY <1>1, TermsAreNumbers
  <2>2. \A v \in 0 .. n - 1 : p[v] = SumOf(f, v * s .. (v + 1) * s - 1)
    BY DEF PanelSums, PanelElems
  <2>. HIDE DEF n, s, f, p
  <2>. QED  BY <1>1, <2>1, <2>2, SumOfParts
<1>8. Element("C", x) = ProductOf(x)
  <2>1. Element("C", x) = SumOf(p, TakenBy(BlockAround(x)))
    BY <1>1 DEF SumsTaken
  <2>2. ProductOf(x) = SumOf(f, 0 .. Extent - 1)
    BY <1>1, ProductIs
  <2>. HIDE DEF n, s, f, p
  <2>. QED  BY <1>1, <1>6, <1>7, <2>1, <2>2
<1>9. ASSUME NEW m \in Operands PROVE Element(m, x) = Values[m][x]
  <2>. DEFINE o == pat.cblock[u][lb].start + i
  <2>1. pat.place[x] = [unit |-> u, index |-> o] /\ o \in 0 .. pat.size[u] - 1 /\ x \in DOMAIN pat.place
    BY <1>1, <1>4, Answered DEF Owned
  <2>. HIDE DEF o
  <2>2. (CHOOSE y \in DOMAIN pat.place : pat.place[y] = [unit |-> u, index |-> o]) = x
    BY <1>1, <2>1, Places
  <2>3. mem[m] = MemoryOf(m)
    BY <1>1 DEF Fixed
  <2>4. mem[m][u][o] = Values[m][CHOOSE y \in DOMAIN pat.place : pat.place[y] = [unit |-> u, index |-> o]]
    BY <2>1, <2>3 DEF MemoryOf
  <2>5. Element(m, x) = mem[m][u][o]
    BY <2>1 DEF Element
  <2>. QED  BY <2>2, <2>4, <2>5
<1>. QED  BY <1>8, <1>9

(* SummaMultiplies: if the tiles of the matrices are stored column by      *)
(* column, or are single elements (Multipliable), then in whatever order   *)
(* reads end, every step of dash::summa adds a panel a block of C has not  *)
(* taken yet, or adds nothing, and when all have returned C is the product *)
(* of A and B, which are as they were.  It says nothing of tiles of        *)
(* several elements stored row by row: the code accepts them, its product  *)
(* is wrong then.                                                          *)
THEOREM SummaMultiplies == Spec /\ Multipliable => ImplementsBlockProduct
<1>1. Init /\ Multipliable => SummaInv /\ ProductInv /\ Blockwise!PInit
  BY SummaStarts, ProductStarts
<1>2. (SummaInv /\ ProductInv) /\ [Next]_vars => (SummaInv /\ ProductInv)' /\ [Blockwise!PNext]_ProductVars
  BY SummaKeeps, ProductKeeps
<1>3. SummaInv /\ ProductInv => ProductComputed
  BY ProductIsComputed
<1>4. Spec /\ Multipliable => [](SummaInv /\ ProductInv) /\ Blockwise!PInit /\ [][Blockwise!PNext]_ProductVars
  BY <1>1, <1>2, PTL DEF Spec
<1>5. Blockwise!PSpec <=> Blockwise!PInit /\ [][Blockwise!PNext]_ProductVars
  BY DEF Blockwise!PSpec, ProductVars, CView, AddedView
<1>. QED  BY <1>3, <1>4, <1>5, PTL DEF ImplementsBlockProduct
=============================================================================
