------------------------- MODULE GlobalMemoryProofs -------------------------
(***************************************************************************)
(* Proofs about TeamRegistry and GlobalMemory, for any number of units,    *)
(* slots and calls.                                                        *)
(*                                                                         *)
(* The registry: the operations on groups give ascending groups, the       *)
(* binary search finds every team, and RegistryInv is inductive and        *)
(* implies TeamsResolve.  The operations on the global memory are to the   *)
(* registry calls like any others, and the tables keep their form:         *)
(* RegistryInv and TypeOK are inductive together.                          *)
(*                                                                         *)
(* Access needs more.  A unit counts its segment ids by itself, so a       *)
(* pointer is good as long as the counters do not wrap; MemoryInv bounds   *)
(* them by the calls the unit has made, which are sums over communicators. *)
(* It says of a pointer that its entry is in the table, alone with its     *)
(* id, and that whatever team the unit has on the communicator of the      *)
(* region has the slot in the flags: a slot can be recycled only by a team *)
(* of a new communicator, on which the unit has made no call (TeamsKeep).  *)
(***************************************************************************)
EXTENDS GlobalMemory, RecursionLemmas, SequenceTheorems

----------------------------------------------------------------------------
\* Groups, the list of teams and the flags of the slots (TeamRegistry).

\* The loop of dart_adapt_teamlist_convert ends at the entry of a team that
\* is in the list, whose ids increase.
LEMMA SearchFinds ==
    ASSUME NEW Entry, NEW list \in Seq(Entry),
           \A i \in DOMAIN list : list[i].id \in Int,
           \A i, j \in DOMAIN list : i < j => list[i].id < list[j].id,
           NEW k \in DOMAIN list
    PROVE  Search(list, list[k].id) = k
<1>. DEFINE n == Len(list)
            t == list[k].id
            D == (1 .. n) \X (1 .. n)
            mid(r) == (r[1] + r[2]) \div 2
            m == [r \in D |-> IF r[1] < r[2] THEN r[2] - r[1] ELSE 0]
            Stop == {r \in D : r[1] >= r[2]}
            val == [r \in D |-> r[1]]
            next == [r \in D |-> IF list[mid(r)].id < t THEN <<mid(r) + 1, r[2]>>
                                 ELSE <<r[1], mid(r)>>]
            step == [p \in D \X (1 .. n) |-> p[2]]
            Body(f) == [r \in D |-> IF r[1] >= r[2] THEN r[1]
                                    ELSE IF list[mid(r)].id < t THEN f[<<mid(r) + 1, r[2]>>]
                                    ELSE f[<<r[1], mid(r)>>]]
            search == CHOOSE f : f = Body(f)
<1>1. Search(list, t) = search[<<1, n>>]
  BY DEF Search
<1>2. n \in Nat /\ DOMAIN list = 1 .. n
  OBVIOUS
<1>3. ASSUME NEW r \in D, r \notin Stop
      PROVE  /\ mid(r) \in 1 .. n /\ r[1] <= mid(r) /\ mid(r) < r[2]
             /\ next[r] \in D /\ m[next[r]] < m[r]
  <2>1. r[1] \in 1 .. n /\ r[2] \in 1 .. n /\ r[1] < r[2]
    BY <1>3
  <2>2. mid(r) \in Int /\ r[1] <= mid(r) /\ mid(r) < r[2]
    BY <2>1
  <2>. QED  BY <2>1, <2>2, SMTT(30)
<1>4. IsRecursion(D, 1 .. n, n + 1, m, Stop, val, next, step)
  <2>1. m \in [D -> Nat] /\ \A r \in D : m[r] < n + 1
    BY <1>2
  <2>2. \A r \in D : r \in Stop => val[r] \in 1 .. n
    OBVIOUS
  <2>3. step \in [D \X (1 .. n) -> 1 .. n]
    OBVIOUS
  <2>. HIDE DEF D, m, Stop, val, next, step, t
  <2>. QED  BY <1>2, <1>3, <2>1, <2>2, <2>3 DEF IsRecursion
<1>5. \E f : f = Body(f)
  <2>1. PICK f \in [D -> 1 .. n] : Solves(f, D, Stop, val, next, step)
    <3>. HIDE DEF D, m, Stop, val, next, step, t
    <3>. QED  BY <1>4, LinearRecursion, Zenon
  <2>2. ASSUME NEW r \in D PROVE f[r] = Body(f)[r]
    <3>1. CASE r \in Stop
      BY <2>1, <3>1, Zenon DEF Solves
    <3>2. CASE r \notin Stop
      <4>1. f[r] = f[next[r]]
        <5>1. next[r] \in D /\ f[next[r]] \in 1 .. n
          BY <1>3, <3>2, SMTT(30)
        <5>2. step[<<r, f[next[r]]>>] = f[next[r]]
          BY <5>1
        <5>. HIDE DEF step, next, Stop, D
        <5>. QED  BY <2>1, <3>2, <5>2 DEF Solves
      <4>. QED  BY <3>2, <4>1
    <3>. QED  BY <3>1, <3>2
  <2>3. f = Body(f)
    BY <2>2
  <2>. HIDE DEF Body
  <2>. QED  BY <2>3
<1>6. search = Body(search)
  <2>. HIDE DEF Body
  <2>. QED  BY <1>5
<1>. DEFINE P == {r \in D : r[1] <= k /\ k <= r[2] => search[r] = k}
<1>7. ASSUME NEW r \in D, \A q \in D : m[q] < m[r] => q \in P
      PROVE  r \in P
  <2>. SUFFICES ASSUME r[1] <= k, k <= r[2] PROVE search[r] = k
    BY SMTT(30)
  <2>. HIDE DEF search
  <2>1. search[r] = Body(search)[r]
    BY <1>6, Zenon
  <2>2. CASE r[1] >= r[2]
    BY <2>1, <2>2
  <2>3. CASE r[1] < r[2]
    <3>1. search[r] = search[next[r]]
      BY <2>1, <2>3
    <3>2. next[r] \in P
      <4>1. r \notin Stop
        BY <2>3
      <4>. HIDE DEF Stop, next, m, D, P
      <4>. QED  BY <1>3, <1>7, <4>1
    <3>3. next[r][1] <= k /\ k <= next[r][2]
      <4>1. mid(r) \in DOMAIN list /\ mid(r) \in 1 .. n
        BY <1>2, <1>3, <2>3
      <4>2. CASE list[mid(r)].id < t
        <5>1. ~ (k < mid(r)) /\ k # mid(r)
          BY <4>1, <4>2
        <5>. QED  BY <4>1, <4>2, <5>1
      <4>3. CASE ~ (list[mid(r)].id < t)
        <5>1. ~ (mid(r) < k)
          BY <4>1, <4>3
        <5>. QED  BY <4>1, <4>3, <5>1
      <4>. QED  BY <4>2, <4>3
    <3>. QED  BY <3>1, <3>2, <3>3
  <2>. QED  BY <2>2, <2>3
<1>8. <<1, n>> \in P
  <2>1. m \in [D -> Nat]
    OBVIOUS
  <2>2. <<1, n>> \in D
    BY <1>2
  <2>. HIDE DEF D, m, P
  <2>. QED  BY <1>7, <2>1, <2>2, MeasureInduction
<1>. HIDE DEF search
<1>. QED  BY <1>1, <1>2, <1>8

\* Keeping members keeps their order.
LEMMA KeptIsGroup ==
    ASSUME NEW g \in Groups, NEW S
    PROVE  /\ Kept(g, S) \in Groups
           /\ \A i \in DOMAIN Kept(g, S) : Kept(g, S)[i] \in S
<1>. DEFINE n == Len(g)
            V == Seq(Units)
            next(i, kept) == IF g[i] \in S THEN Append(kept, g[i]) ELSE kept
            step == [p \in (1 .. n) \X V |-> next(p[1], p[2])]
            Body(h) == [t \in SUBSET (1 .. n) |->
                IF t = {} THEN <<>> ELSE next(Max(t), h[t \ {Max(t)}])]
            fold == CHOOSE h : h = Body(h)
<1>1. n \in Nat /\ DOMAIN g = 1 .. n /\ g \in [1 .. n -> Units] /\ Ascending(g)
  BY DEF Groups
<1>2. Kept(g, S) = fold[1 .. n]
  BY <1>1 DEF Kept, FoldLeft, MapThenFoldSet
<1>3. \E h : h = Body(h)
  <2>1. <<>> \in V /\ step \in [(1 .. n) \X V -> V]
    BY <1>1
  <2>2. PICK h \in [SUBSET (1 .. n) -> V] : Folds(h, n, <<>>, step)
    <3>. HIDE DEF n, V, step
    <3>. QED  BY <1>1, <2>1, FoldExists, Zenon
  <2>3. ASSUME NEW t \in SUBSET (1 .. n) PROVE h[t] = Body(h)[t]
    <3>1. CASE t # {}
      <4>1. Max(t) \in 1 .. n /\ h[t \ {Max(t)}] \in V
        BY <1>1, <3>1, GreatestPosition, Zenon
      <4>2. step[<<Max(t), h[t \ {Max(t)}]>>] = next(Max(t), h[t \ {Max(t)}])
        BY <4>1
      <4>. HIDE DEF step, next, V
      <4>. QED  BY <2>2, <3>1, <4>2 DEF Folds
    <3>. QED  BY <2>2, <3>1, Zenon DEF Folds
  <2>4. h = Body(h)
    BY <2>3, Zenon
  <2>. HIDE DEF Body
  <2>. QED  BY <2>4
<1>4. fold = Body(fold)
  <2>. HIDE DEF Body
  <2>. QED  BY <1>3
<1>. DEFINE P == {t \in SUBSET (1 .. n) :
                   /\ fold[t] \in Groups
                   /\ \A i \in DOMAIN fold[t] :
                          fold[t][i] \in S /\ \E j \in t : fold[t][i] = g[j]}
<1>. HIDE DEF fold
<1>5. {} \in P
  BY <1>4 DEF Groups, Ascending
<1>6. ASSUME NEW t \in SUBSET (1 .. n), t # {}, t \ {Max(t)} \in P
      PROVE  t \in P
  <2>. DEFINE i == Max(t)
              kept == fold[t \ {i}]
  <2>1. i \in t /\ \A j \in t : j <= i
    BY <1>1, <1>6, GreatestPosition, Zenon
  <2>2. fold[t] = IF g[i] \in S THEN Append(kept, g[i]) ELSE kept
    BY <1>4, <1>6, Zenon
  <2>3. kept \in Seq(Units) /\ Ascending(kept)
    BY <1>6 DEF Groups
  <2>4. \A a \in DOMAIN kept : kept[a] \in S /\ \E j \in t \ {i} : kept[a] = g[j]
    BY <1>6, Zenon
  <2>. HIDE DEF i, kept
  <2>5. CASE g[i] \in S
    <3>1. \A a \in DOMAIN kept : kept[a] < g[i]
      BY <1>1, <2>1, <2>4 DEF Ascending
    <3>2. Append(kept, g[i]) \in Seq(Units)
      BY <1>1, <2>1, <2>3
    <3>3. Ascending(Append(kept, g[i]))
      BY <1>1, <2>1, <2>3, <3>1 DEF Ascending
    <3>4. \A a \in DOMAIN Append(kept, g[i]) :
              /\ Append(kept, g[i])[a] \in S
              /\ \E j \in t : Append(kept, g[i])[a] = g[j]
      BY <1>1, <2>1, <2>3, <2>4, <2>5
    <3>. QED  BY <2>2, <2>5, <3>2, <3>3, <3>4, Zenon DEF Groups
  <2>6. CASE g[i] \notin S
    BY <2>2, <2>3, <2>4, <2>6, Zenon DEF Groups
  <2>. QED  BY <2>5, <2>6
<1>7. 1 .. n \in P
  <2>. HIDE DEF P, n
  <2>. QED  BY <1>1, <1>5, <1>6, FoldInduction, Zenon
<1>. QED  BY <1>2, <1>7

\* Units are natural numbers, and what a group holds.
LEMMA UnitsNumbers ==
    /\ Units \subseteq Nat
    /\ Cardinality(Units) \in Nat
    /\ \A g \in Groups : /\ g \in Seq(Units) /\ Ascending(g)
                         /\ Len(g) \in Nat /\ DOMAIN g = 1 .. Len(g)
                         /\ \A i \in DOMAIN g : g[i] \in Units /\ g[i] \in Nat
<1>1. Cardinality(Units) \in Nat
  BY UnitsAssumption, FS_CardinalityType
<1>2. \A u \in Units : u \in Nat
  BY <1>1, UnitsAssumption
<1>. QED  BY <1>1, <1>2 DEF Groups

\* A part of a sequence.
LEMMA Part ==
    ASSUME NEW A, NEW s \in Seq(A), NEW b \in 1 .. Len(s) + 1, NEW e \in 0 .. Len(s)
    PROVE  /\ SubSeq(s, b, e) \in Seq(A)
           /\ Len(SubSeq(s, b, e)) = IF b <= e THEN e - b + 1 ELSE 0
           /\ \A i \in 1 .. Len(SubSeq(s, b, e)) :
                  b + i - 1 \in b .. e /\ SubSeq(s, b, e)[i] = s[b + i - 1]
OBVIOUS

\* An element before a sequence.
LEMMA Prepended ==
    ASSUME NEW A, NEW e \in A, NEW s \in Seq(A)
    PROVE  /\ <<e>> \o s \in Seq(A)
           /\ Len(<<e>> \o s) = Len(s) + 1
           /\ (<<e>> \o s)[1] = e
           /\ \A i \in 2 .. Len(s) + 1 : i - 1 \in DOMAIN s /\ (<<e>> \o s)[i] = s[i - 1]
OBVIOUS

\* Merging two ascending runs of different units gives an ascending group.
LEMMA MergedIsGroup ==
    ASSUME NEW pre \in Seq(Units), NEW length \in 0 .. Len(pre),
           \A a, b \in 1 .. length : a < b => pre[a] < pre[b],
           \A a, b \in length + 1 .. Len(pre) : a < b => pre[a] < pre[b],
           \A a \in 1 .. length, b \in length + 1 .. Len(pre) : pre[a] # pre[b]
    PROVE  Merged(pre, length) \in Groups
<1>. DEFINE n == Len(pre)
            D == (1 .. length + 1) \X (length + 1 .. n + 1)
            V == Seq(Units)
            m == [r \in D |-> (length + 1 - r[1]) + (n + 1 - r[2])]
            Stop == {r \in D : r[1] > length \/ r[2] > n}
            val == [r \in D |-> IF r[1] > length THEN SubSeq(pre, r[2], n)
                                ELSE SubSeq(pre, r[1], length)]
            first(r) == pre[r[1]] <= pre[r[2]]
            next == [r \in D |-> IF first(r) THEN <<r[1] + 1, r[2]>>
                                 ELSE <<r[1], r[2] + 1>>]
            step == [p \in D \X V |->
                        IF p[1] \in Stop THEN p[2]
                        ELSE IF first(p[1]) THEN <<pre[p[1][1]]>> \o p[2]
                        ELSE <<pre[p[1][2]]>> \o p[2]]
            Body(h) == [r \in D |->
                IF r[1] > length THEN SubSeq(pre, r[2], n)
                ELSE IF r[2] > n THEN SubSeq(pre, r[1], length)
                ELSE IF pre[r[1]] <= pre[r[2]] THEN <<pre[r[1]]>> \o h[<<r[1] + 1, r[2]>>]
                ELSE <<pre[r[2]]>> \o h[<<r[1], r[2] + 1>>]]
            merge == CHOOSE h : h = Body(h)
<1>1. Merged(pre, length) = merge[<<1, length + 1>>]
  BY DEF Merged
<1>2. /\ n \in Nat /\ length \in Nat /\ length <= n
      /\ DOMAIN pre = 1 .. n /\ \A a \in 1 .. n : pre[a] \in Units /\ pre[a] \in Nat
  <2>1. n \in Nat /\ DOMAIN pre = 1 .. n /\ \A a \in 1 .. n : pre[a] \in Units
    OBVIOUS
  <2>2. length \in Nat /\ length <= n
    BY <2>1
  <2>. QED  BY <2>1, <2>2, UnitsNumbers, Zenon
<1>3. \A r \in D : /\ r[1] \in 1 .. length + 1 /\ r[2] \in length + 1 .. n + 1
                   /\ r \notin Stop => r[1] \in 1 .. length /\ r[2] \in length + 1 .. n
  BY <1>2
<1>4. ASSUME NEW r \in D, r \notin Stop
      PROVE  /\ next[r] \in D /\ m[next[r]] < m[r]
             /\ next[r] = IF first(r) THEN <<r[1] + 1, r[2]>> ELSE <<r[1], r[2] + 1>>
  <2>1. next[r] = IF first(r) THEN <<r[1] + 1, r[2]>> ELSE <<r[1], r[2] + 1>>
    OBVIOUS
  <2>2. r[1] \in 1 .. length /\ r[2] \in length + 1 .. n
    BY <1>3, <1>4
  <2>3. <<r[1] + 1, r[2]>> \in D /\ <<r[1], r[2] + 1>> \in D
    BY <1>2, <2>2
  <2>4. m[<<r[1] + 1, r[2]>>] < m[r] /\ m[<<r[1], r[2] + 1>>] < m[r]
    <3>. DEFINE i == r[1]
                j == r[2]
    <3>1. /\ m[r] = (length + 1 - i) + (n + 1 - j)
          /\ m[<<i + 1, j>>] = (length + 1 - (i + 1)) + (n + 1 - j)
          /\ m[<<i, j + 1>>] = (length + 1 - i) + (n + 1 - (j + 1))
      BY <2>3
    <3>2. i \in Int /\ j \in Int
      BY <1>2, <2>2
    <3>. HIDE DEF i, j, m, D
    <3>3. m[<<i + 1, j>>] < m[r] /\ m[<<i, j + 1>>] < m[r]
      BY <1>2, <3>1, <3>2
    <3>. QED  BY <3>3 DEF i, j
  <2>. HIDE DEF first, D, m
  <2>. QED  BY <2>1, <2>3, <2>4
<1>5. IsRecursion(D, V, n + 2, m, Stop, val, next, step)
  <2>1. ASSUME NEW r \in D PROVE m[r] \in Nat /\ m[r] < n + 2
    <3>. DEFINE i == r[1]
                j == r[2]
    <3>1. m[r] = (length + 1 - i) + (n + 1 - j)
      OBVIOUS
    <3>2. i \in 1 .. length + 1 /\ j \in length + 1 .. n + 1
      BY <1>3
    <3>. HIDE DEF i, j, m, D
    <3>. QED  BY <1>2, <3>1, <3>2
  <2>2. ASSUME NEW r \in D, r \in Stop PROVE val[r] \in V
    <3>1. SubSeq(pre, r[2], n) \in V
      BY <1>2, <1>3, Part
    <3>2. r[2] > n => SubSeq(pre, r[1], length) \in V
      BY <1>2, <1>3, Part
    <3>. QED  BY <2>2, <3>1, <3>2
  <2>3. ASSUME NEW r \in D, NEW w \in V PROVE step[<<r, w>>] \in V
    <3>1. r \notin Stop => <<pre[r[1]]>> \o w \in V /\ <<pre[r[2]]>> \o w \in V
      BY <1>2, <1>3
    <3>. HIDE DEF Stop, D, V, first
    <3>. QED  BY <3>1
  <2>4. step \in [D \X V -> V]
    <3>. HIDE DEF Stop, D, V, first
    <3>. QED  BY <2>3, Zenon
  <2>5. m \in [D -> Nat]
    BY <2>1
  <2>6. n + 2 \in Nat
    BY <1>2
  <2>. HIDE DEF D, m, Stop, val, next, step, V, n, first
  <2>7. \A r \in D : IF r \in Stop THEN val[r] \in V
                     ELSE next[r] \in D /\ m[next[r]] < m[r]
    BY <1>4, <2>2, Zenon
  <2>8. \A r \in D : m[r] < n + 2
    BY <2>1
  <2>. QED  BY <2>4, <2>5, <2>6, <2>7, <2>8 DEF IsRecursion
<1>6. \E h : h = Body(h)
  <2>1. PICK h \in [D -> V] : Solves(h, D, Stop, val, next, step)
    <3>. HIDE DEF D, m, Stop, val, next, step, V
    <3>. QED  BY <1>5, LinearRecursion
  <2>2. ASSUME NEW r \in D PROVE h[r] = Body(h)[r]
    <3>1. CASE r \in Stop
      <4>1. h[r] = val[r]
        BY <2>1, <3>1, Zenon DEF Solves
      <4>. QED  BY <3>1, <4>1, <1>3
    <3>2. CASE r \notin Stop
      <4>1. h[r] = step[<<r, h[next[r]]>>]
        BY <2>1, <3>2, Zenon DEF Solves
      <4>2. h[next[r]] \in V
        BY <1>4, <3>2, Zenon
      <4>3. h[r] = IF first(r) THEN <<pre[r[1]]>> \o h[next[r]]
                   ELSE <<pre[r[2]]>> \o h[next[r]]
        <5>. HIDE DEF D, V, next, first, Stop
        <5>. QED  BY <3>2, <4>1, <4>2, Zenon
      <4>4. next[r] = IF first(r) THEN <<r[1] + 1, r[2]>> ELSE <<r[1], r[2] + 1>>
        BY <1>4, <3>2
      <4>5. ~ (r[1] > length) /\ ~ (r[2] > n)
        BY <3>2
      <4>. HIDE DEF D, V, next, Stop
      <4>. QED  BY <4>3, <4>4, <4>5, SMTT(30)
    <3>. QED  BY <3>1, <3>2, Zenon
  <2>3. h = Body(h)
    BY <2>2, Zenon
  <2>. HIDE DEF Body
  <2>. QED  BY <2>3
<1>7. merge = Body(merge)
  <2>. HIDE DEF Body
  <2>. QED  BY <1>6
<1>. HIDE DEF merge
<1>. DEFINE From(w, r) == \A a \in DOMAIN w :
                \E x \in (r[1] .. length) \cup (r[2] .. n) : w[a] = pre[x]
            P == {r \in D : merge[r] \in Groups /\ From(merge[r], r)}
<1>8. ASSUME NEW r \in D, \A q \in D : m[q] < m[r] => q \in P
      PROVE  r \in P
  <2>1. merge[r] = Body(merge)[r]
    BY <1>7, Zenon
  <2>2. CASE r \in Stop
    <3>1. PICK b, e : /\ merge[r] = SubSeq(pre, b, e)
                      /\ \/ r[1] > length /\ b = r[2] /\ e = n
                         \/ r[2] > n /\ b = r[1] /\ e = length
      BY <2>1, <2>2, Zenon
    <3>2. b \in 1 .. n + 1 /\ e \in 0 .. n
      BY <1>2, <1>3, <3>1, SMTT(30)
    <3>. DEFINE w == merge[r]
    <3>. HIDE DEF w
    <3>3. /\ w \in Seq(Units)
          /\ \A i \in DOMAIN w : w[i] = pre[b + i - 1] /\ b + i - 1 \in b .. e
      <4>1. w = SubSeq(pre, b, e)
        BY <3>1 DEF w
      <4>2. b \in 1 .. Len(pre) + 1 /\ e \in 0 .. Len(pre)
        BY <3>2
      <4>3. /\ w \in Seq(Units)
            /\ \A i \in 1 .. Len(w) : b + i - 1 \in b .. e /\ w[i] = pre[b + i - 1]
        BY <4>1, <4>2, Part
      <4>4. DOMAIN w = 1 .. Len(w)
        BY <4>3
      <4>. QED  BY <4>3, <4>4
    <3>4. \A x, y \in b .. e : x < y => pre[x] < pre[y]
      BY <1>2, <1>3, <3>1, SMTT(30)
    <3>5. Ascending(w)
      <4>. SUFFICES ASSUME NEW x \in DOMAIN w, NEW y \in DOMAIN w, x < y
                    PROVE  w[x] < w[y]
        BY DEF Ascending
      <4>1. b + x - 1 \in b .. e /\ b + y - 1 \in b .. e /\ b + x - 1 < b + y - 1
        BY <3>2, <3>3, SMTT(30)
      <4>. QED  BY <3>3, <3>4, <4>1, Zenon
    <3>6. b .. e \subseteq (r[1] .. length) \cup (r[2] .. n)
      BY <3>1, Zenon
    <3>7. From(w, r)
      BY <3>3, <3>6, Zenon
    <3>. QED  BY <3>3, <3>5, <3>7 DEF Groups, w
  <2>3. CASE r \notin Stop
    <3>. DEFINE w == merge[next[r]]
                x == IF first(r) THEN r[1] ELSE r[2]
    <3>1. merge[r] = <<pre[x]>> \o w
      <4>1. next[r] = IF first(r) THEN <<r[1] + 1, r[2]>> ELSE <<r[1], r[2] + 1>>
        BY <1>4, <2>3
      <4>2. ~ (r[1] > length) /\ ~ (r[2] > n)
        BY <2>3
      <4>. HIDE DEF D, next, Stop
      <4>. QED  BY <2>1, <4>1, <4>2, Zenon
    <3>2. w \in Groups /\ From(w, next[r])
      <4>. HIDE DEF D, m, next, Stop
      <4>. QED  BY <1>4, <1>8, <2>3, Zenon
    <3>3. /\ r[1] \in 1 .. length /\ r[2] \in length + 1 .. n
          /\ x \in {r[1], r[2]} /\ pre[x] \in Units
      BY <1>2, <1>3, <2>3
    <3>4. ASSUME NEW a \in DOMAIN w
          PROVE  /\ pre[x] < w[a]
                 /\ \E y \in (r[1] .. length) \cup (r[2] .. n) : w[a] = pre[y]
      <4>. DEFINE i == r[1]
                  j == r[2]
      <4>1. PICK y \in (next[r][1] .. length) \cup (next[r][2] .. n) : w[a] = pre[y]
        BY <3>2, Zenon
      <4>2. next[r] = IF first(r) THEN <<i + 1, j>> ELSE <<i, j + 1>>
        BY <1>4, <2>3
      <4>3. i \in 1 .. length /\ j \in length + 1 .. n
        BY <3>3
      <4>4. pre[i] \in Nat /\ pre[j] \in Nat /\ pre[i] # pre[j]
        BY <1>2, <4>3
      <4>5. CASE first(r)
        <5>1. x = i /\ pre[i] < pre[j] /\ y \in (i + 1 .. length) \cup (j .. n)
          BY <4>1, <4>2, <4>4, <4>5, SMTT(30)
        <5>2. y \in 1 .. n /\ pre[y] \in Nat
          BY <1>2, <4>3, <5>1, SMTT(30)
        <5>3. y \in i + 1 .. length => pre[i] < pre[y]
          BY <1>2, <4>3, SMTT(30)
        <5>4. y \in j .. n => y = j \/ pre[j] < pre[y]
          BY <1>2, <4>3
        <5>5. pre[i] < pre[y]
          BY <4>4, <5>1, <5>2, <5>3, <5>4, SMTT(30)
        <5>. QED  BY <1>2, <4>1, <4>3, <5>1, <5>5, SMTT(30)
      <4>6. CASE ~ first(r)
        <5>1. x = j /\ pre[j] < pre[i] /\ y \in (i .. length) \cup (j + 1 .. n)
          BY <4>1, <4>2, <4>4, <4>6, SMTT(30)
        <5>2. y \in 1 .. n /\ pre[y] \in Nat
          BY <1>2, <4>3, <5>1, SMTT(30)
        <5>3. y \in j + 1 .. n => pre[j] < pre[y]
          BY <1>2, <4>3
        <5>4. y \in i .. length => y = i \/ pre[i] < pre[y]
          BY <1>2, <4>3, SMTT(30)
        <5>5. pre[j] < pre[y]
          BY <4>4, <5>1, <5>2, <5>3, <5>4, SMTT(30)
        <5>. QED  BY <1>2, <4>1, <4>3, <5>1, <5>5, SMTT(30)
      <4>. QED  BY <4>5, <4>6, Zenon
    <3>5. w \in Seq(Units) /\ Ascending(w)
      BY <3>2, Zenon DEF Groups
    <3>. HIDE DEF w, x
    <3>6. /\ merge[r] \in Seq(Units)
          /\ \A a \in DOMAIN merge[r] : \/ a = 1 /\ merge[r][a] = pre[x]
                                        \/ /\ a - 1 \in DOMAIN w
                                           /\ merge[r][a] = w[a - 1]
      <4>1. /\ merge[r] \in Seq(Units)
            /\ DOMAIN merge[r] = 1 .. Len(w) + 1
            /\ merge[r][1] = pre[x]
            /\ \A a \in 2 .. Len(w) + 1 : a - 1 \in DOMAIN w /\ merge[r][a] = w[a - 1]
        BY <3>1, <3>3, <3>5, Prepended
      <4>. QED  BY <3>5, <4>1, SMTT(30)
    <3>7. From(merge[r], r)
      <4>. DEFINE I == (r[1] .. length) \cup (r[2] .. n)
                  q == merge[r]
      <4>1. x \in I
        BY <1>2, <3>3
      <4>2. \A a \in DOMAIN w : \E y \in I : w[a] = pre[y]
        BY <3>4
      <4>3. \A a \in DOMAIN q : q[a] = pre[x] \/ \E b \in DOMAIN w : q[a] = w[b]
        BY <3>6
      <4>. HIDE DEF I, q
      <4>4. \A a \in DOMAIN q : \E y \in I : q[a] = pre[y]
        BY <4>1, <4>2, <4>3
      <4>. QED  BY <4>4, Zenon DEF I, q
    <3>8. Ascending(merge[r])
      <4>. DEFINE q == merge[r]
      <4>. SUFFICES ASSUME NEW a \in DOMAIN q, NEW b \in DOMAIN q, a < b
                    PROVE  q[a] < q[b]
        BY DEF Ascending
      <4>1. a \in Nat /\ b \in Nat /\ b # 1
        BY <3>6, SMTT(30)
      <4>2. b - 1 \in DOMAIN w /\ q[b] = w[b - 1]
        BY <3>6, <4>1, Zenon
      <4>3. a = 1 => q[a] = pre[x]
        BY <3>5, <3>6
      <4>4. a # 1 => a - 1 \in DOMAIN w /\ q[a] = w[a - 1] /\ a - 1 < b - 1
        BY <3>6, <4>1, SMTT(30)
      <4>5. \A y, z \in DOMAIN w : y < z => w[y] < w[z]
        BY <3>5 DEF Ascending
      <4>. QED  BY <3>4, <4>2, <4>3, <4>4, <4>5
    <3>. QED  BY <3>6, <3>7, <3>8 DEF Groups
  <2>. QED  BY <2>2, <2>3
<1>9. <<1, length + 1>> \in P
  <2>1. m \in [D -> Nat]
    BY <1>2, <1>3, SMTT(30)
  <2>2. <<1, length + 1>> \in D
    BY <1>2
  <2>. HIDE DEF D, m, P
  <2>. QED  BY <1>8, <2>1, <2>2, MeasureInduction, SMTT(30)
<1>. QED  BY <1>1, <1>9

\* The operations on groups.
LEMMA WithoutIsGroup ==
    ASSUME NEW g \in Groups, NEW h
    PROVE  /\ Without(g, h) \in Groups
           /\ \A i \in DOMAIN Without(g, h) : Without(g, h)[i] \in Units \ Members(h)
BY KeptIsGroup DEF Without

\* dart_group_union gives an ascending group.
LEMMA UnionIsGroup ==
    ASSUME NEW g \in Groups, NEW h \in Groups
    PROVE  GroupUnion(g, h) \in Groups
<1>. DEFINE rest == Without(h, g)
            pre == MpiUnion(g, h)
            length == Len(g)
<1>1. rest \in Groups /\ \A i \in DOMAIN rest : rest[i] \notin Members(g)
  BY WithoutIsGroup
<1>2. pre = g \o rest
  BY DEF MpiUnion
<1>. HIDE DEF rest, pre
<1>3. /\ g \in Seq(Units) /\ Ascending(g) /\ length \in Nat /\ DOMAIN g = 1 .. length
      /\ rest \in Seq(Units) /\ Ascending(rest) /\ Len(rest) \in Nat
      /\ DOMAIN rest = 1 .. Len(rest)
  BY <1>1, UnitsNumbers
<1>. HIDE DEF length
<1>4. /\ pre \in Seq(Units) /\ Len(pre) = length + Len(rest)
      /\ \A a \in 1 .. length : pre[a] = g[a]
      /\ \A a \in length + 1 .. Len(pre) :
             a - length \in DOMAIN rest /\ pre[a] = rest[a - length]
  BY <1>2, <1>3 DEF length
<1>5. \A a, b \in 1 .. length : a < b => pre[a] < pre[b]
  BY <1>3, <1>4, Zenon DEF Ascending
<1>6. \A a, b \in length + 1 .. Len(pre) : a < b => pre[a] < pre[b]
  <2>. SUFFICES ASSUME NEW a \in length + 1 .. Len(pre), NEW b \in length + 1 .. Len(pre), a < b
                PROVE  pre[a] < pre[b]
    OBVIOUS
  <2>1. a - length < b - length
    BY <1>3, <1>4
  <2>2. rest[a - length] < rest[b - length]
    BY <1>3, <1>4, <2>1, Zenon DEF Ascending
  <2>. QED  BY <1>4, <2>2
<1>7. \A a \in 1 .. length, b \in length + 1 .. Len(pre) : pre[a] # pre[b]
  <2>1. \A a \in 1 .. length : g[a] \in Members(g)
    BY <1>3 DEF Members, ToSet
  <2>. QED  BY <1>1, <1>4, <2>1
<1>8. length \in 0 .. Len(pre)
  BY <1>3, <1>4
<1>9. Merged(pre, length) \in Groups
  BY <1>4, <1>5, <1>6, <1>7, <1>8, MergedIsGroup, Zenon
<1>. QED  BY <1>9 DEF GroupUnion, pre, length

\* So does dart_group_split, in each of its parts.
LEMMA SplitIsGroup ==
    ASSUME NEW g \in Groups, NEW n \in Nat, NEW k \in 1 .. n
    PROVE  GroupSplit(g, n)[k] \in Groups
<1>. DEFINE length == (Len(g) + n - 1) \div n
            b == (k - 1) * length + 1
            e == Min({k * length, Len(g)})
<1>1. g \in Seq(Units) /\ Ascending(g) /\ Len(g) \in Nat
  BY UnitsNumbers
<1>2. GroupSplit(g, n)[k] = SubSeq(g, b, e)
  BY Zenon DEF GroupSplit
<1>3. length \in Nat
  <2>1. n \in Nat /\ n > 0 /\ Len(g) + n - 1 \in Nat
    BY <1>1
  <2>. QED  BY <2>1, SMTT(30)
<1>4. b \in Nat \ {0} /\ k * length \in Nat
  <2>. HIDE DEF length
  <2>1. k - 1 \in Nat /\ k \in Nat
    OBVIOUS
  <2>2. \A x, y \in Nat : x * y \in Nat
    BY SMTT(30)
  <2>. QED  BY <1>3, <2>1, <2>2
<1>5. e \in Nat /\ e <= Len(g)
  <2>. DEFINE a == k * length
              c == Len(g)
  <2>. HIDE DEF a, c
  <2>1. a \in Nat /\ c \in Nat
    BY <1>1, <1>4 DEF a, c
  <2>2. \E x \in {a, c} : \A y \in {a, c} : x <= y
    BY <2>1
  <2>3. Min({a, c}) \in {a, c} /\ \A y \in {a, c} : Min({a, c}) <= y
    BY <2>2 DEF Min
  <2>. QED  BY <2>1, <2>3 DEF a, c
<1>. HIDE DEF b, e
<1>6. CASE b <= e
  <2>1. /\ SubSeq(g, b, e) \in Seq(Units)
        /\ \A i \in DOMAIN SubSeq(g, b, e) :
               b + i - 1 \in DOMAIN g /\ SubSeq(g, b, e)[i] = g[b + i - 1]
    BY <1>1, <1>4, <1>5, <1>6
  <2>2. Ascending(SubSeq(g, b, e))
    <3>. DEFINE w == SubSeq(g, b, e)
    <3>. SUFFICES ASSUME NEW i \in DOMAIN w, NEW j \in DOMAIN w, i < j PROVE w[i] < w[j]
      BY Zenon DEF Ascending
    <3>1. b + i - 1 < b + j - 1
      BY <1>4, <2>1
    <3>. QED  BY <1>1, <2>1, <3>1, Zenon DEF Ascending
  <2>. QED  BY <1>2, <2>1, <2>2 DEF Groups
<1>7. CASE ~ (b <= e)
  <2>1. SubSeq(g, b, e) = <<>>
    BY <1>1, <1>4, <1>5, <1>7
  <2>. QED  BY <1>2, <2>1 DEF Groups, Ascending
<1>. QED  BY <1>4, <1>5, <1>6, <1>7

\* Every operation of a program makes a group.
LEMMA StepMakesGroup ==
    ASSUME NEW g \in Groups, NEW s \in Steps
    PROVE  Step(g, s) \in Groups
<1>1. CASE s \in [op : {"add", "delete"}, arg : Units]
  <2>1. <<s.arg>> \in Groups
    BY <1>1, UnitsNumbers DEF Groups, Ascending
  <2>2. AddMember(g, s.arg) \in Groups /\ DelMember(g, s.arg) \in Groups
    BY <2>1, UnionIsGroup, WithoutIsGroup DEF AddMember, DelMember
  <2>. QED  BY <1>1, <2>2 DEF Step
<1>2. CASE s \in [op : {"union", "intersect"}, arg : Groups]
  <2>1. GroupUnion(g, s.arg) \in Groups
    BY <1>2, UnionIsGroup
  <2>2. GroupIntersect(g, s.arg) \in Groups
    BY KeptIsGroup DEF GroupIntersect
  <2>. QED  BY <1>2, <2>1, <2>2 DEF Step
<1>3. CASE s \in {x \in [op : {"split"}, arg : Nat \X Nat] : x.arg[2] \in 1 .. x.arg[1]}
  <2>1. s.op = "split" /\ s.arg[1] \in Nat /\ s.arg[2] \in 1 .. s.arg[1]
    BY <1>3
  <2>2. GroupSplit(g, s.arg[1])[s.arg[2]] \in Groups
    BY <2>1, SplitIsGroup
  <2>. QED  BY <2>1, <2>2 DEF Step
<1>. QED  BY <1>1, <1>2, <1>3 DEF Steps

\* So does a recipe, from the members of a team.
LEMMA MadeIsGroup ==
    ASSUME NEW g \in Groups, NEW recipe \in Recipes
    PROVE  Made(recipe, g) \in Groups
<1>. DEFINE steps == recipe.steps
            n == Len(steps)
            base == IF recipe.from = "none" THEN <<>> ELSE g
            step == [p \in (1 .. n) \X Groups |-> Step(p[2], steps[p[1]])]
            Body(h) == [t \in SUBSET (1 .. n) |->
                IF t = {} THEN base ELSE Step(h[t \ {Max(t)}], steps[Max(t)])]
            fold == CHOOSE h : h = Body(h)
<1>1. /\ n \in Nat /\ DOMAIN steps = 1 .. n
      /\ \A i \in 1 .. n : steps[i] \in Steps
      /\ base \in Groups
  <2>1. recipe \in [from : {"none", "team"}, steps : Seq(Steps)]
    BY RecipesAssumption
  <2>2. steps \in Seq(Steps)
    BY <2>1
  <2>3. <<>> \in Groups
    BY DEF Groups, Ascending
  <2>. QED  BY <2>2, <2>3
<1>. HIDE DEF steps, base
<1>2. Made(recipe, g) = fold[1 .. n]
  BY <1>1 DEF Made, FoldLeft, MapThenFoldSet, steps, base
<1>3. \E h : h = Body(h)
  <2>1. step \in [(1 .. n) \X Groups -> Groups]
    <3>1. \A p \in (1 .. n) \X Groups : Step(p[2], steps[p[1]]) \in Groups
      BY <1>1, StepMakesGroup
    <3>. QED  BY <3>1
  <2>2. PICK h \in [SUBSET (1 .. n) -> Groups] : Folds(h, n, base, step)
    <3>. HIDE DEF n, step
    <3>. QED  BY <1>1, <2>1, FoldExists, Zenon
  <2>3. ASSUME NEW t \in SUBSET (1 .. n) PROVE h[t] = Body(h)[t]
    <3>1. CASE t # {}
      <4>1. Max(t) \in 1 .. n /\ h[t \ {Max(t)}] \in Groups
        BY <1>1, <3>1, GreatestPosition, Zenon
      <4>2. step[<<Max(t), h[t \ {Max(t)}]>>] = Step(h[t \ {Max(t)}], steps[Max(t)])
        BY <4>1
      <4>. HIDE DEF step
      <4>. QED  BY <2>2, <3>1, <4>2 DEF Folds
    <3>. QED  BY <2>2, <3>1, Zenon DEF Folds
  <2>4. h = Body(h)
    BY <2>3, Zenon
  <2>. HIDE DEF Body
  <2>. QED  BY <2>4
<1>4. fold = Body(fold)
  <2>. HIDE DEF Body
  <2>. QED  BY <1>3
<1>. DEFINE P == {t \in SUBSET (1 .. n) : fold[t] \in Groups}
<1>. HIDE DEF fold
<1>5. {} \in P
  BY <1>1, <1>4
<1>6. ASSUME NEW t \in SUBSET (1 .. n), t # {}, t \ {Max(t)} \in P
      PROVE  t \in P
  <2>1. Max(t) \in 1 .. n
    BY <1>1, <1>6, GreatestPosition, Zenon
  <2>2. fold[t] = Step(fold[t \ {Max(t)}], steps[Max(t)])
    BY <1>4, <1>6, Zenon
  <2>3. fold[t \ {Max(t)}] \in Groups
    BY <1>6
  <2>. QED  BY <1>1, <2>1, <2>2, <2>3, StepMakesGroup
<1>7. 1 .. n \in P
  <2>. HIDE DEF P, n
  <2>. QED  BY <1>1, <1>5, <1>6, FoldInduction, Zenon
<1>. QED  BY <1>2, <1>7

\* What the types say of each unit and communicator.
LEMMA Shapes ==
    RegistryTypeOK =>
        /\ Len(members) \in Nat /\ DOMAIN members = 1 .. Len(members)
        /\ DOMAIN calls = DOMAIN members /\ DOMAIN made = DOMAIN members
        /\ \A c \in DOMAIN members :
               /\ members[c] \in Seq(Units)
               /\ calls[c] \in Seq([request : Requests, result : Results])
               /\ made[c] \in [Units -> Nat]
        /\ \A u \in Units :
               /\ pc[u] \in [at : Labels, comm : Nat, n : Nat, slot : Slots, pos : Int]
               /\ nextId[u] \in Nat
               /\ allocated[u] \in Seq([index : Slots, id : Nat])
               /\ free[u] \in Seq(Slots)
               /\ teams[u] \in [Slots -> Nat] /\ wins[u] \in [Slots -> Nat]
<1>. SUFFICES ASSUME RegistryTypeOK
     PROVE  /\ Len(members) \in Nat /\ DOMAIN members = 1 .. Len(members)
            /\ DOMAIN calls = DOMAIN members /\ DOMAIN made = DOMAIN members
            /\ \A c \in DOMAIN members :
                   /\ members[c] \in Seq(Units)
                   /\ calls[c] \in Seq([request : Requests, result : Results])
                   /\ made[c] \in [Units -> Nat]
            /\ \A u \in Units :
                   /\ pc[u] \in [at : Labels, comm : Nat, n : Nat, slot : Slots, pos : Int]
                   /\ nextId[u] \in Nat
                   /\ allocated[u] \in Seq([index : Slots, id : Nat])
                   /\ free[u] \in Seq(Slots)
                   /\ teams[u] \in [Slots -> Nat] /\ wins[u] \in [Slots -> Nat]
  BY Zenon
<1>. DEFINE R == [request : Requests, result : Results]
<1>1. Len(members) \in Nat /\ DOMAIN members = 1 .. Len(members)
  BY DEF RegistryTypeOK
<1>2. DOMAIN calls = DOMAIN members
  <2>1. calls \in Seq(Seq(R)) /\ Len(calls) = Len(members)
    BY DEF RegistryTypeOK
  <2>. HIDE DEF R
  <2>. QED  BY <1>1, <2>1
<1>3. DOMAIN made = DOMAIN members
  <2>1. made \in Seq([Units -> Nat]) /\ Len(made) = Len(members)
    BY DEF RegistryTypeOK
  <2>. QED  BY <1>1, <2>1
<1>4. \A c \in DOMAIN members :
          /\ members[c] \in Seq(Units) /\ calls[c] \in Seq(R) /\ made[c] \in [Units -> Nat]
  <2>1. /\ members \in Seq(Seq(Units)) /\ calls \in Seq(Seq(R))
        /\ made \in Seq([Units -> Nat])
    BY DEF RegistryTypeOK
  <2>. HIDE DEF R
  <2>. QED  BY <1>1, <1>2, <1>3, <2>1
<1>5. \A u \in Units :
          /\ pc[u] \in [at : Labels, comm : Nat, n : Nat, slot : Slots, pos : Int]
          /\ nextId[u] \in Nat
          /\ allocated[u] \in Seq([index : Slots, id : Nat])
          /\ free[u] \in Seq(Slots)
  BY Zenon DEF RegistryTypeOK
<1>6. \A u \in Units : teams[u] \in [Slots -> Nat] /\ wins[u] \in [Slots -> Nat]
  <2>1. /\ teams \in [Units -> [Slots -> 0 .. Len(members)]]
        /\ wins \in [Units -> [Slots -> 0 .. Len(members)]]
    BY DEF RegistryTypeOK
  <2>. HIDE DEF Slots
  <2>. QED  BY <1>1, <2>1
<1>. HIDE DEF R
<1>. QED  BY <1>1, <1>2, <1>3, <1>4, <1>5, <1>6, Zenon DEF R

\* A team of a unit is at its place in the list, and in its slot.
LEMMA TeamFound ==
    ASSUME RegistryInv, NEW u \in Units, NEW k \in DOMAIN allocated[u]
    PROVE  LET t == allocated[u][k].id
               slot == allocated[u][k].index
           IN  /\ Position(u, t) = k /\ Known(u, t)
               /\ SlotOf(u, t) = slot /\ slot \in Slots /\ t \in Nat
               /\ CommOf(u, t) = teams[u][slot]
               /\ CommOf(u, t) \in DOMAIN members
               /\ u \in Members(members[CommOf(u, t)])
               /\ t = TeamAll <=> k = 1
<1>. DEFINE list == allocated[u]
            t == list[k].id
            slot == list[k].index
<1>1. /\ list \in Seq([index : Slots, id : Nat])
      /\ \A i, j \in DOMAIN list : i < j => list[i].id < list[j].id
      /\ list # <<>> /\ list[1] = [index |-> 0, id |-> TeamAll]
      /\ teams[u][slot] \in DOMAIN members
      /\ u \in Members(members[teams[u][slot]])
  BY Shapes, Zenon DEF RegistryInv, IdsIncrease, UnitInv, Lists, Listed
<1>2. /\ Len(list) \in Nat /\ DOMAIN list = 1 .. Len(list) /\ k \in 1 .. Len(list)
      /\ 1 \in DOMAIN list
      /\ \A i \in DOMAIN list : list[i].id \in Nat /\ list[i].index \in Slots
  <2>. DEFINE Entry == [index : Slots, id : Nat]
  <2>1. list \in Seq(Entry) /\ list # <<>> /\ k \in DOMAIN list
    BY <1>1
  <2>2. \A e \in Entry : e.id \in Nat /\ e.index \in Slots
    OBVIOUS
  <2>. HIDE DEF Entry, list
  <2>3. Len(list) \in Nat /\ DOMAIN list = 1 .. Len(list) /\ \A i \in DOMAIN list : list[i] \in Entry
    BY <2>1
  <2>4. 1 \in DOMAIN list
    BY <2>1, <2>3
  <2>. QED  BY <2>1, <2>2, <2>3, <2>4
<1>3. t = TeamAll <=> k = 1
  BY <1>1, <1>2, SMTT(30) DEF TeamAll
<1>4. Position(u, t) = k
  <2>1. CASE t = TeamAll
    BY <1>3, <2>1 DEF Position
  <2>2. CASE t # TeamAll
    <3>1. Search(list, t) = k
      <4>. DEFINE Entry == [index : Slots, id : Nat]
      <4>1. list \in Seq(Entry) /\ k \in DOMAIN list /\ \A i \in DOMAIN list : list[i].id \in Int
        BY <1>1, <1>2
      <4>. HIDE DEF Entry, list
      <4>2. Search(list, list[k].id) = k
        BY <1>1, <4>1, SearchFinds, Zenon
      <4>. QED  BY <4>2
    <3>. QED  BY <1>1, <2>2, <3>1 DEF Position
  <2>. QED  BY <2>1, <2>2
<1>5. SlotOf(u, t) = slot
  BY <1>1, <1>3, <1>4 DEF SlotOf
<1>6. Known(u, t) /\ CommOf(u, t) = teams[u][slot]
  <2>1. k # 0
    BY <1>2
  <2>. HIDE DEF t, slot, RegistryInv
  <2>. QED  BY <1>4, <1>5, <2>1 DEF Known, CommOf
<1>7. /\ teams[u][slot] \in DOMAIN members /\ u \in Members(members[teams[u][slot]])
      /\ slot \in Slots /\ t \in Nat
  BY <1>1, <1>2
<1>. QED  BY <1>3, <1>4, <1>5, <1>6, <1>7, Zenon

\* The invariant implies that teams resolve.
LEMMA RegistryResolves == RegistryInv => TeamsResolve
<1>. SUFFICES ASSUME RegistryInv, NEW u \in Units, NEW k \in DOMAIN allocated[u]
     PROVE  LET t == allocated[u][k].id
            IN  /\ Known(u, t)
                /\ u \in Members(members[CommOf(u, t)])
                /\ Ascending(members[CommOf(u, t)])
                /\ t # TeamAll =>
                       \E c \in DOMAIN calls : \E n \in Creations(c) :
                           calls[c][n].result = [id |-> t, comm |-> CommOf(u, t)]
  BY DEF TeamsResolve, TeamIds
<1>. DEFINE t == allocated[u][k].id
<1>1. /\ Known(u, t) /\ CommOf(u, t) = teams[u][allocated[u][k].index]
      /\ CommOf(u, t) \in DOMAIN members
      /\ u \in Members(members[CommOf(u, t)])
      /\ t = TeamAll <=> k = 1
  BY TeamFound
<1>2. Ascending(members[CommOf(u, t)])
  BY <1>1, SMTT(30) DEF RegistryInv, CallsInv, Groups
<1>3. t # TeamAll =>
          \E c \in DOMAIN calls : \E n \in Creations(c) :
              calls[c][n].result = [id |-> t, comm |-> CommOf(u, t)]
  <2>1. UnitInv(u)
    BY DEF RegistryInv
  <2>2. Listed(u, k)
    BY <2>1 DEF UnitInv, Lists
  <2>. HIDE DEF RegistryInv
  <2>. QED  BY <1>1, <2>2 DEF Listed
<1>. QED  BY <1>1, <1>2, <1>3

Call == [request : Requests, result : Results]

\* What a call on c by u changes: u has made one more, which is either
\* recorded already or the last one now.
MadeOneMore(u, c, request) ==
    LET n == made[c][u] + 1
    IN  /\ pc[u] = Idle /\ members' = members
        /\ made' \in Seq([Units -> Nat]) /\ Len(made') = Len(made)
        /\ calls' \in Seq(Seq(Call)) /\ Len(calls') = Len(calls)
        /\ \A d \in DOMAIN members : \A v \in Units :
               made'[d][v] = IF d = c /\ v = u THEN n ELSE made[d][v]
        /\ \A d \in DOMAIN members :
               /\ Len(calls[d]) \in Nat /\ Len(calls'[d]) \in Nat
               /\ Len(calls[d]) <= Len(calls'[d])
               /\ DOMAIN calls[d] = 1 .. Len(calls[d])
               /\ DOMAIN calls'[d] = 1 .. Len(calls'[d])
               /\ \A i \in DOMAIN calls[d] : calls'[d][i] = calls[d][i]
               /\ \A i \in DOMAIN calls'[d] \ DOMAIN calls[d] :
                      /\ d = c /\ i = n
                      /\ calls'[d][i] = [request |-> request, result |-> NotYet]
        /\ n \in DOMAIN calls'[c] /\ calls'[c][n].request = request

\* A collective call of MPI does that.
LEMMA MakeCalls ==
    ASSUME RegistryInv, NEW u \in Units, NEW c \in DOMAIN members,
           NEW request \in Requests, Make(u, c, request)
    PROVE  MadeOneMore(u, c, request)
<1>. DEFINE n == made[c][u] + 1
            new == [request |-> request, result |-> NotYet]
<1>. USE DEF RegistryInv
<1>1. pc[u] = Idle /\ members' = members /\ made' = [made EXCEPT ![c][u] = n]
  BY DEF Make
<1>2. \/ n <= Len(calls[c]) /\ calls[c][n].request = request /\ calls' = calls
      \/ ~ (n <= Len(calls[c])) /\ calls' = [calls EXCEPT ![c] = Append(@, new)]
  BY DEF Make
<1>3. /\ calls \in Seq(Seq(Call)) /\ made \in Seq([Units -> Nat])
      /\ DOMAIN calls = DOMAIN members /\ DOMAIN made = DOMAIN members
      /\ made[c][u] \in Nat /\ made[c][u] <= Len(calls[c])
      /\ \A d \in DOMAIN members :
             /\ calls[d] \in Seq(Call) /\ made[d] \in [Units -> Nat]
             /\ Len(calls[d]) \in Nat /\ DOMAIN calls[d] = 1 .. Len(calls[d])
  <2>1. /\ calls \in Seq(Seq(Call)) /\ made \in Seq([Units -> Nat])
        /\ made[c][u] <= Len(calls[c])
    BY DEF RegistryTypeOK, Call
  <2>2. /\ DOMAIN calls = DOMAIN members /\ DOMAIN made = DOMAIN members
        /\ \A d \in DOMAIN members : calls[d] \in Seq(Call) /\ made[d] \in [Units -> Nat]
    BY Shapes, Zenon DEF Call
  <2>3. \A d \in DOMAIN members : Len(calls[d]) \in Nat /\ DOMAIN calls[d] = 1 .. Len(calls[d])
    BY <2>2
  <2>. QED  BY <2>1, <2>2, <2>3
<1>4. new \in Call
  BY DEF Call, Results, NotYet, NoComm
<1>5. /\ made' \in Seq([Units -> Nat]) /\ Len(made') = Len(made)
      /\ \A d \in DOMAIN members : \A v \in Units :
             made'[d][v] = IF d = c /\ v = u THEN n ELSE made[d][v]
  <2>1. made' = [made EXCEPT ![c] = [made[c] EXCEPT ![u] = n]]
    BY <1>1
  <2>2. [made[c] EXCEPT ![u] = n] \in [Units -> Nat]
    BY <1>3
  <2>3. made' \in Seq([Units -> Nat]) /\ Len(made') = Len(made)
    BY <1>3, <2>1, <2>2
  <2>4. \A d \in DOMAIN members : made'[d] = IF d = c THEN [made[c] EXCEPT ![u] = n] ELSE made[d]
    BY <1>3, <2>1
  <2>. QED  BY <1>3, <2>3, <2>4, Zenon
<1>. DEFINE After ==
         /\ calls' \in Seq(Seq(Call)) /\ Len(calls') = Len(calls)
         /\ \A d \in DOMAIN members :
               /\ Len(calls'[d]) \in Nat
               /\ Len(calls[d]) <= Len(calls'[d])
               /\ DOMAIN calls'[d] = 1 .. Len(calls'[d])
               /\ \A i \in DOMAIN calls[d] : calls'[d][i] = calls[d][i]
               /\ \A i \in DOMAIN calls'[d] \ DOMAIN calls[d] :
                      d = c /\ i = n /\ calls'[d][i] = new
         /\ n \in DOMAIN calls'[c] /\ calls'[c][n].request = request
<1>8. After
  <2>6. CASE n <= Len(calls[c])
    BY <1>2, <1>3, <2>6, SMTT(30)
  <2>7. CASE ~ (n <= Len(calls[c]))
    <3>1. calls' = [calls EXCEPT ![c] = Append(calls[c], new)] /\ n = Len(calls[c]) + 1
      BY <1>2, <1>3, <2>7
    <3>. DEFINE w == Append(calls[c], new)
    <3>. HIDE DEF new
    <3>2. /\ w \in Seq(Call) /\ Len(w) = n /\ DOMAIN w = 1 .. n /\ w[n] = new
          /\ \A i \in DOMAIN calls[c] : w[i] = calls[c][i]
      BY <1>3, <1>4, <3>1
    <3>. HIDE DEF w
    <3>3. calls' \in Seq(Seq(Call)) /\ Len(calls') = Len(calls)
      BY <1>3, <3>1, <3>2 DEF w
    <3>4. \A d \in DOMAIN members : calls'[d] = IF d = c THEN w ELSE calls[d]
      BY <1>3, <3>1 DEF w
    <3>5. n \in DOMAIN calls'[c] /\ calls'[c][n].request = request
      BY <3>2, <3>4, <1>3 DEF new
    <3>6. ASSUME NEW d \in DOMAIN members
          PROVE  /\ Len(calls'[d]) \in Nat
                 /\ Len(calls[d]) <= Len(calls'[d])
                 /\ DOMAIN calls'[d] = 1 .. Len(calls'[d])
                 /\ \A i \in DOMAIN calls[d] : calls'[d][i] = calls[d][i]
                 /\ \A i \in DOMAIN calls'[d] \ DOMAIN calls[d] :
                        d = c /\ i = n /\ calls'[d][i] = new
      <4>1. CASE d = c
        BY <1>3, <3>1, <3>2, <3>4, <4>1
      <4>2. CASE d # c
        BY <1>3, <3>4, <4>2
      <4>. QED  BY <4>1, <4>2
    <3>. QED  BY <3>3, <3>5, <3>6
  <2>. QED  BY <2>6, <2>7
<1>. QED  BY <1>1, <1>3, <1>5, <1>8, Zenon DEF MadeOneMore

\* The units of a call stay those that are allowed to make it, and every
\* unit it is asked of is in a call it has made last.
LEMMA MakeKeepsRegistry ==
    ASSUME RegistryInv, NEW u \in Units, NEW c \in DOMAIN members,
           u \in Members(members[c]), NEW request \in Requests,
           request.op = "create" => request.arg \in Groups \ {<<>>},
           Make(u, c, request), UNCHANGED listVars,
           \/ UNCHANGED pc
           \/ \E label \in Labels \ {"idle", "window"}, slot \in Slots, pos \in Int :
                  /\ At(u, label, c, slot, pos)
                  /\ label = "create" => request.op = "create"
                  /\ label = "destroy" => /\ pos \in DOMAIN allocated[u] \ {1}
                                          /\ allocated[u][pos].index = slot
    PROVE  RegistryInv'
<1>. DEFINE n == made[c][u] + 1
<1>1. MadeOneMore(u, c, request)
  BY MakeCalls
<1>. USE DEF RegistryInv
<1>2. /\ pc[u] = Idle /\ members' = members
      /\ \A d \in DOMAIN members : \A v \in Units :
             made'[d][v] = IF d = c /\ v = u THEN n ELSE made[d][v]
      /\ \A d \in DOMAIN members :
             /\ Len(calls[d]) \in Nat /\ Len(calls'[d]) \in Nat
             /\ Len(calls[d]) <= Len(calls'[d])
             /\ DOMAIN calls[d] = 1 .. Len(calls[d])
             /\ DOMAIN calls'[d] = 1 .. Len(calls'[d])
             /\ \A i \in DOMAIN calls[d] : calls'[d][i] = calls[d][i]
             /\ \A i \in DOMAIN calls'[d] \ DOMAIN calls[d] :
                    /\ d = c /\ i = n
                    /\ calls'[d][i] = [request |-> request, result |-> NotYet]
      /\ n \in DOMAIN calls'[c] /\ calls'[c][n].request = request
  BY <1>1 DEF MadeOneMore
<1>3. UNCHANGED <<nextId, allocated, free, teams, wins>>
  BY DEF listVars
<1>4. /\ Len(members) \in Nat /\ DOMAIN members = 1 .. Len(members)
      /\ DOMAIN calls = DOMAIN members /\ DOMAIN made = DOMAIN members
      /\ \A d \in DOMAIN members : \A v \in Units :
             made[d][v] \in Nat /\ made[d][v] <= Len(calls[d])
      /\ \A v \in Units :
             pc[v] \in [at : Labels, comm : Nat, n : Nat, slot : Slots, pos : Int]
  BY Shapes, ZenonT(30) DEF RegistryTypeOK
<1>5. DOMAIN calls' = DOMAIN members /\ DOMAIN made' = DOMAIN members
  <2>1. /\ made' \in Seq([Units -> Nat]) /\ Len(made') = Len(made)
        /\ calls' \in Seq(Seq(Call)) /\ Len(calls') = Len(calls)
        /\ Len(calls) = Len(members) /\ Len(made) = Len(members)
    BY <1>1 DEF MadeOneMore, RegistryTypeOK
  <2>. QED  BY <1>4, <2>1
\* Only the place of u may change.
<1>6. PICK place \in [at : Labels \ {"idle", "window"}, comm : Nat, n : Nat, slot : Slots, pos : Int] :
          \/ pc' = pc
          \/ /\ pc' = [pc EXCEPT ![u] = place]
             /\ place.comm = c /\ place.n = n
             /\ place.at = "create" => request.op = "create"
             /\ place.at = "destroy" => /\ place.pos \in DOMAIN allocated[u] \ {1}
                                        /\ allocated[u][place.pos].index = place.slot
  <2>1. CASE pc' = pc
    <3>. DEFINE some == [at |-> "create", comm |-> 0, n |-> 0, slot |-> pc[u].slot, pos |-> 0]
    <3>1. pc[u].slot \in Slots /\ "create" \in Labels \ {"idle", "window"}
      BY <1>4 DEF Labels, Operations
    <3>2. some \in [at : Labels \ {"idle", "window"}, comm : Nat, n : Nat, slot : Slots, pos : Int]
      BY <3>1
    <3>. QED  BY <2>1, <3>2, Zenon
  <2>2. CASE \E label \in Labels \ {"idle", "window"}, slot \in Slots, pos \in Int :
                 /\ At(u, label, c, slot, pos)
                 /\ label = "create" => request.op = "create"
                 /\ label = "destroy" => /\ pos \in DOMAIN allocated[u] \ {1}
                                         /\ allocated[u][pos].index = slot
    <3>1. PICK label \in Labels \ {"idle", "window"}, slot \in Slots, pos \in Int :
                 /\ At(u, label, c, slot, pos)
                 /\ label = "create" => request.op = "create"
                 /\ label = "destroy" => /\ pos \in DOMAIN allocated[u] \ {1}
                                         /\ allocated[u][pos].index = slot
      BY <2>2
    <3>. DEFINE new == [at |-> label, comm |-> c, n |-> n, slot |-> slot, pos |-> pos]
    <3>2. n \in Nat /\ c \in Nat
      BY <1>4
    <3>. HIDE DEF n
    <3>3. new \in [at : Labels \ {"idle", "window"}, comm : Nat, n : Nat, slot : Slots, pos : Int]
      BY <3>2
    <3>4. pc' = [pc EXCEPT ![u] = new]
      BY <3>1 DEF At, n
    <3>. QED  BY <3>1, <3>3, <3>4, Zenon
  <2>. QED  BY <2>1, <2>2
<1>7. \A v \in Units :
          \/ pc'[v] = pc[v]
          \/ /\ v = u /\ pc'[u] = place /\ place.comm = c /\ place.n = n
             /\ place.at = "create" => request.op = "create"
             /\ place.at = "destroy" => /\ place.pos \in DOMAIN allocated[u] \ {1}
                                        /\ allocated[u][place.pos].index = place.slot
  <2>1. pc \in [Units -> [at : Labels, comm : Nat, n : Nat, slot : Slots, pos : Int]]
    BY DEF RegistryTypeOK
  <2>. QED  BY <1>6, <2>1
<1>. HIDE DEF n
<1>8. \A v \in Units : pc[v].at # "idle" => v # u /\ pc'[v] = pc[v]
  <2>1. pc[u].at = "idle"
    BY <1>2 DEF Idle
  <2>. QED  BY <1>7, <2>1
<1>t. RegistryTypeOK'
  <2>1. pc' \in [Units -> [at : Labels, comm : Nat, n : Nat, slot : Slots, pos : Int]]
    BY <1>6, Zenon DEF RegistryTypeOK
  <2>2. /\ made' \in Seq([Units -> Nat]) /\ Len(made') = Len(made)
        /\ calls' \in Seq(Seq([request : Requests, result : Results])) /\ Len(calls') = Len(calls)
    BY <1>1 DEF MadeOneMore, Call
  <2>3. \A d \in DOMAIN members : \A v \in Units : made'[d][v] <= Len(calls'[d])
    <3>. SUFFICES ASSUME NEW d \in DOMAIN members, NEW v \in Units PROVE made'[d][v] <= Len(calls'[d])
      OBVIOUS
    <3>1. CASE d = c /\ v = u
      <4>1. made'[d][v] = n /\ n \in 1 .. Len(calls'[c])
        BY <1>2, <3>1
      <4>. QED  BY <1>2, <3>1, <4>1
    <3>2. CASE ~ (d = c /\ v = u)
      <4>1. made'[d][v] = made[d][v] /\ made[d][v] <= Len(calls[d]) /\ Len(calls[d]) <= Len(calls'[d])
        BY <1>2, <1>4, <3>2, Zenon
      <4>. QED  BY <1>2, <1>4, <4>1
    <3>. QED  BY <3>1, <3>2
  <2>. QED  BY <1>2, <1>3, <2>1, <2>2, <2>3, Zenon DEF RegistryTypeOK
<1>l. SlotsConserved' /\ IdsIncrease'
  BY <1>3 DEF SlotsConserved, IdsIncrease
<1>c. CallsInv'
  <2>1. World \in DOMAIN members' /\ members'[World] = [r \in 1 .. Cardinality(Units) |-> r - 1]
    BY <1>2 DEF CallsInv
  <2>2. \A d \in DOMAIN members' : members'[d] \in Groups \ {<<>>}
    BY <1>2 DEF CallsInv
  <2>3. ASSUME NEW d \in DOMAIN members', NEW i \in DOMAIN calls'[d] PROVE CallInv(d, i)'
    <3>1. CASE i \in DOMAIN calls[d]
      <4>1. calls'[d][i] = calls[d][i]
        BY <1>2, <3>1
      <4>2. calls[d][i].result # NotYet => MadeBy(Members(members[d]), d, i)
        BY <1>2, <3>1 DEF CallsInv, CallInv
      <4>3. MadeBy(Members(members[d]), d, i) => MadeBy(Members(members[d]), d, i)'
        <5>. SUFFICES ASSUME MadeBy(Members(members[d]), d, i), NEW v \in Members(members[d])
                      PROVE  made'[d][v] >= i
          BY <1>2 DEF MadeBy
        <5>1. d \in DOMAIN members /\ v \in Units
          BY <1>2, Shapes DEF Members, ToSet
        <5>2. made[d][v] >= i /\ made[d][v] \in Nat
          BY <1>4, <5>1 DEF MadeBy
        <5>3. made'[d][v] = made[d][v] \/ made'[d][v] = made[d][v] + 1
          BY <1>2, <5>1 DEF n
        <5>4. i \in Nat
          BY <1>2, <5>1, <3>1
        <5>. QED  BY <5>2, <5>3, <5>4
      <4>4. CallInv(d, i)
        BY <1>2, <3>1 DEF CallsInv
      <4>. QED  BY <1>2, <4>1, <4>3, <4>4 DEF CallInv
    <3>2. CASE i \notin DOMAIN calls[d]
      <4>1. calls'[d][i] = [request |-> request, result |-> NotYet]
        BY <1>2, <3>2
      <4>. QED  BY <4>1 DEF CallInv
    <3>. QED  BY <3>1, <3>2
  <2>. QED  BY <2>1, <2>2, <2>3 DEF CallsInv
<1>9. ASSUME NEW v \in Units PROVE InCall(v)'
  <2>1. CASE v = u /\ pc'[u] = place /\ place.comm = c /\ place.n = n
    <3>1. place.at # "idle" /\ made'[c][u] = n
      BY <1>2, <1>6
    <3>2. u \in Members(members'[c]) /\ c \in DOMAIN members' /\ n \in DOMAIN calls'[c]
      BY <1>2
    <3>. QED  BY <2>1, <3>1, <3>2 DEF InCall
  <2>2. CASE pc'[v] = pc[v]
    <3>0. InCall(v)
      BY DEF UnitInv
    <3>1. CASE pc[v].at = "idle"
      BY <2>2, <3>0, <3>1 DEF InCall
    <3>2. CASE pc[v].at # "idle"
      <4>1. v # u /\ pc[v].comm \in DOMAIN members
        BY <1>8, <3>0, <3>2 DEF InCall
      <4>2. made'[pc[v].comm][v] = made[pc[v].comm][v]
        BY <1>2, <4>1
      <4>3. DOMAIN calls[pc[v].comm] \subseteq DOMAIN calls'[pc[v].comm]
        BY <1>2, <4>1
      <4>. QED  BY <1>2, <2>2, <3>0, <3>2, <4>1, <4>2, <4>3 DEF InCall
    <3>. QED  BY <3>1, <3>2
  <2>. QED  BY <1>7, <2>1, <2>2
<1>10. ASSUME NEW v \in Units PROVE Creating(v)' /\ Destroying(v)'
  <2>1. CASE /\ v = u /\ pc'[u] = place /\ place.comm = c /\ place.n = n
             /\ place.at = "create" => request.op = "create"
             /\ place.at = "destroy" => /\ place.pos \in DOMAIN allocated[u] \ {1}
                                        /\ allocated[u][place.pos].index = place.slot
    <3>1. CurrentCall(u)' = calls'[c][n]
      BY <2>1 DEF CurrentCall
    <3>2. calls'[c][n].result = NotYet
      <4>1. CASE n \in DOMAIN calls[c]
        <5>1. calls'[c][n] = calls[c][n]
          BY <1>2, <4>1
        <5>2. ~ MadeBy(Members(members[c]), c, n)
          BY <1>4 DEF MadeBy, n
        <5>. QED  BY <4>1, <5>1, <5>2 DEF CallsInv, CallInv
      <4>2. CASE n \notin DOMAIN calls[c]
        BY <1>2, <4>2
      <4>. QED  BY <4>1, <4>2
    <3>3. place.at \notin {"idle", "window"}
      BY <1>6
    <3>4. pc'[u] # pc[u]
      BY <1>2, <2>1, <3>3 DEF Idle
    <3>. QED  BY <1>2, <1>3, <1>6, <2>1, <3>1, <3>2, <3>3, <3>4 DEF Creating, Destroying
  <2>2. CASE pc'[v] = pc[v] /\ pc[v].at = "idle"
    BY <2>2 DEF Creating, Destroying
  <2>3. CASE pc'[v] = pc[v] /\ pc[v].at # "idle"
    <3>1. v # u /\ pc[v].comm \in DOMAIN members /\ pc[v].n \in DOMAIN calls[pc[v].comm]
      BY <1>8, <2>3 DEF UnitInv, InCall
    <3>2. CurrentCall(v)' = CurrentCall(v)
      BY <1>2, <2>3, <3>1 DEF CurrentCall
    <3>3. Teams(v)' = Teams(v)
      BY <1>3 DEF Teams
    <3>4. CurrentCall(v).result # NotYet =>
              made'[CurrentCall(v).result.comm][v] = made[CurrentCall(v).result.comm][v]
      <4>1. CurrentCall(v).result # NotYet => CurrentCall(v).result.comm \in DOMAIN members
        BY <3>1 DEF CurrentCall, CallsInv, CallInv
      <4>. QED  BY <1>2, <3>1, <4>1
    <3>. QED  BY <1>3, <2>3, <3>2, <3>3, <3>4 DEF UnitInv, Creating, Destroying
  <2>. QED  BY <1>7, <2>1, <2>2, <2>3
<1>11. ASSUME NEW v \in Units PROVE Lists(v)'
  <2>1. ASSUME NEW i \in DOMAIN allocated[v]
        PROVE  Listed(v, i)'
    <3>. DEFINE slot == allocated[v][i].index
                d == teams[v][slot]
    <3>1. d \in DOMAIN members /\ v \in Members(members[d])
      BY Zenon DEF UnitInv, Lists, Listed
    <3>2. ASSUME i # 1
          PROVE  \E e \in DOMAIN calls' : \E k \in Creations(e)' :
                          calls'[e][k].result = [id |-> allocated[v][i].id, comm |-> d]
      <4>1. PICK e \in DOMAIN calls : \E k \in Creations(e) :
                calls[e][k].result = [id |-> allocated[v][i].id, comm |-> d]
        BY <3>2, Zenon DEF UnitInv, Lists, Listed
      <4>2. PICK k \in Creations(e) : calls[e][k].result = [id |-> allocated[v][i].id, comm |-> d]
        BY <4>1
      <4>3. e \in DOMAIN calls' /\ k \in DOMAIN calls[e] /\ calls'[e][k] = calls[e][k]
        BY <1>2, <1>4, <1>5 DEF Creations
      <4>4. k \in Creations(e)'
        BY <1>2, <1>4, <4>3, SMTT(30) DEF Creations
      <4>. QED  BY <4>2, <4>3, <4>4
    <3>3. wins[v][slot] = d \/ (pc[v].at = "window" /\ pc[v].slot = slot)
      BY Zenon DEF UnitInv, Lists, Listed
    <3>4. pc[v].at = "window" => pc'[v] = pc[v]
      BY <1>8
    <3>. QED  BY <1>2, <1>3, <3>1, <3>2, <3>3, <3>4, SMTT(30) DEF Listed
  <2>. QED  BY <1>3, <2>1, SMTT(30) DEF UnitInv, Lists
<1>. QED  BY <1>t, <1>l, <1>c, <1>9, <1>10, <1>11 DEF UnitInv

Place == [at : Labels, comm : Nat, n : Nat, slot : Slots, pos : Int]
Entry == [index : Slots, id : Nat]

\* The elements of a sequence.
LEMMA Elements ==
    ASSUME NEW S, NEW s \in Seq(S)
    PROVE  /\ Len(s) \in Nat /\ DOMAIN s = 1 .. Len(s)
           /\ \A i \in DOMAIN s : s[i] \in S
OBVIOUS

\* The entries of the list of a unit.
LEMMA Entries ==
    RegistryTypeOK =>
        \A u \in Units :
            /\ allocated[u] \in Seq(Entry) /\ Len(allocated[u]) \in Nat
            /\ DOMAIN allocated[u] = 1 .. Len(allocated[u])
            /\ \A i \in DOMAIN allocated[u] :
                   /\ allocated[u][i] \in Entry
                   /\ allocated[u][i].id \in Nat /\ allocated[u][i].index \in Slots
<1>. SUFFICES ASSUME RegistryTypeOK, NEW u \in Units
     PROVE  /\ allocated[u] \in Seq(Entry) /\ Len(allocated[u]) \in Nat
            /\ DOMAIN allocated[u] = 1 .. Len(allocated[u])
            /\ \A i \in DOMAIN allocated[u] :
                   /\ allocated[u][i] \in Entry
                   /\ allocated[u][i].id \in Nat /\ allocated[u][i].index \in Slots
  OBVIOUS
<1>1. allocated[u] \in Seq(Entry)
  BY Zenon DEF RegistryTypeOK, Entry
<1>2. \A e \in Entry : e.id \in Nat /\ e.index \in Slots
  BY DEF Entry
<1>. QED  BY <1>1, <1>2, Elements

\* A unit in no call is at a place of its own.
LEMMA IdlePlace == Idle \in Place /\ 0 \in Slots
<1>1. 0 \in Slots
  BY BoundsAssumption DEF Slots
<1>. QED  BY <1>1 DEF Idle, Place, Labels, NoComm

\* What does not touch a unit keeps its part of the invariant.
LEMMA UnitKept ==
    ASSUME NEW v \in Units, UnitInv(v), UNCHANGED mpiVars,
           UNCHANGED <<pc[v], nextId[v], allocated[v], teams[v], wins[v]>>
    PROVE  UnitInv(v)'
<1>1. UNCHANGED <<members, calls, made>>
  BY DEF mpiVars
<1>2. CurrentCall(v)' = CurrentCall(v) /\ Teams(v)' = Teams(v)
  BY <1>1 DEF CurrentCall, Teams
<1>3. InCall(v)'
  BY <1>1 DEF InCall, UnitInv
<1>4. Creating(v)'
  BY <1>1, <1>2 DEF Creating, UnitInv
<1>5. Destroying(v)'
  BY SMTT(30) DEF Destroying, UnitInv
<1>6. \A i \in DOMAIN allocated[v] : Listed(v, i) => Listed(v, i)'
  BY <1>1 DEF Listed, Creations
<1>7. Lists(v)'
  BY <1>6 DEF Lists, UnitInv
<1>. QED  BY <1>3, <1>4, <1>5, <1>7 DEF UnitInv

\* Where no call is made or completed, the calls stay as they were.
LEMMA CallsKept == CallsInv /\ UNCHANGED mpiVars => CallsInv'
BY DEF CallsInv, CallInv, MadeBy, mpiVars

\* A unit returns from a call with its lists as they were.
LEMMA LeaveKeepsRegistry ==
    ASSUME RegistryInv, NEW u \in Units, Leave(u), pc[u].at # "window",
           UNCHANGED mpiVars, UNCHANGED <<allocated, free, teams, wins>>,
           nextId' \in [Units -> Nat], nextId'[u] >= nextId[u],
           \A v \in Units \ {u} : nextId'[v] = nextId[v]
    PROVE  RegistryInv'
<1>. USE DEF RegistryInv
<1>1. RegistryTypeOK'
  <2>1. pc' = [pc EXCEPT ![u] = Idle]
    BY DEF Leave
  <2>2. pc' \in [Units -> Place]
    BY <2>1, IdlePlace DEF RegistryTypeOK, Place
  <2>. QED  BY <2>2, Zenon DEF RegistryTypeOK, Place, mpiVars
<1>2. SlotsConserved'
  BY DEF SlotsConserved
<1>3. IdsIncrease'
  <2>1. \A v \in Units : nextId[v] \in Nat /\ nextId'[v] \in Nat /\ nextId'[v] >= nextId[v]
    <3>1. \A v \in Units : nextId[v] \in Nat /\ nextId'[v] \in Nat
      BY DEF RegistryTypeOK
    <3>2. \A v \in Units : v = u \/ nextId'[v] = nextId[v]
      OBVIOUS
    <3>. QED  BY <3>1, <3>2
  <2>2. \A v \in Units : \A i \in DOMAIN allocated[v] : allocated[v][i].id \in Nat
    BY Entries
  <2>. QED  BY <2>1, <2>2 DEF IdsIncrease
<1>4. CallsInv'
  BY CallsKept
<1>5. ASSUME NEW v \in Units PROVE UnitInv(v)'
  <2>1. CASE v # u
    <3>1. pc'[v] = pc[v]
      BY <2>1 DEF Leave, RegistryTypeOK
    <3>. QED  BY <2>1, <3>1, UnitKept
  <2>2. CASE v = u
    <3>1. pc'[u] = Idle
      BY DEF Leave, RegistryTypeOK
    <3>2. InCall(u)' /\ Creating(u)' /\ Destroying(u)'
      BY <3>1 DEF InCall, Creating, Destroying, Idle
    <3>3. \A i \in DOMAIN allocated[u] : Listed(u, i)'
      <4>1. \A i \in DOMAIN allocated[u] : Listed(u, i)
        BY DEF UnitInv, Lists
      <4>2. UNCHANGED <<members, calls>>
        BY DEF mpiVars
      <4>. QED  BY <4>1, <4>2 DEF Listed, Creations
    <3>4. Lists(u)'
      BY <3>3 DEF Lists, UnitInv
    <3>. QED  BY <2>2, <3>2, <3>4 DEF UnitInv
  <2>. QED  BY <2>1, <2>2
<1>. QED  BY <1>1, <1>2, <1>3, <1>4, <1>5

\* What SlotsConserved says of one unit, without a concatenation.
Apart(list, used) ==
    /\ \A i, j \in DOMAIN list : list[i] = list[j] => i = j
    /\ \A i, j \in DOMAIN used : used[i].index = used[j].index => i = j
    /\ \A i \in DOMAIN list, j \in DOMAIN used : list[i] # used[j].index
    /\ \A s \in Slots : \/ \E i \in DOMAIN list : list[i] = s
                        \/ \E j \in DOMAIN used : used[j].index = s

AllApart == \A u \in Units : Apart(free[u], allocated[u])

\* The free slots and those in use do not overlap and are all slots.
LEMMA ConservedApart ==
    ASSUME NEW list \in Seq(Slots), NEW used \in Seq(Entry)
    PROVE  LET both == list \o [i \in DOMAIN used |-> used[i].index]
           IN  (IsInjective(both) /\ ToSet(both) = Slots) <=> Apart(list, used)
<1>. DEFINE index == [i \in DOMAIN used |-> used[i].index]
            both == list \o index
            m == Len(list)
            n == Len(used)
<1>1. m \in Nat /\ n \in Nat /\ DOMAIN list = 1 .. m /\ DOMAIN used = 1 .. n
  OBVIOUS
<1>2. index \in Seq(Slots) /\ Len(index) = n
  <2>1. \A i \in 1 .. n : used[i].index \in Slots
    <3>1. \A i \in DOMAIN used : used[i] \in Entry
      BY Elements
    <3>. QED  BY <1>1, <3>1, Zenon DEF Entry
  <2>2. index \in [1 .. n -> Slots]
    BY <1>1, <2>1
  <2>. HIDE DEF index
  <2>. QED  BY <1>1, <2>2
<1>3. \A i \in 1 .. n : index[i] = used[i].index
  BY <1>1
<1>. HIDE DEF index
<1>4. /\ DOMAIN both = 1 .. m + n
      /\ \A i \in 1 .. m : both[i] = list[i] /\ list[i] \in Slots
      /\ \A i \in 1 .. n : both[m + i] = index[i] /\ index[i] \in Slots
      /\ \A i \in m + 1 .. m + n : i - m \in 1 .. n /\ m + (i - m) = i
  BY <1>1, <1>2
<1>. HIDE DEF both, m, n
<1>5. ASSUME IsInjective(both), ToSet(both) = Slots PROVE Apart(list, used)
  <2>1. \A i, j \in 1 .. m + n : both[i] = both[j] => i = j
    BY <1>4, <1>5 DEF IsInjective
  <2>2. \A i \in 1 .. m : i \in 1 .. m + n
    BY <1>1
  <2>3. \A i \in 1 .. n : m + i \in 1 .. m + n
    BY <1>1
  <2>4. \A i, j \in DOMAIN list : list[i] = list[j] => i = j
    BY <1>1, <1>4, <2>1, <2>2
  <2>5. \A i, j \in DOMAIN used : used[i].index = used[j].index => i = j
    <3>1. \A i, j \in 1 .. n : index[i] = index[j] => m + i = m + j
      BY <1>4, <2>1, <2>3
    <3>. QED  BY <1>1, <1>3, <3>1
  <2>6. \A i \in DOMAIN list, j \in DOMAIN used : list[i] # used[j].index
    <3>1. \A i \in 1 .. m, j \in 1 .. n : list[i] = index[j] => i = m + j
      BY <1>4, <2>1, <2>2, <2>3
    <3>. QED  BY <1>1, <1>3, <3>1
  <2>7. \A s \in Slots : \/ \E i \in DOMAIN list : list[i] = s
                         \/ \E j \in DOMAIN used : used[j].index = s
    <3>. SUFFICES ASSUME NEW s \in Slots
                  PROVE  \/ \E i \in DOMAIN list : list[i] = s
                         \/ \E j \in DOMAIN used : used[j].index = s
      OBVIOUS
    <3>1. PICK i \in 1 .. m + n : both[i] = s
      BY <1>4, <1>5 DEF ToSet
    <3>2. CASE i \in 1 .. m
      BY <1>1, <1>4, <3>1, <3>2
    <3>3. CASE i \in m + 1 .. m + n
      <4>1. i - m \in 1 .. n /\ both[m + (i - m)] = index[i - m] /\ m + (i - m) = i
        BY <1>4, <3>3
      <4>2. used[i - m].index = s /\ i - m \in DOMAIN used
        BY <1>1, <1>3, <3>1, <4>1
      <4>. QED  BY <4>2
    <3>. QED  BY <1>1, <3>1, <3>2, <3>3
  <2>. QED  BY <2>4, <2>5, <2>6, <2>7 DEF Apart
<1>6. ASSUME Apart(list, used) PROVE IsInjective(both) /\ ToSet(both) = Slots
  <2>1. \A i \in 1 .. m + n : i \in 1 .. m \/ i \in m + 1 .. m + n
    BY <1>1
  <2>2. \A i \in m + 1 .. m + n : i - m \in 1 .. n /\ both[i] = used[i - m].index /\ both[i] \in Slots
    BY <1>3, <1>4
  <2>3. ASSUME NEW i \in 1 .. m + n, NEW j \in 1 .. m + n, both[i] = both[j] PROVE i = j
    <3>1. CASE i \in 1 .. m /\ j \in 1 .. m
      BY <1>1, <1>4, <1>6, <2>3, <3>1 DEF Apart
    <3>2. CASE i \in m + 1 .. m + n /\ j \in m + 1 .. m + n
      <4>1. i - m = j - m
        BY <1>1, <1>6, <2>2, <2>3, <3>2, SMTT(30) DEF Apart
      <4>. QED  BY <1>1, <4>1
    <3>0. \A a \in 1 .. m, b \in 1 .. n : list[a] # used[b].index
      BY <1>1, <1>6, Zenon DEF Apart
    <3>3. CASE i \in 1 .. m /\ j \in m + 1 .. m + n
      <4>1. both[i] = list[i] /\ both[j] = used[j - m].index /\ j - m \in 1 .. n
        BY <1>4, <2>2, <3>3
      <4>. QED  BY <2>3, <3>0, <3>3, <4>1, Zenon
    <3>4. CASE i \in m + 1 .. m + n /\ j \in 1 .. m
      <4>1. both[j] = list[j] /\ both[i] = used[i - m].index /\ i - m \in 1 .. n
        BY <1>4, <2>2, <3>4
      <4>. QED  BY <2>3, <3>0, <3>4, <4>1
    <3>. QED  BY <2>1, <3>1, <3>2, <3>3, <3>4
  <2>4. \A s \in Slots : \E i \in 1 .. m + n : both[i] = s
    <3>. SUFFICES ASSUME NEW s \in Slots PROVE \E i \in 1 .. m + n : both[i] = s
      OBVIOUS
    <3>1. CASE \E i \in DOMAIN list : list[i] = s
      <4>1. PICK i \in 1 .. m : list[i] = s
        BY <1>1, <3>1
      <4>2. i \in 1 .. m + n
        BY <1>1
      <4>. QED  BY <1>4, <4>1, <4>2
    <3>2. CASE \E j \in DOMAIN used : used[j].index = s
      <4>1. PICK j \in 1 .. n : index[j] = s
        BY <1>1, <1>3, <3>2
      <4>2. m + j \in 1 .. m + n
        BY <1>1
      <4>. QED  BY <1>4, <4>1, <4>2
    <3>. QED  BY <1>6, <3>1, <3>2, Zenon DEF Apart
  <2>5. \A i \in 1 .. m + n : both[i] \in Slots
    BY <1>4, <2>1, <2>2
  <2>. QED  BY <1>4, <2>3, <2>4, <2>5 DEF IsInjective, ToSet
<1>. QED  BY <1>5, <1>6 DEF both, index

\* SlotsConserved says this of every unit.
LEMMA SlotsApart ==
    RegistryTypeOK => (SlotsConserved <=> AllApart)
<1>. SUFFICES ASSUME RegistryTypeOK, NEW u \in Units
     PROVE  LET used == [i \in DOMAIN allocated[u] |-> allocated[u][i].index]
            IN  (IsInjective(free[u] \o used) /\ ToSet(free[u] \o used) = Slots)
                    <=> Apart(free[u], allocated[u])
  BY Zenon DEF SlotsConserved, AllApart
<1>1. free[u] \in Seq(Slots) /\ allocated[u] \in Seq(Entry)
  BY Zenon DEF RegistryTypeOK, Entry
<1>. QED  BY <1>1, ConservedApart

\* What is known of a unit that gets the result of dart_team_create.
LEMMA ResultKnown ==
    ASSUME RegistryInv, NEW u \in Units, pc[u].at \in {"create", "window"},
           CurrentCall(u).result # NotYet
    PROVE  LET new == CurrentCall(u).result
           IN  /\ pc[u].comm \in DOMAIN calls /\ pc[u].n \in Creations(pc[u].comm)
               /\ calls[pc[u].comm][pc[u].n].result = new
               /\ new = [id |-> new.id, comm |-> new.comm]
               /\ new.id \in Nat /\ new.comm \in DOMAIN members
               /\ members[new.comm] = CurrentCall(u).request.arg
<1>. DEFINE c == pc[u].comm
            n == pc[u].n
<1>. USE DEF RegistryInv
<1>1. c \in DOMAIN members /\ c \in DOMAIN calls /\ n \in DOMAIN calls[c]
  BY Shapes DEF UnitInv, InCall
<1>2. CurrentCall(u) = calls[c][n]
  BY DEF CurrentCall
<1>3. calls[c][n] \in Call
  <2>1. calls[c] \in Seq(Call)
    BY <1>1, Shapes, Zenon DEF Call
  <2>. QED  BY <1>1, <2>1, Elements
<1>4. CallInv(c, n)
  BY <1>1 DEF CallsInv
<1>. HIDE DEF c, n
<1>5. calls[c][n].result = [id |-> calls[c][n].result.id, comm |-> calls[c][n].result.comm]
  BY <1>3 DEF Call, Results
<1>. QED  BY <1>1, <1>2, <1>4, <1>5 DEF CallInv, Creations, c, n

\* The id given out is new and the slot was free.
LEMMA InSlotKeepsRegistry ==
    ASSUME RegistryInv, NEW u \in Units, CreateInSlot(u)
    PROVE  RegistryInv'
<1>. DEFINE slot == Head(free[u])
            new == CurrentCall(u).result
            entry == [index |-> slot, id |-> new.id]
<1>. USE DEF RegistryInv
<1>1. /\ pc[u].at = "create" /\ new # NotYet
      /\ nextId' = [nextId EXCEPT ![u] = new.id + 1]
      /\ UNCHANGED mpiVars /\ UNCHANGED wins
      /\ u \in Members(CurrentCall(u).request.arg)
      /\ free[u] # <<>>
      /\ free' = [free EXCEPT ![u] = Tail(free[u])]
      /\ allocated' = [allocated EXCEPT ![u] = Append(allocated[u], entry)]
      /\ teams' = [teams EXCEPT ![u][slot] = new.comm]
      /\ pc' = [pc EXCEPT ![u].at = "window", ![u].slot = slot]
  BY DEF CreateInSlot, Reduced
<1>2. /\ pc[u].comm \in DOMAIN calls /\ pc[u].n \in Creations(pc[u].comm)
      /\ calls[pc[u].comm][pc[u].n].result = new
      /\ new = [id |-> new.id, comm |-> new.comm]
      /\ new.id \in Nat /\ new.comm \in DOMAIN members
      /\ members[new.comm] = CurrentCall(u).request.arg
  BY <1>1, ResultKnown
<1>3. /\ new.id >= nextId[u] /\ new.comm \notin Teams(u)
  BY <1>1 DEF UnitInv, Creating
<1>4. /\ free[u] \in Seq(Slots) /\ free[u] # <<>> /\ slot \in Slots
      /\ Tail(free[u]) \in Seq(Slots) /\ Len(Tail(free[u])) = Len(free[u]) - 1
      /\ Len(free[u]) \in Nat /\ 1 \in DOMAIN free[u] /\ free[u][1] = slot
      /\ DOMAIN free[u] = 1 .. Len(free[u])
      /\ DOMAIN Tail(free[u]) = 1 .. Len(free[u]) - 1
      /\ \A i \in DOMAIN Tail(free[u]) : i + 1 \in DOMAIN free[u] /\ Tail(free[u])[i] = free[u][i + 1]
  <2>1. free[u] \in Seq(Slots) /\ free[u] # <<>>
    BY <1>1 DEF RegistryTypeOK
  <2>. HIDE DEF RegistryInv
  <2>. QED  BY <2>1
<1>. DEFINE list == allocated[u]
            n == Len(list)
<1>5. /\ list \in Seq(Entry) /\ n \in Nat /\ DOMAIN list = 1 .. n
      /\ \A i \in DOMAIN list : list[i].id \in Nat /\ list[i].index \in Slots
  BY Entries
<1>. HIDE DEF slot, new, list, n
<1>6. entry \in Entry /\ entry.id = new.id /\ entry.index = slot
  BY <1>2, <1>4 DEF Entry
<1>. HIDE DEF entry
<1>. DEFINE longer == Append(list, entry)
<1>7. /\ longer \in Seq(Entry) /\ DOMAIN longer = 1 .. n + 1 /\ longer[n + 1] = entry
      /\ \A i \in 1 .. n : longer[i] = list[i]
  BY <1>5, <1>6 DEF n
<1>. HIDE DEF longer
<1>8. /\ allocated'[u] = longer /\ free'[u] = Tail(free[u]) /\ nextId'[u] = new.id + 1
      /\ teams'[u] = [teams[u] EXCEPT ![slot] = new.comm]
      /\ pc'[u] = [pc[u] EXCEPT !.at = "window", !.slot = slot]
      /\ \A v \in Units \ {u} : UNCHANGED <<pc[v], nextId[v], allocated[v], free[v], teams[v]>>
  BY <1>1, Zenon DEF RegistryTypeOK, longer, list
<1>9. /\ pc[u] \in Place
      /\ pc'[u].at = "window" /\ pc'[u].slot = slot /\ pc'[u] \in Place
      /\ pc'[u].comm = pc[u].comm /\ pc'[u].n = pc[u].n
  <2>1. pc[u] \in Place
    BY DEF RegistryTypeOK, Place
  <2>. QED  BY <1>4, <1>8, <2>1, Zenon DEF Place, Labels
<1>10. Apart(free[u], list)
  BY SlotsApart DEF AllApart, list
<1>11. /\ teams[u] \in [Slots -> Nat]
       /\ teams'[u][slot] = new.comm
       /\ \A s \in Slots \ {slot} : teams'[u][s] = teams[u][s]
  BY <1>4, <1>8, Shapes
<1>t. RegistryTypeOK'
  <2>1. pc' \in [Units -> Place]
    <3>1. pc \in [Units -> Place]
      BY DEF RegistryTypeOK, Place
    <3>2. \A v \in Units : pc'[v] \in Place
      BY <1>8, <1>9, <3>1
    <3>. QED  BY <1>1, <3>1, <3>2
  <2>2. nextId' \in [Units -> Nat]
    <3>1. new.id + 1 \in Nat
      BY <1>2
    <3>. QED  BY <1>1, <3>1 DEF RegistryTypeOK
  <2>3. allocated' \in [Units -> Seq(Entry)]
    <3>1. allocated \in [Units -> Seq(Entry)] /\ allocated' = [allocated EXCEPT ![u] = longer]
      BY <1>1, Zenon DEF RegistryTypeOK, Entry, longer, list
    <3>. QED  BY <1>7, <3>1
  <2>4. free' \in [Units -> Seq(Slots)]
    BY <1>1, <1>4 DEF RegistryTypeOK
  <2>5. teams' \in [Units -> [Slots -> 0 .. Len(members')]]
    <3>1. new.comm \in 0 .. Len(members)
      BY <1>2, Shapes
    <3>2. teams \in [Units -> [Slots -> 0 .. Len(members)]]
      BY DEF RegistryTypeOK
    <3>3. [teams[u] EXCEPT ![slot] = new.comm] \in [Slots -> 0 .. Len(members)]
      BY <3>1, <3>2, Zenon
    <3>4. teams' = [teams EXCEPT ![u] = [teams[u] EXCEPT ![slot] = new.comm]]
      BY <1>1
    <3>5. members' = members
      BY <1>1 DEF mpiVars
    <3>. QED  BY <3>2, <3>3, <3>4, <3>5
  <2>. QED  BY <1>1, <2>1, <2>2, <2>3, <2>4, <2>5, Zenon DEF RegistryTypeOK, Place, Entry, mpiVars
<1>s. SlotsConserved'
  <2>1. Apart(Tail(free[u]), longer)
    <3>1. \A i, j \in DOMAIN Tail(free[u]) : Tail(free[u])[i] = Tail(free[u])[j] => i = j
      <4>1. \A i, j \in DOMAIN Tail(free[u]) : Tail(free[u])[i] = Tail(free[u])[j] => i + 1 = j + 1
        BY <1>4, <1>10, SMTT(30) DEF Apart
      <4>. QED  BY <1>4, <4>1, SMTT(30)
    <3>2. \A i \in DOMAIN longer : \/ i \in DOMAIN list /\ longer[i] = list[i]
                                   \/ i = n + 1 /\ longer[i].index = slot
      BY <1>5, <1>6, <1>7
    <3>3. \A i \in DOMAIN list : list[i].index # slot
      BY <1>4, <1>10 DEF Apart
    <3>4. \A i, j \in DOMAIN longer : longer[i].index = longer[j].index => i = j
      BY <1>10, <3>2, <3>3 DEF Apart
    <3>5. \A i \in DOMAIN Tail(free[u]) : Tail(free[u])[i] # slot
      <4>1. \A i \in DOMAIN Tail(free[u]) : i + 1 # 1 /\ i + 1 \in DOMAIN free[u]
        BY <1>4
      <4>. QED  BY <1>4, <1>10, <4>1, SMTT(30) DEF Apart
    <3>6. \A i \in DOMAIN Tail(free[u]), j \in DOMAIN longer : Tail(free[u])[i] # longer[j].index
      BY <1>4, <1>10, <3>2, <3>5 DEF Apart
    <3>7. \A s \in Slots : \/ \E i \in DOMAIN Tail(free[u]) : Tail(free[u])[i] = s
                           \/ \E j \in DOMAIN longer : longer[j].index = s
      <4>. SUFFICES ASSUME NEW s \in Slots
                    PROVE  \/ \E i \in DOMAIN Tail(free[u]) : Tail(free[u])[i] = s
                           \/ \E j \in DOMAIN longer : longer[j].index = s
        OBVIOUS
      <4>1. CASE s = slot
        BY <1>5, <1>6, <1>7, <4>1
      <4>2. CASE \E j \in DOMAIN list : list[j].index = s
        BY <1>5, <1>7, <4>2
      <4>3. CASE s # slot /\ \E i \in DOMAIN free[u] : free[u][i] = s
        <5>1. PICK i \in DOMAIN free[u] : free[u][i] = s
          BY <4>3
        <5>2. i # 1 /\ i - 1 \in DOMAIN Tail(free[u]) /\ (i - 1) + 1 = i
          BY <1>4, <4>3, <5>1
        <5>. QED  BY <1>4, <5>1, <5>2, Zenon
      <4>. QED  BY <1>10, <4>1, <4>2, <4>3 DEF Apart
    <3>. QED  BY <3>1, <3>4, <3>6, <3>7, Zenon DEF Apart
  <2>2. \A v \in Units : Apart(free[v], allocated[v])
    BY SlotsApart DEF AllApart
  <2>3. \A v \in Units : Apart(free[v], allocated[v])'
    <3>. SUFFICES ASSUME NEW v \in Units PROVE Apart(free'[v], allocated'[v])
      BY DEF Apart
    <3>. QED  BY <1>8, <2>1, <2>2
  <2>4. (RegistryTypeOK => (SlotsConserved <=> AllApart))'
    BY SlotsApart, PTL
  <2>. QED  BY <1>t, <2>3, <2>4 DEF AllApart
<1>i. IdsIncrease'
  <2>. SUFFICES ASSUME NEW v \in Units
                PROVE  (/\ \A i, j \in DOMAIN allocated[v] : i < j => allocated[v][i].id < allocated[v][j].id
                        /\ \A i \in DOMAIN allocated[v] : allocated[v][i].id < nextId[v])'
    BY DEF IdsIncrease
  <2>1. CASE v # u
    BY <1>8, <2>1 DEF IdsIncrease
  <2>2. CASE v = u
    <3>1. nextId[u] \in Nat /\ new.id \in Nat /\ new.id >= nextId[u]
      BY <1>2, <1>3, Shapes, Zenon
    <3>2. /\ \A i, j \in 1 .. n : i < j => longer[i].id < longer[j].id
          /\ \A i \in 1 .. n : longer[i].id < nextId[u] /\ longer[i].id \in Nat
      BY <1>5, <1>7, Zenon DEF IdsIncrease, list
    <3>3. longer[n + 1].id = new.id
      BY <1>6, <1>7
    <3>4. \A i \in 1 .. n + 1 : i \in 1 .. n \/ i = n + 1
      BY <1>5
    <3>5. \A i, j \in 1 .. n + 1 : i < j => i \in 1 .. n
      BY <1>5
    <3>6. \A i, j \in 1 .. n + 1 : i < j => longer[i].id < longer[j].id
      BY <3>1, <3>2, <3>3, <3>4, <3>5
    <3>7. \A i \in 1 .. n + 1 : longer[i].id < new.id + 1
      BY <3>1, <3>2, <3>3, <3>4
    <3>. QED  BY <1>7, <1>8, <2>2, <3>6, <3>7, Zenon
  <2>. QED  BY <2>1, <2>2
<1>c. CallsInv'
  BY <1>1, CallsKept
<1>u. ASSUME NEW v \in Units PROVE UnitInv(v)'
  <2>1. CASE v # u
    BY <1>1, <1>8, <2>1, UnitKept, Zenon
  <2>2. CASE v = u
    <3>. USE <1>1
    <3>0. UNCHANGED <<members, calls, made>> /\ wins' = wins
      BY DEF mpiVars
    <3>1. InCall(u)'
      BY <1>9, <3>0, Zenon DEF InCall, UnitInv
    <3>2. CurrentCall(u)' = CurrentCall(u)
      BY <1>9, <3>0 DEF CurrentCall
    <3>3. Creating(u)' /\ Destroying(u)'
      <4>1. CurrentCall(u).request.op = "create"
        BY DEF UnitInv, Creating
      <4>2. CurrentCall(u)'.result = new
        BY <3>2 DEF new
      <4>. QED  BY <1>9, <1>11, <3>2, <4>1, <4>2 DEF Creating, Destroying
    <3>4. /\ list # <<>> /\ list[1] = [index |-> 0, id |-> TeamAll] /\ 1 \in 1 .. n
          /\ teams[u][0] = World
      BY <1>5 DEF UnitInv, Lists, list, n
    <3>5. \A i \in 1 .. n : list[i].index # slot /\ list[i].index \in Slots
      BY <1>4, <1>5, <1>10, Zenon DEF Apart
    <3>6. 0 # slot /\ 0 \in Slots
      BY <3>4, <3>5, IdlePlace
    <3>7. allocated'[u] # <<>> /\ allocated'[u][1] = [index |-> 0, id |-> TeamAll] /\ teams'[u][0] = World
      <4>1. longer # <<>>
        BY <1>5, <1>7
      <4>2. longer[1] = list[1]
        BY <1>7, <3>4
      <4>3. teams'[u][0] = teams[u][0]
        BY <1>11, <3>6
      <4>. QED  BY <1>8, <3>4, <4>1, <4>2, <4>3, Zenon
    <3>8. \A i \in 1 .. n : teams'[u][longer[i].index] = teams[u][list[i].index]
      BY <1>7, <1>11, <3>5
    <3>9. ASSUME NEW i \in DOMAIN allocated'[u] PROVE Listed(u, i)'
      <4>1. CASE i \in 1 .. n
        <5>1. Listed(u, i)
          BY <1>5, <4>1 DEF UnitInv, Lists, list
        <5>2. allocated'[u][i] = allocated[u][i]
          BY <1>7, <1>8, <4>1 DEF list
        <5>3. teams'[u][allocated[u][i].index] = teams[u][allocated[u][i].index]
          BY <1>7, <3>8, <4>1, Zenon DEF list
        <5>4. wins[u][allocated[u][i].index] = teams[u][allocated[u][i].index]
          BY <5>1 DEF Listed
        <5>. QED  BY <3>0, <5>1, <5>2, <5>3, <5>4, Zenon DEF Listed, Creations
      <4>2. CASE i = n + 1
        <5>1. allocated'[u][i] = entry
          BY <1>7, <1>8, <4>2
        <5>2. u \in Members(members[new.comm])
          BY <1>2
        <5>3. PICK d \in DOMAIN calls : \E k \in Creations(d) : calls[d][k].result = new
          BY <1>2
        <5>4. \E k \in Creations(d)' : calls'[d][k].result = new
          BY <3>0, <5>3 DEF Creations
        <5>5. new = [id |-> entry.id, comm |-> new.comm]
          BY <1>2, <1>6
        <5>6. d \in DOMAIN calls'
          BY <3>0
        <5>7. /\ allocated'[u][i].index = slot /\ allocated'[u][i].id = entry.id
              /\ teams'[u][slot] = new.comm
          BY <1>6, <1>11, <5>1
        <5>8. pc'[u].at = "window" /\ pc'[u].slot = slot
          BY <1>9
        <5>. HIDE DEF RegistryInv
        <5>9. new.comm \in DOMAIN members' /\ u \in Members(members'[new.comm])
          BY <1>2, <3>0, <5>2
        <5>. QED  BY <5>4, <5>5, <5>6, <5>7, <5>8, <5>9, Zenon DEF Listed
      <4>. QED  BY <1>5, <1>7, <1>8, <4>1, <4>2, SMTT(30)
    <3>10. ASSUME NEW i \in DOMAIN longer, NEW j \in DOMAIN longer,
                  teams'[u][longer[i].index] = teams'[u][longer[j].index]
           PROVE  i = j
      <4>1. \A k \in 1 .. n : teams'[u][longer[k].index] # new.comm
        BY <1>3, <1>5, <3>8 DEF Teams, list
      <4>2. teams'[u][longer[n + 1].index] = new.comm
        BY <1>6, <1>7, <1>11
      <4>3. \A k, l \in 1 .. n :
                teams[u][list[k].index] = teams[u][list[l].index] => k = l
        BY <1>5 DEF UnitInv, Lists, list
      <4>4. \A k \in DOMAIN longer : k \in 1 .. n \/ k = n + 1
        BY <1>5, <1>7
      <4>. QED  BY <3>8, <3>10, <4>1, <4>2, <4>3, <4>4
    <3>11. Lists(u)'
      <4>. HIDE DEF RegistryInv
      <4>1. \A i, j \in DOMAIN allocated'[u] :
                teams'[u][allocated'[u][i].index] = teams'[u][allocated'[u][j].index] => i = j
        BY <1>8, <3>10, SMTT(30)
      <4>. QED  BY <3>7, <3>9, <4>1, Zenon DEF Lists
    <3>. QED  BY <2>2, <3>1, <3>3, <3>11 DEF UnitInv
  <2>. QED  BY <2>1, <2>2
<1>. QED  BY <1>t, <1>s, <1>i, <1>c, <1>u

\* The team gets its window, in the slot it has.
LEMMA FinishKeepsRegistry ==
    ASSUME RegistryInv, NEW u \in Units, FinishCreate(u)
    PROVE  RegistryInv'
<1>. DEFINE slot == pc[u].slot
            new == CurrentCall(u).result.comm
<1>. USE DEF RegistryInv
<1>1. /\ pc[u].at = "window" /\ wins' = [wins EXCEPT ![u][slot] = new]
      /\ pc' = [pc EXCEPT ![u] = Idle]
      /\ UNCHANGED mpiVars /\ UNCHANGED <<nextId, allocated, free, teams>>
  BY DEF FinishCreate, Leave
<1>2. teams[u][slot] = new /\ CurrentCall(u).result # NotYet
  BY <1>1 DEF UnitInv, Creating
<1>3. new \in DOMAIN members
  BY <1>1, <1>2, ResultKnown, Zenon
<1>4. UNCHANGED <<members, calls, made>>
  BY <1>1 DEF mpiVars
<1>5. slot \in Slots
  BY Shapes
<1>. HIDE DEF slot, new
<1>6. /\ pc'[u] = Idle /\ wins'[u] = [wins[u] EXCEPT ![slot] = new]
      /\ \A v \in Units \ {u} : UNCHANGED <<pc[v], wins[v]>>
  BY <1>1 DEF RegistryTypeOK
<1>7. RegistryTypeOK'
  <2>1. pc' \in [Units -> Place]
    BY <1>1, IdlePlace DEF RegistryTypeOK, Place
  <2>2. wins' \in [Units -> [Slots -> 0 .. Len(members)]]
    <3>1. new \in 0 .. Len(members)
      BY <1>3, Shapes
    <3>2. wins \in [Units -> [Slots -> 0 .. Len(members)]]
      BY DEF RegistryTypeOK
    <3>3. [wins[u] EXCEPT ![slot] = new] \in [Slots -> 0 .. Len(members)]
      BY <3>1, <3>2, Zenon
    <3>. QED  BY <1>1, <3>2, <3>3
  <2>. QED  BY <1>1, <1>4, <2>1, <2>2, Zenon DEF RegistryTypeOK, Place
<1>8. SlotsConserved' /\ IdsIncrease'
  BY <1>1 DEF SlotsConserved, IdsIncrease
<1>9. CallsInv'
  BY <1>1, CallsKept
<1>10. ASSUME NEW v \in Units PROVE UnitInv(v)'
  <2>1. CASE v # u
    BY <1>1, <1>6, <2>1, UnitKept
  <2>2. CASE v = u
    <3>1. InCall(u)' /\ Creating(u)' /\ Destroying(u)'
      BY <1>6, SMTT(30) DEF InCall, Creating, Destroying, Idle
    <3>2. ASSUME NEW i \in DOMAIN allocated[u] PROVE Listed(u, i)'
      <4>1. Listed(u, i) /\ allocated[u][i].index \in Slots
        BY Entries DEF UnitInv, Lists
      <4>2. wins[u] \in [Slots -> Nat]
        BY Shapes
      <4>3. wins'[u][allocated[u][i].index] = teams[u][allocated[u][i].index]
        <5>1. CASE allocated[u][i].index = slot
          BY <1>2, <1>5, <1>6, <4>2, <5>1
        <5>2. CASE allocated[u][i].index # slot
          <6>1. wins'[u][allocated[u][i].index] = wins[u][allocated[u][i].index]
            BY <1>6, <4>1, <4>2, <5>2
          <6>. HIDE DEF RegistryInv
          <6>. QED  BY <4>1, <5>2, <6>1 DEF Listed, slot
        <5>. QED  BY <5>1, <5>2
      <4>. QED  BY <1>1, <1>4, <4>1, <4>3 DEF Listed, Creations
    <3>3. Lists(u)'
      BY <1>1, <3>2 DEF UnitInv, Lists
    <3>. QED  BY <2>2, <3>1, <3>3 DEF UnitInv
  <2>. QED  BY <2>1, <2>2
<1>. QED  BY <1>7, <1>8, <1>9, <1>10

\* One sequence after another.
LEMMA Joined ==
    ASSUME NEW S, NEW s \in Seq(S), NEW t \in Seq(S)
    PROVE  /\ s \o t \in Seq(S) /\ Len(s \o t) = Len(s) + Len(t)
           /\ \A i \in 1 .. Len(s) + Len(t) :
                  (s \o t)[i] = IF i <= Len(s) THEN s[i] ELSE t[i - Len(s)]
<1>1. s \o t \in Seq(S)
  OBVIOUS
<1>2. Len(s) \in Nat /\ Len(t) \in Nat /\ Len(s \o t) = Len(s) + Len(t)
  OBVIOUS
<1>3. \A i \in 1 .. Len(s) + Len(t) :
          (s \o t)[i] = IF i <= Len(s) THEN s[i] ELSE t[i - Len(s)]
  BY SMTT(30)
<1>. QED  BY <1>1, <1>2, <1>3

\* A sequence without its k-th element.
LEMMA Removed ==
    ASSUME NEW S, NEW s \in Seq(S), NEW k \in DOMAIN s
    PROVE  /\ RemoveAt(s, k) \in Seq(S) /\ k \in 1 .. Len(s)
           /\ Len(s) \in Nat /\ DOMAIN s = 1 .. Len(s)
           /\ DOMAIN RemoveAt(s, k) = 1 .. Len(s) - 1
           /\ \A i \in 1 .. Len(s) - 1 :
                  RemoveAt(s, k)[i] = IF i < k THEN s[i] ELSE s[i + 1]
<1>. DEFINE n == Len(s)
            a == SubSeq(s, 1, k - 1)
            b == SubSeq(s, k + 1, n)
<1>1. n \in Nat /\ DOMAIN s = 1 .. n /\ k \in 1 .. n
  OBVIOUS
<1>2. RemoveAt(s, k) = a \o b
  BY DEF RemoveAt
<1>3. /\ a \in Seq(S) /\ Len(a) = k - 1
      /\ \A i \in 1 .. k - 1 : a[i] = s[i]
  <2>1. 1 \in 1 .. n + 1 /\ k - 1 \in 0 .. n
    BY <1>1
  <2>2. /\ a \in Seq(S) /\ Len(a) = IF 1 <= k - 1 THEN (k - 1) - 1 + 1 ELSE 0
        /\ \A i \in 1 .. Len(a) : a[i] = s[1 + i - 1]
    BY <2>1, Part
  <2>. HIDE DEF a
  <2>3. Len(a) = k - 1
    BY <1>1, <2>2
  <2>4. \A i \in 1 .. k - 1 : 1 + i - 1 = i
    BY <1>1
  <2>. QED  BY <2>2, <2>3, <2>4, Zenon
<1>4. /\ b \in Seq(S) /\ Len(b) = n - k
      /\ \A i \in 1 .. n - k : b[i] = s[k + i]
  <2>1. k + 1 \in 1 .. n + 1 /\ n \in 0 .. n
    BY <1>1
  <2>2. /\ b \in Seq(S) /\ Len(b) = IF k + 1 <= n THEN n - (k + 1) + 1 ELSE 0
        /\ \A i \in 1 .. Len(b) : b[i] = s[(k + 1) + i - 1]
    BY <2>1, Part, Zenon
  <2>. HIDE DEF b, n
  <2>3. Len(b) = n - k
    BY <1>1, <2>2
  <2>4. \A i \in 1 .. n - k : (k + 1) + i - 1 = k + i
    BY <1>1
  <2>. QED  BY <2>2, <2>3, <2>4
<1>. HIDE DEF a, b, n
<1>5. /\ a \o b \in Seq(S) /\ DOMAIN (a \o b) = 1 .. n - 1
      /\ \A i \in 1 .. n - 1 : (a \o b)[i] = IF i < k THEN a[i] ELSE b[i - (k - 1)]
  <2>1. /\ a \o b \in Seq(S) /\ Len(a \o b) = Len(a) + Len(b)
        /\ \A i \in 1 .. Len(a) + Len(b) :
               (a \o b)[i] = IF i <= Len(a) THEN a[i] ELSE b[i - Len(a)]
    BY <1>3, <1>4, Joined, Zenon
  <2>2. Len(a) + Len(b) = n - 1 /\ \A i \in 1 .. n - 1 : i <= Len(a) <=> i < k
    BY <1>1, <1>3, <1>4
  <2>3. DOMAIN (a \o b) = 1 .. n - 1
    BY <2>1, <2>2
  <2>4. Len(a) = k - 1
    BY <1>3
  <2>. QED  BY <2>1, <2>2, <2>3, <2>4, Zenon
<1>6. ASSUME NEW i \in 1 .. n - 1
      PROVE  (a \o b)[i] = IF i < k THEN s[i] ELSE s[i + 1]
  <2>1. CASE i < k
    BY <1>1, <1>3, <1>5, <2>1
  <2>2. CASE ~ (i < k)
    <3>1. i - (k - 1) \in 1 .. n - k /\ k + (i - (k - 1)) = i + 1
      BY <1>1, <2>2
    <3>. QED  BY <1>4, <1>5, <2>2, <3>1, Zenon
  <2>. QED  BY <2>1, <2>2, Zenon
<1>. QED  BY <1>1, <1>2, <1>5, <1>6, Zenon DEF n

\* The slot of the team becomes free again, and the others close the gap.
LEMMA DestroyKeepsRegistry ==
    ASSUME RegistryInv, NEW u \in Units, FinishDestroy(u)
    PROVE  RegistryInv'
<1>. DEFINE slot == pc[u].slot
            k == pc[u].pos
            list == allocated[u]
            n == Len(list)
            left == RemoveAt(list, k)
            longer == <<slot>> \o free[u]
            m == Len(free[u])
            from(i) == IF i < k THEN i ELSE i + 1
<1>. USE DEF RegistryInv
<1>1. /\ pc[u].at = "destroy" /\ pc' = [pc EXCEPT ![u] = Idle]
      /\ free' = [free EXCEPT ![u] = longer]
      /\ allocated' = [allocated EXCEPT ![u] = left]
      /\ UNCHANGED mpiVars /\ UNCHANGED <<nextId, teams, wins>>
  BY DEF FinishDestroy, Leave
<1>2. k \in DOMAIN list \ {1} /\ list[k].index = slot
  BY <1>1 DEF UnitInv, Destroying
<1>3. list \in Seq(Entry) /\ \A i \in DOMAIN list : list[i].id \in Nat /\ list[i].index \in Slots
  BY Entries
<1>4. free[u] \in Seq(Slots) /\ slot \in Slots
  BY <1>2, <1>3, Shapes
<1>5. UNCHANGED <<members, calls, made>>
  BY <1>1 DEF mpiVars
<1>6. /\ allocated'[u] = left /\ free'[u] = longer /\ pc'[u] = Idle
      /\ \A v \in Units \ {u} : UNCHANGED <<pc[v], allocated[v], free[v]>>
  BY <1>1, Zenon DEF RegistryTypeOK
<1>7. Apart(free[u], list)
  BY SlotsApart DEF AllApart
<1>. HIDE DEF slot, list
<1>8. /\ left \in Seq(Entry) /\ n \in Nat /\ DOMAIN list = 1 .. n /\ k \in 2 .. n
      /\ DOMAIN left = 1 .. n - 1
      /\ \A i \in 1 .. n - 1 : from(i) \in 1 .. n /\ from(i) # k /\ left[i] = list[from(i)]
  <2>1. /\ left \in Seq(Entry) /\ k \in 1 .. n /\ n \in Nat /\ DOMAIN list = 1 .. n
        /\ DOMAIN left = 1 .. n - 1
        /\ \A i \in 1 .. n - 1 : left[i] = IF i < k THEN list[i] ELSE list[i + 1]
    BY <1>2, <1>3, Removed, Zenon
  <2>. HIDE DEF left, n, k
  <2>. QED  BY <1>2, <2>1
<1>9. /\ longer \in Seq(Slots) /\ m \in Nat /\ DOMAIN free[u] = 1 .. m
      /\ DOMAIN longer = 1 .. m + 1 /\ longer[1] = slot
      /\ \A i \in 2 .. m + 1 : i - 1 \in 1 .. m /\ longer[i] = free[u][i - 1]
  <2>1. /\ longer \in Seq(Slots) /\ Len(longer) = m + 1 /\ longer[1] = slot
        /\ \A i \in 2 .. m + 1 : i - 1 \in DOMAIN free[u] /\ longer[i] = free[u][i - 1]
    BY <1>4, Prepended
  <2>2. m \in Nat /\ DOMAIN free[u] = 1 .. m
    BY <1>4
  <2>. HIDE DEF longer, m
  <2>. QED  BY <2>1, <2>2
<1>10. /\ \A i, j \in 1 .. n - 1 : i < j => from(i) < from(j)
       /\ \A i, j \in 1 .. n - 1 : from(i) = from(j) => i = j
       /\ from(1) = 1 /\ 1 \in 1 .. n - 1
       /\ \A j \in 1 .. n : j # k => \E i \in 1 .. n - 1 : from(i) = j
  <2>. HIDE DEF n, k
  <2>1. \A i, j \in 1 .. n - 1 : i < j => from(i) < from(j)
    BY <1>8
  <2>2. \A i, j \in 1 .. n - 1 : from(i) = from(j) => i = j
    BY <1>8
  <2>3. ASSUME NEW j \in 1 .. n, j # k PROVE \E i \in 1 .. n - 1 : from(i) = j
    <3>. DEFINE i == IF j < k THEN j ELSE j - 1
    <3>1. i \in 1 .. n - 1 /\ from(i) = j
      BY <1>8, <2>3
    <3>. QED  BY <3>1
  <2>. QED  BY <1>8, <2>1, <2>2, <2>3
<1>. HIDE DEF left, longer, n, m, from
<1>t. RegistryTypeOK'
  <2>1. pc' \in [Units -> Place]
    BY <1>1, IdlePlace DEF RegistryTypeOK, Place
  <2>2. allocated' \in [Units -> Seq(Entry)] /\ free' \in [Units -> Seq(Slots)]
    <3>1. allocated \in [Units -> Seq(Entry)] /\ free \in [Units -> Seq(Slots)]
      BY Zenon DEF RegistryTypeOK, Entry
    <3>. QED  BY <1>1, <1>8, <1>9, <3>1, Zenon
  <2>. QED  BY <1>1, <1>5, <2>1, <2>2, Zenon DEF RegistryTypeOK, Place, Entry
<1>s. SlotsConserved'
  <2>1. Apart(longer, left)
    <3>. DEFINE f(i) == free[u][i]
    <3>0. /\ \A i, j \in 1 .. m : free[u][i] = free[u][j] => i = j
          /\ \A i, j \in 1 .. n : list[i].index = list[j].index => i = j
          /\ \A i \in 1 .. m, j \in 1 .. n : free[u][i] # list[j].index
          /\ \A s \in Slots : \/ \E i \in 1 .. m : free[u][i] = s
                              \/ \E j \in 1 .. n : list[j].index = s
      <4>1. /\ \A i, j \in DOMAIN free[u] : free[u][i] = free[u][j] => i = j
            /\ \A i, j \in DOMAIN list : list[i].index = list[j].index => i = j
            /\ \A i \in DOMAIN free[u], j \in DOMAIN list : free[u][i] # list[j].index
            /\ \A s \in Slots : \/ \E i \in DOMAIN free[u] : free[u][i] = s
                                \/ \E j \in DOMAIN list : list[j].index = s
        BY <1>7, Zenon DEF Apart
      <4>2. DOMAIN free[u] = 1 .. m /\ DOMAIN list = 1 .. n
        BY <1>8, <1>9
      <4>. QED  BY <4>1, <4>2
    <3>1. \A i \in 1 .. m + 1 : i = 1 \/ i \in 2 .. m + 1
      BY <1>9
    <3>2. \A i \in 2 .. m + 1 : longer[i] # slot
      <4>. SUFFICES ASSUME NEW i \in 2 .. m + 1 PROVE longer[i] # slot
        OBVIOUS
      <4>1. longer[i] = free[u][i - 1] /\ i - 1 \in 1 .. m
        BY <1>9
      <4>2. k \in 1 .. n /\ list[k].index = slot
        BY <1>2, <1>8
      <4>. HIDE DEF RegistryInv
      <4>. QED  BY <3>0, <4>1, <4>2
    <3>3. \A i, j \in 2 .. m + 1 : longer[i] = longer[j] => i = j
      <4>1. \A i, j \in 2 .. m + 1 : longer[i] = longer[j] => i - 1 = j - 1
        BY <1>9, <3>0
      <4>. QED  BY <1>9, <4>1
    <3>4. \A i, j \in 1 .. m + 1 : longer[i] = longer[j] => i = j
      BY <1>9, <3>1, <3>2, <3>3, Zenon
    <3>5. \A i \in 1 .. n - 1 : left[i].index # slot
      <4>. SUFFICES ASSUME NEW i \in 1 .. n - 1 PROVE left[i].index # slot
        OBVIOUS
      <4>1. left[i] = list[from(i)] /\ from(i) \in 1 .. n /\ from(i) # k
        BY <1>8, <1>10
      <4>2. k \in 1 .. n /\ list[k].index = slot
        BY <1>2, <1>8
      <4>. HIDE DEF from, left
      <4>. QED  BY <3>0, <4>1, <4>2
    <3>6. \A i, j \in 1 .. n - 1 : left[i].index = left[j].index => i = j
      <4>1. \A i, j \in 1 .. n - 1 : left[i].index = left[j].index => from(i) = from(j)
        BY <1>8, <3>0
      <4>. QED  BY <1>10, <4>1
    <3>7. \A i \in 1 .. m + 1, j \in 1 .. n - 1 : longer[i] # left[j].index
      <4>. SUFFICES ASSUME NEW i \in 1 .. m + 1, NEW j \in 1 .. n - 1
                    PROVE  longer[i] # left[j].index
        OBVIOUS
      <4>1. left[j].index = list[from(j)].index /\ from(j) \in 1 .. n
        BY <1>8
      <4>2. CASE i = 1
        BY <1>9, <3>5, <4>2
      <4>3. CASE i \in 2 .. m + 1
        BY <1>9, <3>0, <4>1, <4>3
      <4>. QED  BY <3>1, <4>2, <4>3
    <3>8. ASSUME NEW s \in Slots
          PROVE  \/ \E i \in 1 .. m + 1 : longer[i] = s
                 \/ \E j \in 1 .. n - 1 : left[j].index = s
      <4>1. CASE s = slot
        <5>1. 1 \in 1 .. m + 1
          BY <1>9
        <5>. QED  BY <1>9, <4>1, <5>1
      <4>2. CASE \E i \in 1 .. m : free[u][i] = s
        <5>1. PICK i \in 1 .. m : free[u][i] = s
          BY <4>2
        <5>2. i + 1 \in 2 .. m + 1 /\ (i + 1) - 1 = i /\ i + 1 \in 1 .. m + 1
          BY <1>9
        <5>. QED  BY <1>9, <5>1, <5>2, Zenon
      <4>3. CASE s # slot /\ \E j \in 1 .. n : list[j].index = s
        <5>1. PICK j \in 1 .. n : list[j].index = s
          BY <4>3
        <5>2. j # k
          BY <1>2, <4>3, <5>1
        <5>3. PICK i \in 1 .. n - 1 : from(i) = j
          BY <1>10, <5>2
        <5>. QED  BY <1>8, <5>1, <5>3
      <4>. QED  BY <3>0, <4>1, <4>2, <4>3
    <3>. QED  BY <1>8, <1>9, <3>4, <3>6, <3>7, <3>8, Zenon DEF Apart
  <2>2. \A v \in Units : Apart(free[v], allocated[v])
    BY SlotsApart DEF AllApart
  <2>3. \A v \in Units : Apart(free[v], allocated[v])'
    <3>. SUFFICES ASSUME NEW v \in Units PROVE Apart(free'[v], allocated'[v])
      BY DEF Apart
    <3>. QED  BY <1>6, <2>1, <2>2
  <2>4. (RegistryTypeOK => (SlotsConserved <=> AllApart))'
    BY SlotsApart, PTL
  <2>. QED  BY <1>t, <2>3, <2>4 DEF AllApart
<1>i. IdsIncrease'
  <2>1. /\ \A i, j \in 1 .. n : i < j => list[i].id < list[j].id
        /\ \A i \in 1 .. n : list[i].id < nextId[u]
    BY <1>8, Zenon DEF IdsIncrease, list
  <2>2. /\ \A i, j \in 1 .. n - 1 : i < j => left[i].id < left[j].id
        /\ \A i \in 1 .. n - 1 : left[i].id < nextId[u]
    BY <1>8, <1>10, <2>1
  <2>. SUFFICES ASSUME NEW v \in Units
                PROVE  (/\ \A i, j \in DOMAIN allocated[v] : i < j => allocated[v][i].id < allocated[v][j].id
                        /\ \A i \in DOMAIN allocated[v] : allocated[v][i].id < nextId[v])'
    BY DEF IdsIncrease
  <2>3. CASE v # u
    BY <1>1, <1>6, <2>3 DEF IdsIncrease
  <2>4. CASE v = u
    BY <1>1, <1>6, <1>8, <2>2, <2>4, Zenon
  <2>. QED  BY <2>3, <2>4
<1>c. CallsInv'
  BY <1>1, CallsKept
<1>u. ASSUME NEW v \in Units PROVE UnitInv(v)'
  <2>1. CASE v # u
    BY <1>1, <1>6, <2>1, UnitKept
  <2>2. CASE v = u
    <3>1. InCall(u)' /\ Creating(u)' /\ Destroying(u)'
      BY <1>6 DEF InCall, Creating, Destroying, Idle
    <3>2. /\ list[1] = [index |-> 0, id |-> TeamAll] /\ teams[u][0] = World
          /\ \A i \in 1 .. n : Listed(u, i)
          /\ \A i, j \in 1 .. n : teams[u][list[i].index] = teams[u][list[j].index] => i = j
      BY <1>8, SMTT(30) DEF UnitInv, Lists, list
    <3>3. 1 \in 1 .. n - 1 /\ from(1) = 1
      BY <1>10
    <3>4. left # <<>> /\ left[1] = [index |-> 0, id |-> TeamAll]
      BY <1>8, <3>2, <3>3
    <3>5. ASSUME NEW i \in 1 .. n - 1 PROVE Listed(u, i)'
      <4>1. Listed(u, from(i)) /\ allocated'[u][i] = allocated[u][from(i)]
        BY <1>6, <1>8, <3>2 DEF list
      <4>2. i # 1 => from(i) # 1
        BY <1>10
      <4>3. wins[u][allocated[u][from(i)].index] = teams[u][allocated[u][from(i)].index]
        BY <1>1, <4>1 DEF Listed
      <4>. HIDE DEF RegistryInv
      <4>. DEFINE j == from(i)
      <4>4. Listed(u, j) /\ allocated'[u][i] = allocated[u][j] /\ (i # 1 => j # 1)
            /\ wins[u][allocated[u][j].index] = teams[u][allocated[u][j].index]
        BY <4>1, <4>2, <4>3
      <4>. HIDE DEF j
      <4>. QED  BY <1>1, <1>5, <4>4 DEF Listed, Creations
    <3>6. \A i, j \in 1 .. n - 1 : teams[u][left[i].index] = teams[u][left[j].index] => i = j
      <4>1. \A i, j \in 1 .. n - 1 :
                teams[u][left[i].index] = teams[u][left[j].index] => from(i) = from(j)
        BY <1>8, <3>2
      <4>. QED  BY <1>10, <4>1
    <3>7. Lists(u)'
      <4>. HIDE DEF RegistryInv
      <4>1. \A i, j \in DOMAIN allocated'[u] :
                teams'[u][allocated'[u][i].index] = teams'[u][allocated'[u][j].index] => i = j
        BY <1>1, <1>6, <1>8, <3>6
      <4>2. \A i \in DOMAIN allocated'[u] : Listed(u, i)'
        BY <1>6, <1>8, <3>5
      <4>. QED  BY <1>1, <1>6, <3>2, <3>4, <4>1, <4>2 DEF Lists
    <3>. QED  BY <2>2, <3>1, <3>7 DEF UnitInv
  <2>. QED  BY <2>1, <2>2
<1>. QED  BY <1>t, <1>s, <1>i, <1>c, <1>u

\* A bounded set of natural numbers has a greatest one.
LEMMA GreatestNumber ==
    ASSUME NEW S \in SUBSET Nat, S # {}, NEW b \in Nat, \A x \in S : x <= b
    PROVE  Max(S) \in S /\ \A x \in S : x <= Max(S)
<1>. DEFINE T == {b - x : x \in S}
<1>1. \A x \in S : x \in Nat /\ b - x \in Nat
  OBVIOUS
<1>2. T \in SUBSET Nat /\ T # {}
  BY <1>1, Zenon
<1>3. PICK y \in T : \A z \in T : y <= z
  BY <1>2, LeastNumber, Zenon
<1>4. PICK x \in S : y = b - x
  OBVIOUS
<1>5. \A z \in S : z <= x
  <2>. SUFFICES ASSUME NEW z \in S PROVE z <= x
    OBVIOUS
  <2>1. b - z \in T
    OBVIOUS
  <2>2. b - x <= b - z
    BY <1>3, <1>4, <2>1, Zenon
  <2>. HIDE DEF T
  <2>. QED  BY <1>1, <2>2
<1>. QED  BY <1>4, <1>5, Zenon DEF Max

\* The natural numbers a function takes on a finite set are bounded.
LEMMA FiniteBound ==
    ASSUME NEW S, IsFiniteSet(S), NEW f, \A x \in S : f[x] \in Nat
    PROVE  \E b \in Nat : \A x \in S : f[x] <= b
<1>. DEFINE D == SUBSET S
            m == [s \in D |-> Cardinality(s)]
            P == {s \in D : \E b \in Nat : \A x \in s : f[x] <= b}
<1>1. m \in [D -> Nat]
  BY SubsetMeasure
<1>2. ASSUME NEW s \in D, \A t \in D : m[t] < m[s] => t \in P
      PROVE  s \in P
  <2>1. CASE s = {}
    BY <2>1
  <2>2. CASE s # {}
    <3>1. PICK x \in s : TRUE
      BY <2>2
    <3>2. s \ {x} \in D /\ m[s \ {x}] < m[s]
      BY <3>1, SubsetMeasure
    <3>3. PICK b \in Nat : \A y \in s \ {x} : f[y] <= b
      BY <1>2, <3>2, Zenon
    <3>4. \E e \in Nat : b <= e /\ f[x] <= e
      <4>1. f[x] \in Nat
        OBVIOUS
      <4>2. \A p, q \in Nat : \E e \in Nat : p <= e /\ q <= e
        <5>. SUFFICES ASSUME NEW p \in Nat, NEW q \in Nat PROVE \E e \in Nat : p <= e /\ q <= e
          OBVIOUS
        <5>1. p + q \in Nat /\ p <= p + q /\ q <= p + q
          OBVIOUS
        <5>. QED  BY <5>1
      <4>. QED  BY <4>1, <4>2
    <3>5. PICK e \in Nat : b <= e /\ f[x] <= e
      BY <3>4
    <3>6. \A y \in s : f[y] <= e
      <4>. SUFFICES ASSUME NEW y \in s, y # x PROVE f[y] <= e
        BY <3>5
      <4>1. f[y] <= b /\ f[y] \in Nat
        BY <3>3
      <4>. QED  BY <3>5, <4>1
    <3>. QED  BY <3>6
  <2>. QED  BY <2>1, <2>2
<1>3. \A s \in D : s \in P
  <2>. HIDE DEF D, m, P
  <2>. QED  BY <1>1, <1>2, MeasureInduction
<1>4. S \in D
  OBVIOUS
<1>. QED  BY <1>3, <1>4

\* The id of a new team is no unit's counter too late.
LEMMA NewIdIsNew ==
    ASSUME RegistryInv, NEW c \in DOMAIN members
    PROVE  NewId(c) \in Nat /\ \A v \in Members(members[c]) : nextId[v] <= NewId(c)
<1>. DEFINE G == Members(members[c])
<1>1. members[c] \in Groups \ {<<>>}
  BY DEF RegistryInv, CallsInv
<1>2. members[c] \in Seq(Units) /\ members[c] # <<>>
  BY <1>1 DEF Groups
<1>3. G \in SUBSET Units /\ G # {}
  <2>1. DOMAIN members[c] = 1 .. Len(members[c]) /\ Len(members[c]) \in Nat
    BY <1>2
  <2>2. 1 \in DOMAIN members[c]
    BY <1>2, <2>1
  <2>3. \A i \in DOMAIN members[c] : members[c][i] \in Units
    BY <1>2
  <2>. QED  BY <2>2, <2>3 DEF Members, ToSet
<1>4. \A v \in Units : nextId[v] \in Nat
  BY DEF RegistryInv, RegistryTypeOK
<1>5. PICK b \in Nat : \A v \in Units : nextId[v] <= b
  BY <1>4, UnitsAssumption, FiniteBound
<1>. HIDE DEF G
<1>6. /\ Counters(c) \in SUBSET Nat /\ Counters(c) # {}
      /\ \A x \in Counters(c) : x <= b
      /\ \A v \in G : nextId[v] \in Counters(c)
  BY <1>3, <1>4, <1>5 DEF Counters, G
<1>7. Max(Counters(c)) \in Counters(c) /\ \A x \in Counters(c) : x <= Max(Counters(c))
  BY <1>6, GreatestNumber, Zenon
<1>. QED  BY <1>6, <1>7 DEF NewId, G

\* A sequence with one more element.
LEMMA Appended ==
    ASSUME NEW S, NEW s \in Seq(S), NEW e \in S
    PROVE  /\ Append(s, e) \in Seq(S) /\ Len(Append(s, e)) = Len(s) + 1
           /\ DOMAIN Append(s, e) = 1 .. Len(s) + 1
           /\ \A i \in 1 .. Len(s) : Append(s, e)[i] = s[i]
           /\ Append(s, e)[Len(s) + 1] = e
OBVIOUS

\* What the completion of the n-th call on c adds: an empty list of calls
\* for the new communicator, and the result to the call.
Completed(c, n) ==
    LET K == Len(members)
        arg == calls[c][n].request.arg
        call == [calls[c][n] EXCEPT !.result = [id |-> NewId(c), comm |-> K + 1]]
    IN  /\ calls[c][n].request.op = "create" /\ calls[c][n].result = NotYet
        /\ MadeBy(Members(members[c]), c, n)
        /\ UNCHANGED <<pc, nextId, allocated, free, teams, wins>>
        /\ calls' \in Seq(Seq(Call)) /\ Len(calls') = K + 1 /\ DOMAIN calls' = 1 .. K + 1
        /\ calls'[K + 1] = <<>>
        /\ members' \in Seq(Seq(Units)) /\ Len(members') = K + 1 /\ DOMAIN members' = 1 .. K + 1
        /\ \A d \in 1 .. K : members'[d] = members[d]
        /\ members'[K + 1] = arg
        /\ made' \in Seq([Units -> Nat]) /\ Len(made') = K + 1 /\ DOMAIN made' = 1 .. K + 1
        /\ \A d \in 1 .. K : made'[d] = made[d]
        /\ made'[K + 1] = [u \in Units |-> 0]
        /\ \A d \in 1 .. K :
               /\ DOMAIN calls'[d] = DOMAIN calls[d] /\ Len(calls'[d]) = Len(calls[d])
               /\ \A i \in DOMAIN calls[d] :
                      calls'[d][i] = IF d = c /\ i = n THEN call ELSE calls[d][i]

\* The completion of a creation does that.
LEMMA CompleteAppends ==
    ASSUME RegistryInv, NEW c \in DOMAIN members, CompleteCreate(c)
    PROVE  \E n \in DOMAIN calls[c] : Completed(c, n)
<1>. DEFINE K == Len(members)
            new == [id |-> NewId(c), comm |-> K + 1]
<1>. USE DEF RegistryInv
<1>1. PICK n \in DOMAIN calls[c] :
          /\ calls[c][n].request.op = "create"
          /\ calls[c][n].result = NotYet
          /\ MadeBy(Members(members[c]), c, n)
          /\ calls' = Append([calls EXCEPT ![c][n].result = new], <<>>)
          /\ members' = Append(members, calls[c][n].request.arg)
          /\ made' = Append(made, [u \in Units |-> 0])
          /\ UNCHANGED <<pc, listVars>>
  BY Zenon DEF CompleteCreate
<1>. DEFINE arg == calls[c][n].request.arg
            call == [calls[c][n] EXCEPT !.result = new]
            row == [calls[c] EXCEPT ![n] = call]
<1>2. UNCHANGED <<pc, nextId, allocated, free, teams, wins>>
  BY <1>1 DEF listVars
<1>3. /\ K \in Nat /\ DOMAIN members = 1 .. K /\ members \in Seq(Seq(Units))
      /\ DOMAIN calls = 1 .. K /\ calls \in Seq(Seq(Call)) /\ Len(calls) = K
      /\ DOMAIN made = 1 .. K /\ made \in Seq([Units -> Nat]) /\ Len(made) = K
  BY Shapes DEF RegistryTypeOK, Call
<1>4. NewId(c) \in Nat /\ \A v \in Members(members[c]) : nextId[v] <= NewId(c)
  BY NewIdIsNew
<1>5. arg \in Groups \ {<<>>} /\ arg \in Seq(Units)
  <2>1. arg \in Groups \ {<<>>}
    BY <1>1 DEF CallsInv, CallInv
  <2>. QED  BY <2>1 DEF Groups
<1>6. new \in Results /\ new # NotYet /\ new.id = NewId(c) /\ new.comm = K + 1
  BY <1>3, <1>4 DEF Results, NotYet, NoComm
<1>7. calls[c] \in Seq(Call) /\ calls[c][n] \in Call
  <2>1. calls[c] \in Seq(Call)
    BY <1>3
  <2>. QED  BY <2>1, Elements
<1>. HIDE DEF new, K
<1>8. call \in Call /\ call.request = calls[c][n].request /\ call.result = new
  BY <1>6, <1>7 DEF Call
<1>. HIDE DEF call, arg
<1>9. /\ row \in Seq(Call) /\ DOMAIN row = DOMAIN calls[c] /\ Len(row) = Len(calls[c])
      /\ \A i \in DOMAIN calls[c] : row[i] = IF i = n THEN call ELSE calls[c][i]
  BY <1>7, <1>8
<1>. HIDE DEF row
<1>10. /\ calls' \in Seq(Seq(Call)) /\ Len(calls') = K + 1 /\ DOMAIN calls' = 1 .. K + 1
       /\ \A d \in 1 .. K : calls'[d] = IF d = c THEN row ELSE calls[d]
       /\ calls'[K + 1] = <<>>
  <2>1. calls' = Append([calls EXCEPT ![c] = row], <<>>)
    BY <1>1 DEF row, call
  <2>. DEFINE t == [calls EXCEPT ![c] = row]
  <2>2. /\ t \in Seq(Seq(Call)) /\ Len(t) = K /\ DOMAIN t = 1 .. K
        /\ \A d \in 1 .. K : t[d] = IF d = c THEN row ELSE calls[d]
    BY <1>3, <1>9
  <2>. HIDE DEF t
  <2>3. <<>> \in Seq(Call)
    OBVIOUS
  <2>4. calls' = Append(t, <<>>)
    BY <2>1 DEF t
  <2>5. /\ calls' \in Seq(Seq(Call)) /\ Len(calls') = K + 1 /\ DOMAIN calls' = 1 .. K + 1
        /\ \A d \in 1 .. K : calls'[d] = t[d]
        /\ calls'[K + 1] = <<>>
    <3>. DEFINE S == Seq(Call)
    <3>. HIDE DEF S
    <3>. QED  BY <2>2, <2>3, <2>4, Appended DEF S
  <2>. QED  BY <2>2, <2>5, Zenon
<1>11. /\ members' \in Seq(Seq(Units)) /\ Len(members') = K + 1 /\ DOMAIN members' = 1 .. K + 1
       /\ \A d \in 1 .. K : members'[d] = members[d]
       /\ members'[K + 1] = arg
  BY <1>1, <1>3, <1>5 DEF K, arg
<1>12. /\ made' \in Seq([Units -> Nat]) /\ Len(made') = K + 1 /\ DOMAIN made' = 1 .. K + 1
       /\ \A d \in 1 .. K : made'[d] = made[d]
       /\ made'[K + 1] = [u \in Units |-> 0]
  <2>. DEFINE none == [u \in Units |-> 0]
              S == [Units -> Nat]
  <2>1. none \in S /\ made \in Seq(S) /\ Len(made) = K /\ made' = Append(made, none)
    BY <1>1, <1>3
  <2>. HIDE DEF none, S
  <2>2. /\ made' \in Seq(S) /\ Len(made') = K + 1 /\ DOMAIN made' = 1 .. K + 1
        /\ \A d \in 1 .. K : made'[d] = made[d]
        /\ made'[K + 1] = none
    BY <2>1, Appended
  <2>. QED  BY <2>2 DEF none, S
\* In the calls there were, one has its result.
<1>13. \A d \in 1 .. K :
           /\ DOMAIN calls'[d] = DOMAIN calls[d] /\ Len(calls'[d]) = Len(calls[d])
           /\ \A i \in DOMAIN calls[d] :
                  calls'[d][i] = IF d = c /\ i = n THEN call ELSE calls[d][i]
  BY <1>9, <1>10, Zenon
<1>. QED  BY <1>1, <1>2, <1>10, <1>11, <1>12, <1>13, Zenon DEF Completed, K, new, call, arg

\* There is a new communicator and the call has its result.
LEMMA CompleteKeepsRegistry ==
    ASSUME RegistryInv, NEW c \in DOMAIN members, CompleteCreate(c)
    PROVE  RegistryInv'
<1>. DEFINE K == Len(members)
            new == [id |-> NewId(c), comm |-> K + 1]
<1>. USE DEF RegistryInv
<1>0. PICK n \in DOMAIN calls[c] : Completed(c, n)
  BY CompleteAppends, Zenon
<1>. DEFINE arg == calls[c][n].request.arg
            call == [calls[c][n] EXCEPT !.result = new]
<1>1. /\ calls[c][n].request.op = "create" /\ calls[c][n].result = NotYet
      /\ MadeBy(Members(members[c]), c, n)
  BY <1>0, Zenon DEF Completed
<1>2. UNCHANGED <<pc, nextId, allocated, free, teams, wins>>
  BY <1>0, Zenon DEF Completed
<1>3. /\ K \in Nat /\ DOMAIN members = 1 .. K /\ members \in Seq(Seq(Units))
      /\ DOMAIN calls = 1 .. K /\ calls \in Seq(Seq(Call)) /\ Len(calls) = K
      /\ DOMAIN made = 1 .. K /\ made \in Seq([Units -> Nat]) /\ Len(made) = K
  BY Shapes DEF RegistryTypeOK, Call
<1>4. NewId(c) \in Nat /\ \A v \in Members(members[c]) : nextId[v] <= NewId(c)
  BY NewIdIsNew
<1>5. arg \in Groups \ {<<>>} /\ arg \in Seq(Units)
  <2>1. arg \in Groups \ {<<>>}
    BY <1>1 DEF CallsInv, CallInv
  <2>. QED  BY <2>1 DEF Groups
<1>6. new \in Results /\ new # NotYet /\ new.id = NewId(c) /\ new.comm = K + 1
  BY <1>3, <1>4 DEF Results, NotYet, NoComm
<1>7. calls[c] \in Seq(Call) /\ calls[c][n] \in Call
  <2>1. calls[c] \in Seq(Call)
    BY <1>3
  <2>. QED  BY <2>1, Elements
<1>10. /\ calls' \in Seq(Seq(Call)) /\ Len(calls') = K + 1 /\ DOMAIN calls' = 1 .. K + 1
       /\ calls'[K + 1] = <<>>
  BY <1>0, Zenon DEF Completed
<1>11. /\ members' \in Seq(Seq(Units)) /\ Len(members') = K + 1 /\ DOMAIN members' = 1 .. K + 1
       /\ \A d \in 1 .. K : members'[d] = members[d]
       /\ members'[K + 1] = arg
  BY <1>0, Zenon DEF Completed
<1>12. /\ made' \in Seq([Units -> Nat]) /\ Len(made') = K + 1 /\ DOMAIN made' = 1 .. K + 1
       /\ \A d \in 1 .. K : made'[d] = made[d]
       /\ made'[K + 1] = [u \in Units |-> 0]
  BY <1>0, Zenon DEF Completed
<1>13. \A d \in 1 .. K :
           /\ DOMAIN calls'[d] = DOMAIN calls[d] /\ Len(calls'[d]) = Len(calls[d])
           /\ \A i \in DOMAIN calls[d] :
                  calls'[d][i] = IF d = c /\ i = n THEN call ELSE calls[d][i]
  BY <1>0, Zenon DEF Completed
<1>. HIDE DEF new, K
<1>8. call \in Call /\ call.request = calls[c][n].request /\ call.result = new
  BY <1>6, <1>7 DEF Call
<1>. HIDE DEF call, arg
<1>14. c \in 1 .. K /\ \A d \in 1 .. K + 1 : d \in 1 .. K \/ d = K + 1
  BY <1>3
<1>15. \A d \in DOMAIN members : /\ d \in 1 .. K /\ d \in DOMAIN members' /\ d \in DOMAIN calls'
                                /\ members'[d] = members[d]
  <2>1. (1 .. K) \subseteq 1 .. K + 1
    BY <1>3
  <2>. QED  BY <1>3, <1>10, <1>11, <2>1
<1>t. RegistryTypeOK'
  <2>1. \A d \in DOMAIN members' : \A u \in Units : made'[d][u] <= Len(calls'[d])
    <3>1. \A d \in 1 .. K : \A u \in Units : made'[d][u] <= Len(calls'[d])
      BY <1>3, <1>12, <1>13, Zenon DEF RegistryTypeOK
    <3>2. \A u \in Units : made'[K + 1][u] <= Len(calls'[K + 1])
      BY <1>10, <1>12
    <3>. QED  BY <1>11, <1>14, <3>1, <3>2, Zenon
  <2>2. teams' \in [Units -> [Slots -> 0 .. Len(members')]] /\ wins' \in [Units -> [Slots -> 0 .. Len(members')]]
    <3>1. teams \in [Units -> [Slots -> 0 .. K]] /\ wins \in [Units -> [Slots -> 0 .. K]]
      BY Zenon DEF RegistryTypeOK, K
    <3>2. (0 .. K) \subseteq 0 .. K + 1
      BY <1>3
    <3>. HIDE DEF Slots
    <3>. QED  BY <1>2, <1>11, <3>1, <3>2
  <2>. QED  BY <1>2, <1>10, <1>11, <1>12, <2>1, <2>2, Zenon DEF RegistryTypeOK, Call
<1>s. SlotsConserved' /\ IdsIncrease'
  BY <1>2 DEF SlotsConserved, IdsIncrease
<1>c. CallsInv'
  <2>1. World \in DOMAIN members' /\ members'[World] = [r \in 1 .. Cardinality(Units) |-> r - 1]
    BY <1>15, Zenon DEF CallsInv
  <2>2. \A d \in DOMAIN members' : members'[d] \in Groups \ {<<>>}
    BY <1>3, <1>5, <1>11, <1>14, Zenon DEF CallsInv
  <2>3. ASSUME NEW d \in DOMAIN members', NEW i \in DOMAIN calls'[d] PROVE CallInv(d, i)'
    <3>1. d \in 1 .. K /\ i \in DOMAIN calls[d]
      <4>1. CASE d = K + 1
        BY <1>10, <4>1
      <4>. QED  BY <1>11, <1>13, <1>14, <4>1
    <3>2. MadeBy(Members(members[d]), d, i) => MadeBy(Members(members[d]), d, i)'
      BY <1>11, <1>12, <3>1, Zenon DEF MadeBy
    <3>3. CASE d = c /\ i = n
      <4>1. calls'[d][i] = call /\ call.request.op = "create" /\ call.request.arg = arg
        BY <1>1, <1>8, <1>13, <3>1, <3>3, Zenon DEF arg
      <4>2. MadeBy(Members(members[d]), d, i)'
        BY <1>1, <3>2, <3>3
      <4>3. K + 1 \in DOMAIN members' /\ members'[K + 1] = arg
        BY <1>3, <1>11
      <4>. HIDE DEF RegistryInv
      <4>. QED  BY <1>4, <1>5, <1>6, <1>8, <4>1, <4>2, <4>3 DEF CallInv
    <3>4. CASE ~ (d = c /\ i = n)
      <4>1. calls'[d][i] = calls[d][i]
        BY <1>13, <3>1, <3>4
      <4>2. CallInv(d, i)
        BY <1>3, <3>1 DEF CallsInv
      <4>3. calls[d][i].result # NotYet =>
                /\ calls[d][i].result.comm \in 1 .. K
                /\ calls[d][i].result.comm \in DOMAIN members'
        BY <1>15, <4>2 DEF CallInv
      <4>. HIDE DEF RegistryInv
      <4>. QED  BY <1>11, <3>2, <4>1, <4>2, <4>3 DEF CallInv
    <3>. QED  BY <3>3, <3>4
  <2>. QED  BY <2>1, <2>2, <2>3 DEF CallsInv
<1>u. ASSUME NEW u \in Units PROVE UnitInv(u)'
  <2>1. InCall(u)'
    <3>1. InCall(u)
      BY DEF UnitInv
    <3>2. pc[u].at # "idle" =>
              pc[u].comm \in 1 .. K /\ pc[u].comm \in DOMAIN members'
      <4>1. DOMAIN members = 1 .. K
        BY <1>3
      <4>. HIDE DEF RegistryInv, K
      <4>. QED  BY <1>15, <3>1, <4>1 DEF InCall
    <3>. HIDE DEF RegistryInv
    <3>. QED  BY <1>2, <1>11, <1>12, <1>13, <3>1, <3>2, Zenon DEF InCall
  <2>2. Teams(u)' = Teams(u)
    BY <1>2 DEF Teams
  <2>3. Destroying(u)'
    BY <1>2 DEF UnitInv, Destroying
  <2>4. Creating(u)'
    <3>0. Creating(u) /\ InCall(u)
      BY DEF UnitInv
    <3>1. CASE pc[u].at \notin {"create", "window"}
      BY <1>2, <3>1 DEF Creating
    <3>2. CASE pc[u].at \in {"create", "window"}
      <4>1. pc[u].comm \in 1 .. K /\ pc[u].n \in DOMAIN calls[pc[u].comm]
        <5>1. pc[u].at # "idle"
          BY <3>2
        <5>2. DOMAIN members = 1 .. K
          BY <1>3
        <5>. HIDE DEF RegistryInv, K
        <5>. QED  BY <3>0, <5>1, <5>2 DEF InCall
      <4>2. CASE pc[u].comm = c /\ pc[u].n = n
        <5>1. CurrentCall(u)' = call /\ CurrentCall(u) = calls[c][n]
          BY <1>2, <1>13, <4>1, <4>2 DEF CurrentCall
        <5>2. u \in Members(members[c])
          BY <3>0, <3>2, <4>2 DEF InCall
        <5>3. pc[u].at = "create"
          BY <1>1, <3>0, <3>2, <5>1 DEF Creating
        <5>4. K + 1 \notin Teams(u)
          <6>1. teams[u] \in [Slots -> 0 .. K]
            BY DEF RegistryTypeOK, K
          <6>2. \A i \in DOMAIN allocated[u] : teams[u][allocated[u][i].index] \in 0 .. K
            BY <6>1, Entries
          <6>3. K + 1 \notin 0 .. K
            BY <1>3
          <6>. QED  BY <6>2, <6>3 DEF Teams
        <5>5. made'[K + 1][u] = 0
          BY <1>12
        <5>6. new.id >= nextId[u]
          BY <1>4, <1>6, <5>2, Shapes
        <5>7. /\ CurrentCall(u)'.request.op = "create"
              /\ CurrentCall(u)'.result.id = new.id /\ CurrentCall(u)'.result.comm = K + 1
          BY <1>1, <1>6, <1>8, <5>1
        <5>. HIDE DEF RegistryInv
        <5>8. (pc'[u] = pc[u]) /\ nextId'[u] = nextId[u]
          BY <1>2
        <5>. HIDE DEF K
        <5>. QED  BY <2>2, <5>3, <5>4, <5>5, <5>6, <5>7, <5>8 DEF Creating
      <4>3. CASE ~ (pc[u].comm = c /\ pc[u].n = n)
        <5>1. CurrentCall(u)' = CurrentCall(u) /\ CurrentCall(u) = calls[pc[u].comm][pc[u].n]
          <6>0. \A d \in 1 .. K : \A i \in DOMAIN calls[d] :
                    ~ (d = c /\ i = n) => calls'[d][i] = calls[d][i]
            BY <1>13
          <6>1. calls'[pc[u].comm][pc[u].n] = calls[pc[u].comm][pc[u].n]
            BY <4>1, <4>3, <6>0, SMTT(30)
          <6>. HIDE DEF RegistryInv
          <6>. QED  BY <1>2, <6>1 DEF CurrentCall
        <5>2. CurrentCall(u).result # NotYet => CurrentCall(u).result.comm \in 1 .. K
          <6>1. CallInv(pc[u].comm, pc[u].n)
            BY <1>3, <4>1, Zenon DEF CallsInv
          <6>. QED  BY <1>15, <5>1, <6>1 DEF CallInv
        <5>3. CurrentCall(u).result # NotYet =>
                  made'[CurrentCall(u).result.comm] = made[CurrentCall(u).result.comm]
          BY <1>12, <5>2
        <5>4. (pc'[u] = pc[u]) /\ (nextId'[u] = nextId[u]) /\ (teams'[u] = teams[u])
          BY <1>2, SMTT(30)
        <5>. HIDE DEF RegistryInv
        <5>. HIDE DEF NotYet
        <5>. QED  BY <2>2, <3>0, <5>1, <5>3, <5>4, Zenon DEF Creating
      <4>. QED  BY <4>2, <4>3
    <3>. QED  BY <3>1, <3>2
  <2>5. ASSUME NEW i \in DOMAIN allocated[u] PROVE Listed(u, i)'
    <3>. DEFINE slot == allocated[u][i].index
                d == teams[u][slot]
    <3>1. Listed(u, i)
      BY DEF UnitInv, Lists
    <3>2. d \in 1 .. K /\ d \in DOMAIN members' /\ u \in Members(members'[d])
      BY <1>15, <3>1 DEF Listed
    <3>3. ASSUME i # 1
          PROVE  \E e \in DOMAIN calls' : \E k \in Creations(e)' :
                     calls'[e][k].result = [id |-> allocated[u][i].id, comm |-> d]
      <4>1. PICK e \in DOMAIN calls : \E k \in Creations(e) :
                calls[e][k].result = [id |-> allocated[u][i].id, comm |-> d]
        BY <3>1, <3>3 DEF Listed
      <4>2. PICK k \in Creations(e) : calls[e][k].result = [id |-> allocated[u][i].id, comm |-> d]
        BY <4>1
      <4>3. e \in 1 .. K /\ k \in DOMAIN calls[e] /\ calls[e][k].result # NotYet
        BY <1>3, <4>2, Zenon DEF Creations
      <4>4. calls'[e][k] = calls[e][k] /\ e \in DOMAIN calls' /\ k \in DOMAIN calls'[e]
        BY <1>1, <1>3, <1>10, <1>13, <4>3, SMTT(30)
      <4>5. k \in Creations(e)'
        BY <4>3, <4>4 DEF Creations
      <4>. QED  BY <4>2, <4>4, <4>5
    <3>4. UNCHANGED <<allocated, teams, wins, pc>>
      BY <1>2
    <3>. HIDE DEF RegistryInv, K
    <3>. QED  BY <3>1, <3>2, <3>3, <3>4 DEF Listed
  <2>6. Lists(u)'
    BY <1>2, <2>5 DEF UnitInv, Lists
  <2>. QED  BY <2>1, <2>3, <2>4, <2>6 DEF UnitInv
<1>. QED  BY <1>t, <1>s, <1>c, <1>u

\* Before the first call there is DART_TEAM_ALL in slot 0 of every unit.
LEMMA RegistryStarts == RegistryInit => RegistryInv
<1>. SUFFICES ASSUME RegistryInit PROVE RegistryInv
  OBVIOUS
<1>. DEFINE all == [r \in 1 .. Cardinality(Units) |-> r - 1]
            first == [index |-> 0, id |-> TeamAll]
            none == [u \in Units |-> 0]
<1>. USE DEF RegistryInit
<1>1. /\ Cardinality(Units) \in Nat \ {0} /\ Units = 0 .. Cardinality(Units) - 1
      /\ Units # {} /\ Units \subseteq Nat
  <2>1. Cardinality(Units) \in Nat /\ Units # {} /\ Units = 0 .. Cardinality(Units) - 1 /\ Units \subseteq Nat
    BY UnitsNumbers, UnitsAssumption
  <2>. QED  BY <2>1
<1>2. all \in Groups \ {<<>>} /\ Members(all) = Units /\ all \in Seq(Units)
  <2>. DEFINE N == Cardinality(Units)
  <2>1. N \in Nat \ {0} /\ Units = 0 .. N - 1
    BY <1>1
  <2>. HIDE DEF N
  <2>2. [r \in 1 .. N |-> r - 1] \in Seq(Units)
    <3>1. \A r \in 1 .. N : r - 1 \in Units
      BY <2>1
    <3>. QED  BY <2>1, <3>1
  <2>3. Ascending([r \in 1 .. N |-> r - 1])
    BY <2>1 DEF Ascending
  <2>4. [r \in 1 .. N |-> r - 1] # <<>>
    <3>1. 1 \in 1 .. N
      BY <2>1
    <3>2. DOMAIN [r \in 1 .. N |-> r - 1] # {}
      BY <3>1, Zenon
    <3>3. DOMAIN <<>> = {}
      OBVIOUS
    <3>. QED  BY <3>2, <3>3
  <2>5. Members([r \in 1 .. N |-> r - 1]) = Units
    <3>1. \A u \in Units : u + 1 \in 1 .. N /\ (u + 1) - 1 = u
      BY <2>1
    <3>2. \A u \in Units : \E r \in 1 .. N : r - 1 = u
      BY <3>1
    <3>3. \A r \in 1 .. N : r - 1 \in Units
      BY <2>1
    <3>. QED  BY <3>2, <3>3, Zenon DEF Members, ToSet
  <2>. QED  BY <2>2, <2>3, <2>4, <2>5 DEF N, Groups
<1>. HIDE DEF all
<1>3. members = <<all>> /\ calls = << <<>> >> /\ made = <<none>>
  BY DEF all
<1>4. DOMAIN members = {1} /\ DOMAIN calls = {1} /\ members[1] = all /\ calls[1] = <<>> /\ made[1] = none
  BY <1>3
<1>5. 0 \in Slots /\ 1 \in 0 .. 1 /\ first \in Entry /\ Idle \in Place
  BY IdlePlace DEF Entry, TeamAll
<1>6. /\ pc = [u \in Units |-> Idle] /\ nextId = [u \in Units |-> 1]
      /\ allocated = [u \in Units |-> <<first>>]
      /\ free = [u \in Units |-> [i \in 1 .. MaxTeams - 1 |-> i]]
      /\ teams = [u \in Units |-> [s \in Slots |-> IF s = 0 THEN World ELSE NoComm]]
      /\ wins = [u \in Units |-> [s \in Slots |-> IF s = 0 THEN World ELSE NoComm]]
  BY DEF TeamAll
<1>. HIDE DEF RegistryInit, first
<1>7. [i \in 1 .. MaxTeams - 1 |-> i] \in Seq(Slots)
  <2>1. MaxTeams - 1 \in Nat
    BY BoundsAssumption
  <2>2. \A i \in 1 .. MaxTeams - 1 : i \in Slots
    BY <2>1 DEF Slots
  <2>. DEFINE m == MaxTeams - 1
  <2>. HIDE DEF m
  <2>3. [i \in 1 .. m |-> i] \in Seq(Slots)
    BY <2>1, <2>2 DEF m
  <2>. QED  BY <2>3 DEF m
<1>t. RegistryTypeOK
  <2>1. members \in Seq(Seq(Units)) /\ Len(members) = 1
    BY <1>2, <1>3
  <2>2. calls \in Seq(Seq([request : Requests, result : Results])) /\ Len(calls) = 1
    BY <1>3
  <2>3. made \in Seq([Units -> Nat]) /\ Len(made) = 1
    BY <1>3
  <2>4. \A c \in DOMAIN members : \A u \in Units : made[c][u] <= Len(calls[c])
    BY <1>4
  <2>5. pc \in [Units -> Place] /\ nextId \in [Units -> Nat]
    BY <1>5, <1>6
  <2>6. allocated \in [Units -> Seq(Entry)]
    <3>1. <<first>> \in Seq(Entry)
      BY <1>5
    <3>. QED  BY <1>6, <3>1
  <2>7. free \in [Units -> Seq(Slots)]
    BY <1>6, <1>7, Zenon
  <2>8. teams \in [Units -> [Slots -> 0 .. Len(members)]] /\ wins \in [Units -> [Slots -> 0 .. Len(members)]]
    <3>1. Len(members) = 1 /\ World \in 0 .. 1 /\ NoComm \in 0 .. 1
      BY <2>1 DEF World, NoComm
    <3>. QED  BY <1>6, <3>1
  <2>. QED  BY <2>1, <2>2, <2>3, <2>4, <2>5, <2>6, <2>7, <2>8, Zenon DEF RegistryTypeOK, Place, Entry
<1>s. SlotsConserved
  <2>1. Apart([i \in 1 .. MaxTeams - 1 |-> i], <<first>>)
    <3>1. MaxTeams \in Nat \ {0}
      BY BoundsAssumption
    <3>2. <<first>>[1].index = 0 /\ DOMAIN <<first>> = {1}
      BY DEF first
    <3>3. \A s \in Slots : s = 0 \/ s \in 1 .. MaxTeams - 1
      BY <3>1 DEF Slots
    <3>. HIDE DEF Slots
    <3>. QED  BY <3>1, <3>2, <3>3 DEF Apart
  <2>2. AllApart
    BY <1>6, <2>1 DEF AllApart
  <2>. QED  BY <1>t, <2>2, SlotsApart
<1>i. IdsIncrease
  BY <1>6 DEF IdsIncrease, first, TeamAll
<1>c. CallsInv
  <2>1. World \in DOMAIN members /\ members[World] = all
    BY <1>4 DEF World
  <2>2. \A c \in DOMAIN members : members[c] \in Groups \ {<<>>} /\ DOMAIN calls[c] = {}
    BY <1>2, <1>4
  <2>. QED  BY <2>1, <2>2 DEF CallsInv, all
<1>u. ASSUME NEW u \in Units PROVE UnitInv(u)
  <2>1. InCall(u) /\ Creating(u) /\ Destroying(u)
    BY <1>6 DEF InCall, Creating, Destroying, Idle
  <2>2. /\ allocated[u] = <<first>> /\ DOMAIN allocated[u] = {1} /\ allocated[u][1] = first
        /\ first.index = 0 /\ teams[u][0] = World /\ wins[u][0] = World
    BY <1>5, <1>6 DEF first
  <2>3. Listed(u, 1)
    BY <1>2, <1>4, <2>2 DEF Listed, World
  <2>4. Lists(u)
    BY <2>2, <2>3 DEF Lists, first
  <2>. QED  BY <2>1, <2>4 DEF UnitInv
<1>. QED  BY <1>t, <1>s, <1>i, <1>c, <1>u DEF RegistryInv

\* A stuttering step.
LEMMA RegistryStutters == RegistryInv /\ UNCHANGED registryVars => RegistryInv'
<1>. SUFFICES ASSUME RegistryInv, UNCHANGED registryVars PROVE RegistryInv'
  OBVIOUS
<1>1. UNCHANGED mpiVars /\ UNCHANGED <<pc, nextId, allocated, free, teams, wins>>
  BY DEF registryVars, listVars
<1>2. UNCHANGED <<members, calls, made>>
  BY <1>1 DEF mpiVars
<1>3. RegistryTypeOK' /\ SlotsConserved' /\ IdsIncrease'
  <2>1. RegistryTypeOK'
    BY <1>1, <1>2, Zenon DEF RegistryInv, RegistryTypeOK
  <2>2. SlotsConserved'
    BY <1>1 DEF RegistryInv, SlotsConserved
  <2>3. IdsIncrease'
    BY <1>1 DEF RegistryInv, IdsIncrease
  <2>. QED  BY <2>1, <2>2, <2>3
<1>4. CallsInv'
  BY <1>1, CallsKept DEF RegistryInv
<1>5. ASSUME NEW v \in Units PROVE UnitInv(v)'
  BY <1>1, UnitKept DEF RegistryInv
<1>. QED  BY <1>3, <1>4, <1>5 DEF RegistryInv

\* The calls on a team are made with the team's communicator and slot.
LEMMA TeamCalled ==
    ASSUME RegistryInv, NEW u \in Units, NEW t \in TeamIds(u)
    PROVE  /\ CommOf(u, t) \in DOMAIN members
           /\ u \in Members(members[CommOf(u, t)])
           /\ members[CommOf(u, t)] \in Groups
           /\ Position(u, t) \in DOMAIN allocated[u]
           /\ SlotOf(u, t) \in Slots
           /\ allocated[u][Position(u, t)].index = SlotOf(u, t)
           /\ allocated[u][Position(u, t)].id = t
           /\ teams[u][SlotOf(u, t)] = CommOf(u, t)
           /\ t # TeamAll => Position(u, t) # 1
<1>1. PICK k \in DOMAIN allocated[u] : t = allocated[u][k].id
  BY DEF TeamIds
<1>2. /\ Position(u, t) = k /\ SlotOf(u, t) = allocated[u][k].index /\ SlotOf(u, t) \in Slots
      /\ CommOf(u, t) = teams[u][allocated[u][k].index]
      /\ CommOf(u, t) \in DOMAIN members
      /\ u \in Members(members[CommOf(u, t)])
      /\ t = TeamAll <=> k = 1
  BY <1>1, TeamFound
<1>3. members[CommOf(u, t)] \in Groups
  BY <1>2 DEF RegistryInv, CallsInv
<1>. QED  BY <1>1, <1>2, <1>3

\* dart_team_create asks for an ascending group.
LEMMA EnterCreateKeeps ==
    ASSUME RegistryInv, NEW u \in Units, NEW recipe \in Recipes, NEW t \in TeamIds(u),
           EnterCreate(u, t, recipe)
    PROVE  RegistryInv'
<1>. DEFINE c == CommOf(u, t)
            g == Made(recipe, members[c])
            request == [op |-> "create", arg |-> g]
<1>1. /\ g # <<>> /\ Make(u, c, request) /\ At(u, "create", c, SlotOf(u, t), 0)
      /\ UNCHANGED listVars
  BY DEF EnterCreate
<1>2. /\ c \in DOMAIN members /\ u \in Members(members[c]) /\ members[c] \in Groups
      /\ SlotOf(u, t) \in Slots
  BY TeamCalled
<1>3. g \in Groups
  BY <1>2, MadeIsGroup
<1>. HIDE DEF g, c
<1>4. g \in Seq(Nat)
  <2>1. g \in Seq(Units) /\ Units \subseteq Nat
    BY <1>3, UnitsNumbers
  <2>2. DOMAIN g = 1 .. Len(g) /\ Len(g) \in Nat /\ \A i \in DOMAIN g : g[i] \in Nat
    BY <2>1, UnitsNumbers, <1>3
  <2>3. g = [i \in 1 .. Len(g) |-> g[i]]
    BY <2>1
  <2>. QED  BY <2>2, <2>3
<1>5. request \in Requests /\ request.op = "create" /\ request.arg \in Groups \ {<<>>}
  BY <1>1, <1>3, <1>4 DEF Requests, Operations
<1>. HIDE DEF request
<1>6. \E label \in Labels \ {"idle", "window"}, slot \in Slots, pos \in Int :
          /\ At(u, label, c, slot, pos)
          /\ label = "create" => request.op = "create"
          /\ label = "destroy" => /\ pos \in DOMAIN allocated[u] \ {1}
                                  /\ allocated[u][pos].index = slot
  <2>1. "create" \in Labels \ {"idle", "window"} /\ 0 \in Int
    BY DEF Labels, Operations
  <2>. QED  BY <1>1, <1>2, <1>5, <2>1
<1>. QED  BY <1>1, <1>2, <1>5, <1>6, MakeKeepsRegistry

\* dart_team_destroy knows the position and the slot of the team.
LEMMA EnterDestroyKeeps ==
    ASSUME RegistryInv, NEW u \in Units, NEW t \in TeamIds(u), EnterDestroy(u, t)
    PROVE  RegistryInv'
<1>. DEFINE c == CommOf(u, t)
            request == [op |-> "destroy", arg |-> <<>>]
<1>1. /\ t # TeamAll /\ Make(u, c, request)
      /\ At(u, "destroy", c, SlotOf(u, t), Position(u, t))
      /\ UNCHANGED listVars
  BY DEF EnterDestroy
<1>2. /\ c \in DOMAIN members /\ u \in Members(members[c])
      /\ SlotOf(u, t) \in Slots /\ Position(u, t) \in DOMAIN allocated[u] \ {1}
      /\ allocated[u][Position(u, t)].index = SlotOf(u, t)
  BY <1>1, TeamCalled
<1>. HIDE DEF c
<1>3. request \in Requests /\ request.op # "create"
  BY DEF Requests, Operations
<1>. HIDE DEF request
<1>4. \E label \in Labels \ {"idle", "window"}, slot \in Slots, pos \in Int :
          /\ At(u, label, c, slot, pos)
          /\ label = "create" => request.op = "create"
          /\ label = "destroy" => /\ pos \in DOMAIN allocated[u] \ {1}
                                  /\ allocated[u][pos].index = slot
  <2>1. "destroy" \in Labels \ {"idle", "window"}
    BY DEF Labels, Operations
  <2>2. Position(u, t) \in Int
    <3>1. \A i \in DOMAIN allocated[u] : i \in Int
      BY Entries DEF RegistryInv
    <3>. QED  BY <1>2, <3>1
  <2>. QED  BY <1>1, <1>2, <2>1, <2>2
<1>. QED  BY <1>1, <1>2, <1>3, <1>4, MakeKeepsRegistry

\* A unit that gets no team of a creation still advances its counter.
LEMMA NoTeamKeeps ==
    ASSUME RegistryInv, NEW u \in Units, CreateForOthers(u) \/ CreateWithoutSlot(u)
    PROVE  RegistryInv'
<1>. DEFINE id == CurrentCall(u).result.id
<1>1. /\ Leave(u) /\ pc[u].at = "create" /\ CurrentCall(u).result # NotYet
      /\ nextId' = [nextId EXCEPT ![u] = id + 1]
      /\ UNCHANGED mpiVars /\ UNCHANGED <<allocated, free, teams, wins>>
  BY DEF CreateForOthers, CreateWithoutSlot, Reduced
<1>2. id \in Nat
  BY <1>1, ResultKnown, Zenon
<1>3. id >= nextId[u] /\ nextId \in [Units -> Nat]
  BY <1>1 DEF RegistryInv, UnitInv, Creating, RegistryTypeOK
<1>. HIDE DEF id
<1>4. id + 1 \in Nat /\ nextId[u] \in Nat /\ id + 1 >= nextId[u]
  BY <1>2, <1>3
<1>5. nextId' \in [Units -> Nat] /\ nextId'[u] >= nextId[u]
      /\ \A v \in Units \ {u} : nextId'[v] = nextId[v]
  BY <1>1, <1>3, <1>4
<1>6. pc[u].at # "window"
  BY <1>1
<1>. QED  BY <1>1, <1>5, <1>6, LeaveKeepsRegistry

\* Every step of the registry keeps its invariant.
LEMMA RegistrySteps == RegistryInv /\ RegistryNext => RegistryInv'
<1>. SUFFICES ASSUME RegistryInv, RegistryNext PROVE RegistryInv'
  OBVIOUS
<1>1. ASSUME NEW u \in Units, NEW recipe \in Recipes, NEW t \in TeamIds(u),
             EnterCreate(u, t, recipe)
      PROVE  RegistryInv'
  BY <1>1, EnterCreateKeeps
<1>2. ASSUME NEW u \in Units, NEW t \in TeamIds(u), EnterDestroy(u, t) PROVE RegistryInv'
  BY <1>2, EnterDestroyKeeps
<1>3. ASSUME NEW c \in DOMAIN members, CompleteCreate(c) PROVE RegistryInv'
  BY <1>3, CompleteKeepsRegistry
<1>4. ASSUME NEW u \in Units, CreateStep(u) PROVE RegistryInv'
  BY <1>4, NoTeamKeeps, InSlotKeepsRegistry, FinishKeepsRegistry DEF CreateStep
<1>5. ASSUME NEW u \in Units, FinishDestroy(u) PROVE RegistryInv'
  BY <1>5, DestroyKeepsRegistry
<1>. QED  BY <1>1, <1>2, <1>3, <1>4, <1>5 DEF RegistryNext

----------------------------------------------------------------------------
\* Regions, the translation table and pointers (GlobalMemory).

\* The communicator of a region that a unit may use is one of its teams'.
LEMMA AliveIsTeam ==
    ASSUME RegistryInv, NEW u \in Units, NEW p, Alive(u, p)
    PROVE  /\ p.region[1] \in DOMAIN members
           /\ u \in Members(members[p.region[1]])
           /\ p.region[1] \in Nat
           /\ pc[u] = Idle
<1>1. pc[u] = Idle /\ p.region[1] \in Teams(u)
  BY DEF Alive
<1>2. PICK i \in DOMAIN allocated[u] : p.region[1] = teams[u][allocated[u][i].index]
  BY <1>1 DEF Teams
<1>3. Listed(u, i)
  BY DEF RegistryInv, UnitInv, Lists
<1>4. p.region[1] \in DOMAIN members /\ u \in Members(members[p.region[1]])
  BY <1>2, <1>3 DEF Listed
<1>5. DOMAIN members = 1 .. Len(members) /\ Len(members) \in Nat
  BY Shapes DEF RegistryInv
<1>. QED  BY <1>1, <1>4, <1>5

\* What TypeOK says of the pointers of a unit.
LEMMA PointerTypes ==
    ASSUME TypeOK, NEW u \in Units, NEW p \in pointers[u]
    PROVE  /\ p.seg \in Int /\ p.flags \in Slots /\ p.registered \in BOOLEAN
           /\ p.region \in (DOMAIN members) \X Nat
           /\ p.region \in Seq(Nat)
<1>1. p \in [seg : Int, flags : Slots, registered : BOOLEAN, region : (DOMAIN members) \X Nat]
  BY DEF TypeOK
<1>2. p.region \in (DOMAIN members) \X Nat
  BY <1>1
<1>3. DOMAIN members \subseteq Nat
  BY Shapes DEF TypeOK
<1>4. p.region \in Nat \X Nat
  BY <1>2, <1>3
<1>5. p.region \in Seq(Nat)
  <2>. DEFINE r == p.region
  <2>1. PICK a \in Nat, b \in Nat : r = <<a, b>>
    BY <1>4
  <2>2. <<a, b>> \in Seq(Nat)
    OBVIOUS
  <2>. QED  BY <2>1, <2>2
<1>. QED  BY <1>1, <1>2, <1>5

\* A call on the global memory enters the calls of a communicator.
LEMMA MemoryCallKeepsRegistry ==
    ASSUME RegistryInv, NEW u \in Units, NEW c \in DOMAIN members,
           u \in Members(members[c]),
           NEW label \in {"memalloc", "memregister", "memfree", "memderegister"},
           NEW arg \in Seq(Nat), NEW slot \in Slots, NEW pos \in Int,
           Make(u, c, [op |-> label, arg |-> arg]),
           At(u, label, c, slot, pos) \/ UNCHANGED pc,
           UNCHANGED listVars
    PROVE  RegistryInv'
<1>. DEFINE request == [op |-> label, arg |-> arg]
<1>1. request \in Requests /\ request.op # "create"
  BY DEF Requests, Operations
<1>2. label \in Labels \ {"idle", "window"} /\ label # "create" /\ label # "destroy"
  BY DEF Labels, Operations
<1>. HIDE DEF request
<1>3. Make(u, c, request)
  BY DEF request
<1>4. \/ UNCHANGED pc
      \/ \E l \in Labels \ {"idle", "window"}, s \in Slots, k \in Int :
             /\ At(u, l, c, s, k)
             /\ l = "create" => request.op = "create"
             /\ l = "destroy" => /\ k \in DOMAIN allocated[u] \ {1}
                                 /\ allocated[u][k].index = s
  BY <1>2
<1>. QED  BY <1>1, <1>3, <1>4, MakeKeepsRegistry

\* A return from such a call changes nothing of the registry but pc.
LEMMA MemoryReturnKeepsRegistry ==
    ASSUME RegistryInv, NEW u \in Units, Leave(u), pc[u].at # "window",
           UNCHANGED mpiVars, UNCHANGED listVars
    PROVE  RegistryInv'
<1>1. UNCHANGED <<nextId, allocated, free, teams, wins>>
  BY DEF listVars
<1>2. nextId \in [Units -> Nat]
  BY DEF RegistryInv, RegistryTypeOK
<1>3. nextId' \in [Units -> Nat] /\ nextId'[u] >= nextId[u]
      /\ \A v \in Units \ {u} : nextId'[v] = nextId[v]
  BY <1>1, <1>2
<1>. QED  BY <1>1, <1>3, LeaveKeepsRegistry

\* No operation on the global memory breaks the registry.
LEMMA MemoryKeepsRegistry ==
    ASSUME RegistryInv, TypeOK, NEW u \in Units, MemoryStep(u)
    PROVE  RegistryInv'
<1>. DEFINE Labels4 == {"memalloc", "memregister", "memfree", "memderegister"}
<1>1. ASSUME NEW t \in TeamIds(u), NEW op \in {"memalloc", "memregister"}, EnterMemalloc(u, t, op)
      PROVE  RegistryInv'
  <2>. DEFINE c == CommOf(u, t)
              slot == SlotOf(u, t)
  <2>1. /\ Make(u, c, [op |-> op, arg |-> <<>>]) /\ At(u, op, c, slot, 0)
        /\ UNCHANGED listVars
    BY <1>1 DEF EnterMemalloc
  <2>2. /\ c \in DOMAIN members /\ u \in Members(members[c]) /\ slot \in Slots
        /\ <<>> \in Seq(Nat) /\ 0 \in Int /\ op \in Labels4
    BY TeamCalled
  <2>. HIDE DEF c, slot
  <2>. QED  BY <2>1, <2>2, MemoryCallKeepsRegistry, Zenon
<1>2. ASSUME NEW p \in pointers[u], EnterMemfree(u, p) PROVE RegistryInv'
  <2>. DEFINE c == p.region[1]
              arg == p.region
              slot == p.flags
              seg == p.seg
              label == "memfree"
  <2>1. /\ Make(u, c, [op |-> label, arg |-> arg]) /\ At(u, label, c, slot, seg)
        /\ UNCHANGED listVars
    BY <1>2 DEF EnterMemfree
  <2>2. /\ c \in DOMAIN members /\ u \in Members(members[c]) /\ slot \in Slots
        /\ arg \in Seq(Nat) /\ seg \in Int /\ label \in Labels4
    BY <1>2, AliveIsTeam, PointerTypes DEF EnterMemfree
  <2>. HIDE DEF c, arg, slot, seg, label
  <2>. QED  BY <2>1, <2>2, MemoryCallKeepsRegistry
<1>3. ASSUME NEW p \in pointers[u], Memderegister(u, p) PROVE RegistryInv'
  <2>. DEFINE c == p.region[1]
              arg == p.region
              slot == p.flags
              seg == p.seg
              label == "memderegister"
  <2>1. /\ Make(u, c, [op |-> label, arg |-> arg]) /\ UNCHANGED pc
        /\ UNCHANGED listVars
    BY <1>3 DEF Memderegister
  <2>2. /\ c \in DOMAIN members /\ u \in Members(members[c]) /\ slot \in Slots
        /\ arg \in Seq(Nat) /\ seg \in Int /\ label \in Labels4
    BY <1>3, AliveIsTeam, PointerTypes DEF Memderegister
  <2>. HIDE DEF c, arg, slot, seg, label
  <2>. QED  BY <2>1, <2>2, MemoryCallKeepsRegistry, Zenon
<1>4. ASSUME FinishMemalloc(u) \/ FinishMemregister(u) PROVE RegistryInv'
  <2>1. /\ pc[u].at # "window" /\ Leave(u) /\ UNCHANGED mpiVars /\ UNCHANGED listVars
    BY <1>4 DEF FinishMemalloc, FinishMemregister, NewSegment
  <2>. QED  BY <2>1, MemoryReturnKeepsRegistry
<1>5. ASSUME FinishMemfree(u) PROVE RegistryInv'
  <2>1. /\ pc[u].at # "window" /\ Leave(u) /\ UNCHANGED mpiVars /\ UNCHANGED listVars
    BY <1>5 DEF FinishMemfree
  <2>. QED  BY <2>1, MemoryReturnKeepsRegistry
<1>. QED  BY <1>1, <1>2, <1>3, <1>4, <1>5 DEF MemoryStep

-----------------------------------------------------------------------------
(* What the steps of the registry leave to the global memory.              *)

MemoryCalls == {"memalloc", "memregister", "memfree"}

\* Communicators and calls are not forgotten.
CallsGrow ==
    /\ DOMAIN members \subseteq DOMAIN members'
    /\ \A c \in DOMAIN members :
           /\ \A n \in DOMAIN calls[c] :
                  n \in DOMAIN calls'[c] /\ calls'[c][n].request = calls[c][n].request
           /\ \A u \in Units : made'[c][u] \in Nat /\ made[c][u] <= made'[c][u]

\* The step gives v a team in a slot only on a communicator it has made no
\* call on.
TeamsKeep(v) ==
    \A c \in DOMAIN members : made[c][v] > 0 =>
        \A i \in DOMAIN allocated'[v] : teams'[v][allocated'[v][i].index] = c =>
            \E j \in DOMAIN allocated[v] :
                /\ allocated[v][j].index = allocated'[v][i].index
                /\ teams[v][allocated[v][j].index] = c

\* The step puts v in no call on the global memory.
UnitKeeps(v) ==
    /\ TeamsKeep(v)
    /\ pc'[v].at \in MemoryCalls =>
           pc'[v] = pc[v] /\ allocated'[v] = allocated[v] /\ teams'[v] = teams[v]

\* The lists of a unit stay as they are, and it enters no memory call.
LEMMA ListsKeep ==
    ASSUME NEW v \in Units, allocated'[v] = allocated[v], teams'[v] = teams[v],
           pc'[v].at \in MemoryCalls => pc'[v] = pc[v]
    PROVE  UnitKeeps(v)
BY DEF UnitKeeps, TeamsKeep

\* The calls grow where nothing of MPI changes,
LEMMA SameCallsGrow ==
    ASSUME RegistryTypeOK, UNCHANGED mpiVars
    PROVE  CallsGrow
<1>1. /\ DOMAIN made = DOMAIN members
      /\ \A c \in DOMAIN members : \A u \in Units : made[c][u] \in Nat
  BY Shapes
<1>. QED  BY <1>1 DEF CallsGrow, mpiVars

\* and where one is made.
LEMMA MadeCallsGrow ==
    ASSUME RegistryTypeOK, NEW u \in Units, NEW c \in DOMAIN members, NEW request,
           MadeOneMore(u, c, request)
    PROVE  CallsGrow
<1>1. /\ members' = members
      /\ \A d \in DOMAIN members : \A v \in Units :
             made'[d][v] = IF d = c /\ v = u THEN made[c][u] + 1 ELSE made[d][v]
      /\ \A d \in DOMAIN members :
             /\ Len(calls[d]) \in Nat /\ Len(calls'[d]) \in Nat
             /\ Len(calls[d]) <= Len(calls'[d])
             /\ DOMAIN calls[d] = 1 .. Len(calls[d])
             /\ DOMAIN calls'[d] = 1 .. Len(calls'[d])
             /\ \A i \in DOMAIN calls[d] : calls'[d][i] = calls[d][i]
  BY DEF MadeOneMore
<1>2. \A d \in DOMAIN members : \A v \in Units : made[d][v] \in Nat
  BY Shapes
<1>3. ASSUME NEW d \in DOMAIN members, NEW n \in DOMAIN calls[d]
      PROVE  n \in DOMAIN calls'[d] /\ calls'[d][n].request = calls[d][n].request
  BY <1>1
<1>4. ASSUME NEW d \in DOMAIN members, NEW v \in Units
      PROVE  made'[d][v] \in Nat /\ made[d][v] <= made'[d][v]
  BY <1>1, <1>2
<1>. QED  BY <1>1, <1>3, <1>4 DEF CallsGrow

\* What a unit knows of a region stays true.
LEMMA PointerKept ==
    ASSUME TypeOK, NEW v \in Units, NEW p \in pointers[v], PointerKnown(v, p),
           CallsGrow, TeamsKeep(v),
           \E i \in DOMAIN table'[v] : table'[v][i] = [seg |-> p.seg, region |-> p.region]
    PROVE  PointerKnown(v, p)'
<1>. DEFINE c == p.region[1]
            n == p.region[2]
<1>1. /\ n \in 1 .. made[c][v] /\ (p.registered <=> p.seg < 0)
      /\ \A i \in DOMAIN allocated[v] :
             teams[v][allocated[v][i].index] = c => allocated[v][i].index = p.flags
  BY DEF PointerKnown
<1>2. c \in DOMAIN members /\ n \in Nat
  BY PointerTypes
<1>3. made[c][v] \in Nat
  BY <1>2, Shapes DEF TypeOK
<1>4. made'[c][v] \in Nat /\ made[c][v] <= made'[c][v]
  BY <1>2 DEF CallsGrow
<1>. HIDE DEF c, n
<1>5. n \in 1 .. made'[c][v] /\ made[c][v] > 0
  BY <1>1, <1>2, <1>3, <1>4
<1>6. ASSUME NEW i \in DOMAIN allocated'[v], teams'[v][allocated'[v][i].index] = c
      PROVE  allocated'[v][i].index = p.flags
  BY <1>1, <1>2, <1>5, <1>6 DEF TeamsKeep
<1>. QED  BY <1>1, <1>5, <1>6 DEF PointerKnown, c, n

\* All pointers of a unit that gets none and loses none stay good,
LEMMA PointersKept ==
    ASSUME TypeOK, NEW v \in Units, PointersKnown(v), CallsGrow, TeamsKeep(v),
           table'[v] = table[v], pointers'[v] = pointers[v]
    PROVE  PointersKnown(v)'
<1>1. ASSUME NEW p \in pointers[v] PROVE PointerKnown(v, p)'
  <2>1. PointerKnown(v, p)
    BY DEF PointersKnown
  <2>2. \E i \in DOMAIN table'[v] : table'[v][i] = [seg |-> p.seg, region |-> p.region]
    BY <2>1 DEF PointerKnown
  <2>. QED  BY <2>1, <2>2, PointerKept
<1>. QED  BY <1>1 DEF PointersKnown

\* and so does the rest of its global memory.
LEMMA UnitMemoryKept ==
    ASSUME RegistryInv, TypeOK, NEW v \in Units, UnitMemory(v),
           CallsGrow, UnitKeeps(v),
           memid'[v] = memid[v], registerid'[v] = registerid[v],
           table'[v] = table[v], pointers'[v] = pointers[v]
    PROVE  UnitMemory(v)'
<1>1. EntriesKnown(v) /\ PointersKnown(v) /\ InMemoryCall(v)
  BY DEF UnitMemory
<1>2. EntriesKnown(v)'
  BY <1>1 DEF EntriesKnown
<1>3. PointersKnown(v)'
  BY <1>1, PointersKept DEF UnitKeeps
<1>4. InMemoryCall(v)'
  <2>1. CASE pc'[v].at \notin MemoryCalls
    BY <2>1 DEF InMemoryCall, MemoryCalls, Collective
  <2>2. CASE pc'[v].at \in MemoryCalls
    <3>1. pc'[v] = pc[v] /\ allocated'[v] = allocated[v] /\ teams'[v] = teams[v]
      BY <2>2 DEF UnitKeeps
    <3>2. CurrentCall(v)'.request = CurrentCall(v).request
      <4>1. InCall(v) /\ pc[v].at # "idle"
        BY <2>2, <3>1 DEF RegistryInv, UnitInv, MemoryCalls
      <4>2. pc[v].comm \in DOMAIN members /\ pc[v].n \in DOMAIN calls[pc[v].comm]
        BY <4>1 DEF InCall
      <4>. QED  BY <3>1, <4>2 DEF CallsGrow, CurrentCall
    <3>. QED  BY <1>1, <3>1, <3>2 DEF InMemoryCall
  <2>. QED  BY <2>1, <2>2
<1>. QED  BY <1>2, <1>3, <1>4 DEF UnitMemory

\* The completion of a creation leaves the global memory of every unit,
LEMMA CompleteLeaves ==
    ASSUME RegistryInv, NEW c \in DOMAIN members, CompleteCreate(c)
    PROVE  CallsGrow /\ \A v \in Units : UnitKeeps(v)
<1>. DEFINE K == Len(members)
<1>1. PICK n \in DOMAIN calls[c] : Completed(c, n)
  BY CompleteAppends
<1>. DEFINE call == [calls[c][n] EXCEPT !.result = [id |-> NewId(c), comm |-> K + 1]]
<1>2. /\ UNCHANGED <<pc, nextId, allocated, free, teams, wins>>
      /\ DOMAIN members' = 1 .. K + 1
      /\ \A d \in 1 .. K : made'[d] = made[d]
      /\ \A d \in 1 .. K :
             /\ DOMAIN calls'[d] = DOMAIN calls[d]
             /\ \A i \in DOMAIN calls[d] :
                    calls'[d][i] = IF d = c /\ i = n THEN call ELSE calls[d][i]
  BY <1>1, Zenon DEF Completed
<1>3. /\ K \in Nat /\ DOMAIN members = 1 .. K
      /\ \A d \in DOMAIN members : \A v \in Units : made[d][v] \in Nat
      /\ calls[c] \in Seq(Call)
  BY Shapes, Zenon DEF RegistryInv, Call
<1>4. call.request = calls[c][n].request
  <2>1. calls[c][n] \in Call
    BY <1>3, Elements
  <2>. QED  BY <2>1 DEF Call
<1>. HIDE DEF call, K
<1>5. CallsGrow
  <2>1. DOMAIN members \subseteq DOMAIN members'
    BY <1>2, <1>3
  <2>2. ASSUME NEW d \in DOMAIN members, NEW i \in DOMAIN calls[d]
        PROVE  i \in DOMAIN calls'[d] /\ calls'[d][i].request = calls[d][i].request
    BY <1>2, <1>3, <1>4, Zenon
  <2>3. ASSUME NEW d \in DOMAIN members, NEW v \in Units
        PROVE  made'[d][v] \in Nat /\ made[d][v] <= made'[d][v]
    BY <1>2, <1>3
  <2>. QED  BY <2>1, <2>2, <2>3 DEF CallsGrow
<1>6. ASSUME NEW v \in Units PROVE UnitKeeps(v)
  BY <1>2, ListsKeep
<1>. QED  BY <1>5, <1>6

\* and a call of the registry,
LEMMA CallLeaves ==
    ASSUME RegistryInv, NEW u \in Units, NEW c \in DOMAIN members, NEW request \in Requests,
           Make(u, c, request), UNCHANGED listVars,
           NEW label, label \notin MemoryCalls, NEW slot, NEW pos, At(u, label, c, slot, pos)
    PROVE  CallsGrow /\ \A v \in Units : UnitKeeps(v)
<1>1. MadeOneMore(u, c, request)
  BY MakeCalls
<1>2. CallsGrow
  BY <1>1, MadeCallsGrow DEF RegistryInv
<1>3. ASSUME NEW v \in Units PROVE UnitKeeps(v)
  <2>1. allocated'[v] = allocated[v] /\ teams'[v] = teams[v]
    BY DEF listVars
  <2>2. pc'[v] = pc[v] \/ pc'[v].at = label
    BY DEF At, RegistryInv, RegistryTypeOK
  <2>. QED  BY <2>1, <2>2, ListsKeep
<1>. QED  BY <1>2, <1>3

\* and the new team in a slot: its communicator is one of no call yet,
LEMMA InSlotLeaves ==
    ASSUME RegistryInv, NEW u \in Units, CreateInSlot(u)
    PROVE  CallsGrow /\ \A v \in Units : UnitKeeps(v)
<1>. DEFINE slot == Head(free[u])
            new == CurrentCall(u).result
            entry == [index |-> slot, id |-> new.id]
            list == allocated[u]
<1>1. /\ pc[u].at = "create" /\ new # NotYet
      /\ UNCHANGED mpiVars
      /\ free[u] # <<>>
      /\ allocated' = [allocated EXCEPT ![u] = Append(list, entry)]
      /\ teams' = [teams EXCEPT ![u][slot] = new.comm]
      /\ pc' = [pc EXCEPT ![u].at = "window", ![u].slot = slot]
  BY DEF CreateInSlot, Reduced
<1>2. CallsGrow
  BY <1>1, SameCallsGrow DEF RegistryInv
<1>3. made[new.comm][u] = 0
  BY <1>1 DEF RegistryInv, UnitInv, Creating
<1>4. /\ free[u] \in Seq(Slots) /\ slot \in Slots
      /\ teams \in [Units -> [Slots -> 0 .. Len(members)]]
      /\ allocated \in [Units -> Seq([index : Slots, id : Nat])]
      /\ pc \in [Units -> [at : Labels, comm : Nat, n : Nat, slot : Slots, pos : Int]]
  <2>1. RegistryTypeOK
    BY DEF RegistryInv
  <2>2. free[u] \in Seq(Slots)
    BY <2>1, Shapes
  <2>3. slot \in Slots
    <3>. HIDE DEF Slots
    <3>. QED  BY <1>1, <2>2
  <2>. QED  BY <2>1, <2>2, <2>3, Zenon DEF RegistryTypeOK
<1>5. ASSUME NEW v \in Units, v # u PROVE UnitKeeps(v)
  <2>1. pc'[v] = pc[v] /\ allocated'[v] = allocated[v] /\ teams'[v] = teams[v]
    BY <1>1, <1>4, <1>5
  <2>. QED  BY <2>1, ListsKeep
<1>6. UnitKeeps(u)
  <2>1. pc'[u].at = "window"
    BY <1>1, <1>4
  <2>2. allocated'[u] = Append(list, entry) /\ teams'[u] = [teams[u] EXCEPT ![slot] = new.comm]
    BY <1>1, <1>4
  <2>3. Len(list) \in Nat /\ DOMAIN list = 1 .. Len(list)
        /\ \A i \in DOMAIN list : list[i].index \in Slots
    BY Entries DEF RegistryInv
  <2>4. /\ DOMAIN allocated'[u] = 1 .. Len(list) + 1
        /\ \A i \in 1 .. Len(list) : allocated'[u][i] = list[i]
        /\ allocated'[u][Len(list) + 1] = entry
    <3>1. list \in Seq([index : Slots, id : Nat])
      BY <1>4, Zenon
    <3>2. allocated'[u] = Append(list, entry)
      BY <2>2
    <3>. HIDE DEF list, entry
    <3>. QED  BY <3>1, <3>2
  <2>5. teams[u] \in [Slots -> 0 .. Len(members)]
    BY <1>4
  <2>. SUFFICES ASSUME NEW c \in DOMAIN members, made[c][u] > 0,
                       NEW i \in DOMAIN allocated'[u], teams'[u][allocated'[u][i].index] = c
                PROVE  \E j \in DOMAIN list : /\ list[j].index = allocated'[u][i].index
                                              /\ teams[u][list[j].index] = c
    BY <2>1 DEF UnitKeeps, TeamsKeep, MemoryCalls
  <2>6. c # new.comm
    BY <1>3
  <2>. HIDE DEF list, entry, new, slot
  <2>7. CASE i = Len(list) + 1
    <3>1. teams'[u][slot] = new.comm /\ allocated'[u][i].index = slot
      BY <1>4, <2>2, <2>4, <2>5, <2>7 DEF entry
    <3>. QED  BY <2>6, <3>1
  <2>8. CASE i # Len(list) + 1
    <3>1. i \in DOMAIN list /\ allocated'[u][i] = list[i]
      BY <2>3, <2>4, <2>8
    <3>2. CASE list[i].index = slot
      <4>1. teams'[u][slot] = new.comm
        BY <1>4, <2>2, <2>5
      <4>. QED  BY <2>6, <3>1, <3>2, <4>1
    <3>3. CASE list[i].index # slot
      <4>1. teams'[u][list[i].index] = teams[u][list[i].index]
        BY <2>2, <2>3, <2>5, <3>1, <3>3
      <4>. QED  BY <3>1, <4>1
    <3>. QED  BY <3>2, <3>3
  <2>. QED  BY <2>7, <2>8
<1>. QED  BY <1>2, <1>5, <1>6

\* and the end of a team,
LEMMA DestroyLeaves ==
    ASSUME RegistryInv, NEW u \in Units, FinishDestroy(u)
    PROVE  CallsGrow /\ \A v \in Units : UnitKeeps(v)
<1>. DEFINE list == allocated[u]
            k == pc[u].pos
<1>1. /\ pc[u].at = "destroy" /\ pc' = [pc EXCEPT ![u] = Idle]
      /\ allocated' = [allocated EXCEPT ![u] = RemoveAt(list, k)]
      /\ UNCHANGED mpiVars /\ UNCHANGED <<nextId, teams, wins>>
  BY DEF FinishDestroy, Leave
<1>2. k \in DOMAIN list
  BY <1>1 DEF RegistryInv, UnitInv, Destroying
<1>3. list \in Seq(Entry)
  BY Entries DEF RegistryInv
<1>4. pc'[u] = Idle /\ allocated'[u] = RemoveAt(list, k)
      /\ \A v \in Units \ {u} : pc'[v] = pc[v] /\ allocated'[v] = allocated[v]
  BY <1>1 DEF RegistryInv, RegistryTypeOK
<1>5. CallsGrow
  BY <1>1, SameCallsGrow DEF RegistryInv
<1>6. ASSUME NEW v \in Units, v # u PROVE UnitKeeps(v)
  BY <1>1, <1>4, <1>6, ListsKeep
<1>7. UnitKeeps(u)
  <2>. HIDE DEF list, k
  <2>1. \A i \in DOMAIN RemoveAt(list, k) : \E j \in DOMAIN list : RemoveAt(list, k)[i] = list[j]
    <3>1. /\ k \in 1 .. Len(list) /\ Len(list) \in Nat /\ DOMAIN list = 1 .. Len(list)
          /\ DOMAIN RemoveAt(list, k) = 1 .. Len(list) - 1
          /\ \A i \in 1 .. Len(list) - 1 :
                 RemoveAt(list, k)[i] = IF i < k THEN list[i] ELSE list[i + 1]
      BY <1>2, <1>3, Removed
    <3>2. \A i \in 1 .. Len(list) - 1 : i \in DOMAIN list /\ i + 1 \in DOMAIN list
      BY <3>1
    <3>. QED  BY <3>1, <3>2, Zenon
  <2>2. pc'[u].at \notin MemoryCalls
    BY <1>4 DEF Idle, MemoryCalls
  <2>. QED  BY <1>1, <1>4, <2>1, <2>2 DEF UnitKeeps, TeamsKeep, list
<1>. QED  BY <1>5, <1>6, <1>7

\* hence every step of the registry.
LEMMA RegistryLeaves ==
    ASSUME RegistryInv, RegistryNext
    PROVE  CallsGrow /\ \A v \in Units : UnitKeeps(v)
<1>. DEFINE Goal == CallsGrow /\ \A v \in Units : UnitKeeps(v)
<1>1. ASSUME NEW u \in Units, NEW recipe \in Recipes, NEW t \in TeamIds(u),
             EnterCreate(u, t, recipe)
      PROVE  Goal
  <2>. DEFINE c == CommOf(u, t)
              g == Made(recipe, members[c])
              request == [op |-> "create", arg |-> g]
              slot == SlotOf(u, t)
  <2>1. /\ Make(u, c, request) /\ At(u, "create", c, slot, 0) /\ UNCHANGED listVars
    BY <1>1 DEF EnterCreate
  <2>2. c \in DOMAIN members
    BY TeamCalled
  <2>3. request \in Requests
    <3>1. g \in Groups
      BY <2>2, TeamCalled, MadeIsGroup
    <3>. HIDE DEF g
    <3>2. g \in Seq(Nat)
      <4>1. DOMAIN g = 1 .. Len(g) /\ Len(g) \in Nat /\ \A i \in DOMAIN g : g[i] \in Nat
        BY <3>1, UnitsNumbers
      <4>2. g \in Seq(Units)
        BY <3>1, UnitsNumbers
      <4>3. g = [i \in 1 .. Len(g) |-> g[i]]
        BY <4>2
      <4>. QED  BY <4>1, <4>3
    <3>. QED  BY <3>2 DEF Requests, Operations
  <2>4. "create" \notin MemoryCalls
    BY DEF MemoryCalls
  <2>. HIDE DEF c, request, slot
  <2>. QED  BY <2>1, <2>2, <2>3, <2>4, CallLeaves
<1>2. ASSUME NEW u \in Units, NEW t \in TeamIds(u), EnterDestroy(u, t) PROVE Goal
  <2>. DEFINE c == CommOf(u, t)
              request == [op |-> "destroy", arg |-> <<>>]
              slot == SlotOf(u, t)
              pos == Position(u, t)
  <2>1. Make(u, c, request) /\ At(u, "destroy", c, slot, pos) /\ UNCHANGED listVars
    BY <1>2 DEF EnterDestroy
  <2>2. c \in DOMAIN members /\ request \in Requests
    BY TeamCalled DEF Requests, Operations
  <2>3. "destroy" \notin MemoryCalls
    BY DEF MemoryCalls
  <2>. HIDE DEF c, request, slot, pos
  <2>. QED  BY <2>1, <2>2, <2>3, CallLeaves
<1>3. ASSUME NEW c \in DOMAIN members, CompleteCreate(c) PROVE Goal
  BY <1>3, CompleteLeaves
<1>4. ASSUME NEW u \in Units, CreateForOthers(u) \/ CreateWithoutSlot(u) \/ FinishCreate(u)
      PROVE  Goal
  <2>1. UNCHANGED mpiVars /\ UNCHANGED <<allocated, teams>> /\ pc' = [pc EXCEPT ![u] = Idle]
    BY <1>4 DEF CreateForOthers, CreateWithoutSlot, FinishCreate, Reduced, Leave
  <2>2. CallsGrow
    BY <2>1, SameCallsGrow DEF RegistryInv
  <2>3. ASSUME NEW v \in Units PROVE UnitKeeps(v)
    <3>1. pc'[v] = pc[v] \/ pc'[v] = Idle
      BY <2>1 DEF RegistryInv, RegistryTypeOK
    <3>2. pc'[v].at \in MemoryCalls => pc'[v] = pc[v]
      BY <3>1 DEF Idle, MemoryCalls
    <3>. QED  BY <2>1, <3>2, ListsKeep
  <2>. QED  BY <2>2, <2>3
<1>5. ASSUME NEW u \in Units, CreateInSlot(u) PROVE Goal
  BY <1>5, InSlotLeaves
<1>6. ASSUME NEW u \in Units, FinishDestroy(u) PROVE Goal
  BY <1>6, DestroyLeaves
<1>. HIDE DEF Goal
<1>7. Goal
  BY <1>1, <1>2, <1>3, <1>4, <1>5, <1>6 DEF RegistryNext, CreateStep
<1>. QED  BY <1>7 DEF Goal

-----------------------------------------------------------------------------
(* The calls of a unit and of the program, as sums.                        *)

MadeBefore(u) == [c \in DOMAIN members |-> made[c][u]]
CallsBefore == [c \in DOMAIN members |-> Len(calls[c])]

CallsAreSums ==
    /\ IsFiniteSet(DOMAIN members)
    /\ CallsBefore \in [DOMAIN members -> Nat]
    /\ \E h : Sums(h, CallsBefore, DOMAIN members) /\ CallsMade = h[DOMAIN members]
    /\ \A u \in Units :
           /\ MadeBefore(u) \in [DOMAIN members -> Nat]
           /\ \E h : Sums(h, MadeBefore(u), DOMAIN members) /\ CallsOf(u) = h[DOMAIN members]

\* MapThenSumSet of FiniteSetsExt computes sums.
LEMMA CallsSum == RegistryTypeOK => CallsAreSums
<1>. SUFFICES ASSUME RegistryTypeOK PROVE CallsAreSums
  OBVIOUS
<1>. DEFINE S == DOMAIN members
<1>1. /\ Len(members) \in Nat /\ S = 1 .. Len(members) /\ DOMAIN calls = S
      /\ \A c \in S : Len(calls[c]) \in Nat /\ \A u \in Units : made[c][u] \in Nat
  BY Shapes
<1>2. IsFiniteSet(S)
  BY <1>1, FS_Interval
<1>3. CallsBefore \in [S -> Int] /\ CallsBefore \in [S -> Nat]
  BY <1>1 DEF CallsBefore
<1>4. \E h : Sums(h, CallsBefore, S) /\ CallsMade = h[S]
  <2>. DEFINE Body(g) == [s \in SUBSET S |-> IF s = {} THEN 0
                             ELSE Len(calls[Chosen(s)]) + g[s \ {Chosen(s)}]]
              h == CHOOSE g : g = Body(g)
  <2>1. CallsMade = h[S]
    BY <1>1 DEF CallsMade, MapThenSumSet, MapThenFoldSet, Chosen
  <2>2. \A g : Body(g) = SumStep(CallsBefore, S, g)
    <3>1. \A s \in SUBSET S : s # {} => Chosen(s) \in S
      BY DEF Chosen
    <3>. QED  BY <3>1 DEF SumStep, CallsBefore
  <2>3. h = Body(h)
    <3>. HIDE DEF Body
    <3>1. \E g : g = SumStep(CallsBefore, S, g)
      BY <1>2, <1>3, SumsSolve
    <3>. QED  BY <2>2, <3>1
  <2>. HIDE DEF h, Body
  <2>4. Sums(h, CallsBefore, S)
    BY <1>2, <1>3, <2>2, <2>3, SumsSolve
  <2>. QED  BY <2>1, <2>4
<1>5. ASSUME NEW u \in Units
      PROVE  /\ MadeBefore(u) \in [S -> Nat]
             /\ \E h : Sums(h, MadeBefore(u), S) /\ CallsOf(u) = h[S]
  <2>. DEFINE Body(g) == [s \in SUBSET S |-> IF s = {} THEN 0
                             ELSE made[Chosen(s)][u] + g[s \ {Chosen(s)}]]
              h == CHOOSE g : g = Body(g)
  <2>0. MadeBefore(u) \in [S -> Int] /\ MadeBefore(u) \in [S -> Nat]
    BY <1>1 DEF MadeBefore
  <2>1. CallsOf(u) = h[S]
    BY DEF CallsOf, MapThenSumSet, MapThenFoldSet, Chosen
  <2>2. \A g : Body(g) = SumStep(MadeBefore(u), S, g)
    <3>1. \A s \in SUBSET S : s # {} => Chosen(s) \in S
      BY DEF Chosen
    <3>. QED  BY <3>1 DEF SumStep, MadeBefore
  <2>3. h = Body(h)
    <3>. HIDE DEF Body
    <3>1. \E g : g = SumStep(MadeBefore(u), S, g)
      BY <1>2, <2>0, SumsSolve
    <3>. QED  BY <2>2, <3>1
  <2>. HIDE DEF h, Body
  <2>4. Sums(h, MadeBefore(u), S)
    BY <1>2, <2>0, <2>2, <2>3, SumsSolve
  <2>. QED  BY <2>0, <2>1, <2>4
<1>. QED  BY <1>2, <1>3, <1>4, <1>5 DEF CallsAreSums

\* Also in the next state.
LEMMA CallsSumNext == RegistryTypeOK' => CallsAreSums'
BY CallsSum, PTL

\* A unit has made at most all calls of the program.
LEMMA CallsOfUnit ==
    ASSUME RegistryTypeOK, NEW u \in Units
    PROVE  CallsOf(u) \in Int /\ CallsMade \in Int /\ CallsOf(u) <= CallsMade
<1>. DEFINE S == DOMAIN members
            f == MadeBefore(u)
            g == CallsBefore
<1>1. /\ IsFiniteSet(S) /\ f \in [S -> Nat] /\ g \in [S -> Nat]
  BY CallsSum DEF CallsAreSums
<1>2. PICK h : Sums(h, f, S) /\ CallsOf(u) = h[S]
  BY CallsSum DEF CallsAreSums
<1>3. PICK k : Sums(k, g, S) /\ CallsMade = k[S]
  BY CallsSum DEF CallsAreSums
<1>4. \A c \in S : f[c] <= g[c]
  BY DEF RegistryTypeOK, MadeBefore, CallsBefore
<1>5. S \cap S = S /\ S \ S = {} /\ S \in SUBSET S
  OBVIOUS
<1>. HIDE DEF S, f, g
<1>6. h[S] <= k[S]
  BY <1>1, <1>2, <1>3, <1>4, <1>5, SumLess
<1>7. h[S] \in Int /\ k[S] \in Int
  BY <1>2, <1>3, <1>5 DEF Sums
<1>. QED  BY <1>2, <1>3, <1>6, <1>7

\* The calls of a unit become more.
LEMMA CallsOfGrow ==
    ASSUME RegistryTypeOK, RegistryTypeOK', CallsGrow, NEW u \in Units
    PROVE  CallsOf(u) <= CallsOf(u)'
<1>. DEFINE S == DOMAIN members
            T == DOMAIN members'
            f == MadeBefore(u)
            g == MadeBefore(u)'
<1>1. /\ IsFiniteSet(S) /\ IsFiniteSet(T) /\ f \in [S -> Nat] /\ g \in [T -> Nat]
  BY CallsSum, CallsSumNext DEF CallsAreSums
<1>2. PICK h : Sums(h, f, S) /\ CallsOf(u) = h[S]
  BY CallsSum DEF CallsAreSums
<1>3. PICK k : Sums(k, g, T) /\ CallsOf(u)' = k[T]
  BY CallsSumNext DEF CallsAreSums
<1>4. \A c \in S : c \in T /\ f[c] <= g[c]
  BY DEF CallsGrow, MadeBefore
<1>5. \A c \in T : 0 <= g[c]
  BY <1>1
<1>6. (\A c \in S \cap T : f[c] <= g[c]) /\ S \ T = {} /\ (\A c \in T \ S : 0 <= g[c])
  BY <1>4, <1>5
<1>. HIDE DEF S, T, f, g
<1>7. h[S] <= k[T]
  BY <1>1, <1>2, <1>3, <1>6, SumLess
<1>. QED  BY <1>2, <1>3, <1>7

\* One more with each call.
LEMMA CallsOfNext ==
    ASSUME RegistryTypeOK, RegistryTypeOK', NEW u \in Units, NEW c \in DOMAIN members,
           NEW request, MadeOneMore(u, c, request)
    PROVE  CallsOf(u)' = CallsOf(u) + 1
<1>. DEFINE S == DOMAIN members
            f == MadeBefore(u)
            g == MadeBefore(u)'
<1>1. members' = members /\ \A d \in S : made'[d][u] = IF d = c THEN made[c][u] + 1 ELSE made[d][u]
  BY DEF MadeOneMore
<1>2. IsFiniteSet(S) /\ f \in [S -> Nat]
  BY CallsSum DEF CallsAreSums
<1>3. PICK h : Sums(h, f, S) /\ CallsOf(u) = h[S]
  BY CallsSum DEF CallsAreSums
<1>4. PICK k : Sums(k, g, S) /\ CallsOf(u)' = k[S]
  BY <1>1, CallsSumNext DEF CallsAreSums
<1>5. c \in S /\ g[c] = f[c] + 1 /\ f[c] \in Nat /\ \A d \in S \ {c} : f[d] = g[d]
  BY <1>1, <1>2 DEF MadeBefore
<1>. HIDE DEF S, f, g
<1>6. k[S] = h[S] + (g[c] - f[c])
  BY <1>2, <1>3, <1>4, <1>5, SumChange
<1>7. h[S] \in Int
  BY <1>3 DEF Sums
<1>. QED  BY <1>3, <1>4, <1>5, <1>6, <1>7

\* The bound on the calls of the program holds when no list of calls grows,
LEMMA SameCallsMade ==
    ASSUME RegistryTypeOK, RegistryTypeOK',
           \A c \in DOMAIN members' :
               IF c \in DOMAIN members THEN Len(calls'[c]) = Len(calls[c]) ELSE Len(calls'[c]) = 0,
           DOMAIN members \subseteq DOMAIN members'
    PROVE  CallsMade' <= CallsMade
<1>. DEFINE S == DOMAIN members'
            T == DOMAIN members
            f == CallsBefore'
            g == CallsBefore
<1>1. /\ IsFiniteSet(S) /\ IsFiniteSet(T) /\ f \in [S -> Nat] /\ g \in [T -> Nat]
  BY CallsSum, CallsSumNext DEF CallsAreSums
<1>2. PICK h : Sums(h, f, S) /\ CallsMade' = h[S]
  BY CallsSumNext DEF CallsAreSums
<1>3. PICK k : Sums(k, g, T) /\ CallsMade = k[T]
  BY CallsSum DEF CallsAreSums
<1>4. /\ \A c \in S : IF c \in T THEN f[c] = g[c] ELSE f[c] = 0
      /\ T \subseteq S
  BY DEF CallsBefore
<1>5. (\A c \in S \cap T : f[c] <= g[c]) /\ (\A c \in S \ T : f[c] <= 0) /\ T \ S = {}
  BY <1>1, <1>4
<1>. HIDE DEF S, T, f, g
<1>6. h[S] <= k[T]
  BY <1>1, <1>2, <1>3, <1>5, SumLess
<1>. QED  BY <1>2, <1>3, <1>6

\* and when a call is made.
LEMMA MakeBounded ==
    ASSUME RegistryInv, RegistryInv', CallsMade <= MaxCalls,
           NEW u \in Units, NEW c \in DOMAIN members, NEW request, Make(u, c, request)
    PROVE  CallsMade' <= MaxCalls
<1>. DEFINE S == DOMAIN members
            f == CallsBefore
            g == CallsBefore'
            n == made[c][u] + 1
<1>0. RegistryTypeOK /\ RegistryTypeOK' /\ members' = members
  BY DEF RegistryInv, Make
<1>1. /\ S = 1 .. Len(members) /\ DOMAIN calls = S
      /\ calls[c] \in Seq([request : Requests, result : Results])
  BY <1>0, Shapes, Zenon
<1>2. MaxCalls \in Int /\ CallsMade \in Int /\ CallsMade' \in Int
  <2>1. u \in Units
    OBVIOUS
  <2>2. CallsMade \in Int
    BY <1>0, CallsOfUnit
  <2>3. CallsMade' \in Int
    <3>1. PICK k : Sums(k, CallsBefore', DOMAIN members') /\ CallsMade' = k[DOMAIN members']
      BY <1>0, CallsSumNext DEF CallsAreSums
    <3>2. DOMAIN members' \in SUBSET DOMAIN members'
      OBVIOUS
    <3>. QED  BY <3>1, <3>2 DEF Sums
  <2>. QED  BY <2>2, <2>3, BoundsAssumption
<1>3. CASE UNCHANGED calls
  <2>1. CallsMade' <= CallsMade
    BY <1>0, <1>3, SameCallsMade
  <2>. QED  BY <1>2, <2>1
<1>4. CASE /\ CallsMade < MaxCalls
           /\ calls' = [calls EXCEPT ![c] = Append(@, [request |-> request, result |-> NotYet])]
  <2>1. /\ \A d \in S \ {c} : calls'[d] = calls[d]
        /\ Len(calls'[c]) = Len(calls[c]) + 1 /\ Len(calls[c]) \in Nat
    BY <1>1, <1>4
  <2>2. c \in S /\ g[c] = f[c] + 1 /\ f[c] \in Nat /\ \A d \in S \ {c} : f[d] = g[d]
    BY <1>0, <2>1 DEF CallsBefore
  <2>3. IsFiniteSet(S)
    BY <1>0, CallsSum DEF CallsAreSums
  <2>4. PICK h : Sums(h, f, S) /\ CallsMade = h[S]
    BY <1>0, CallsSum DEF CallsAreSums
  <2>5. PICK k : Sums(k, g, S) /\ CallsMade' = k[S]
    BY <1>0, CallsSumNext DEF CallsAreSums
  <2>. HIDE DEF S, f, g
  <2>6. k[S] = h[S] + (g[c] - f[c])
    BY <2>2, <2>3, <2>4, <2>5, SumChange
  <2>. QED  BY <1>2, <1>4, <2>2, <2>4, <2>5, <2>6
<1>5. UNCHANGED calls \/ (/\ CallsMade < MaxCalls
          /\ calls' = [calls EXCEPT ![c] = Append(@, [request |-> request, result |-> NotYet])])
  BY DEF Make
<1>. QED  BY <1>3, <1>4, <1>5

-----------------------------------------------------------------------------
(* The translation table.                                                  *)

\* The entries of the translation table are ids with regions.
LEMMA TableTypes ==
    ASSUME TypeOK, NEW u \in Units
    PROVE  /\ table[u] \in Seq([seg : Int, region : (DOMAIN members) \X Nat])
           /\ Len(table[u]) \in Nat /\ DOMAIN table[u] = 1 .. Len(table[u])
           /\ \A i \in DOMAIN table[u] :
                  /\ table[u][i].seg \in Int /\ table[u][i].region \in (DOMAIN members) \X Nat
                  /\ table[u][i] = [seg |-> table[u][i].seg, region |-> table[u][i].region]
<1>. DEFINE E == [seg : Int, region : (DOMAIN members) \X Nat]
<1>1. table[u] \in Seq(E)
  BY Zenon DEF TypeOK
<1>2. /\ Len(table[u]) \in Nat /\ DOMAIN table[u] = 1 .. Len(table[u])
      /\ \A i \in DOMAIN table[u] : table[u][i] \in E
  <2>. HIDE DEF E
  <2>. QED  BY <1>1, Elements
<1>. QED  BY <1>1, <1>2, Zenon

\* The lookup finds an entry that is alone with its segment id.
LEMMA LookupFinds ==
    ASSUME TypeOK, NEW u \in Units, NEW k \in DOMAIN table[u], NEW seg,
           table[u][k].seg = seg,
           \A i \in DOMAIN table[u] : table[u][i].seg = seg => i = k
    PROVE  Lookup(u, seg) = k /\ k # 0
<1>. DEFINE I == {i \in 1 .. Len(table[u]) : table[u][i].seg = seg}
<1>1. /\ Len(table[u]) \in Nat /\ DOMAIN table[u] = 1 .. Len(table[u])
  BY TableTypes
<1>2. I = {k}
  BY <1>1
<1>3. Lookup(u, seg) = IF I # {} THEN Min(I) ELSE 0
  BY DEF Lookup, SelectInSeq
<1>. HIDE DEF I
<1>4. Min({k}) = k /\ k # 0
  <2>1. k \in Int /\ k # 0
    BY <1>1
  <2>2. \A x \in {k} : x = k
    OBVIOUS
  <2>3. \E x \in {k} : \A y \in {k} : x <= y
    BY <2>1
  <2>. QED  BY <2>1, <2>2, <2>3 DEF Min
<1>. QED  BY <1>2, <1>3, <1>4

\* What is left when the k-th element is removed, and where it was.
LEMMA RemovedFrom ==
    ASSUME NEW S, NEW s \in Seq(S), NEW k \in DOMAIN s
    PROVE  /\ RemoveAt(s, k) \in Seq(S)
           /\ \E from \in [DOMAIN RemoveAt(s, k) -> DOMAIN s \ {k}] :
                  /\ \A i \in DOMAIN RemoveAt(s, k) : RemoveAt(s, k)[i] = s[from[i]]
                  /\ \A i, j \in DOMAIN RemoveAt(s, k) : from[i] = from[j] => i = j
                  /\ \A j \in DOMAIN s \ {k} : \E i \in DOMAIN RemoveAt(s, k) : from[i] = j
<1>. DEFINE n == Len(s)
            left == RemoveAt(s, k)
            from == [i \in 1 .. n - 1 |-> IF i < k THEN i ELSE i + 1]
<1>1. /\ left \in Seq(S) /\ k \in 1 .. n /\ n \in Nat /\ DOMAIN s = 1 .. n
      /\ DOMAIN left = 1 .. n - 1
      /\ \A i \in 1 .. n - 1 : left[i] = IF i < k THEN s[i] ELSE s[i + 1]
  BY Removed
<1>. HIDE DEF left, n
<1>2. from \in [1 .. n - 1 -> (1 .. n) \ {k}]
  <2>1. \A i \in 1 .. n - 1 : from[i] \in (1 .. n) \ {k}
    BY <1>1
  <2>. QED  BY <2>1
<1>3. \A i \in 1 .. n - 1 : left[i] = s[from[i]]
  BY <1>1
<1>4. \A i, j \in 1 .. n - 1 : from[i] = from[j] => i = j
  BY <1>1
<1>5. ASSUME NEW j \in (1 .. n) \ {k} PROVE \E i \in 1 .. n - 1 : from[i] = j
  <2>. DEFINE i == IF j < k THEN j ELSE j - 1
  <2>1. i \in 1 .. n - 1 /\ from[i] = j
    BY <1>1
  <2>. QED  BY <2>1
<1>. HIDE DEF from
<1>6. from \in [DOMAIN left -> DOMAIN s \ {k}]
  BY <1>1, <1>2
<1>7. /\ \A i \in DOMAIN left : left[i] = s[from[i]]
      /\ \A i, j \in DOMAIN left : from[i] = from[j] => i = j
      /\ \A j \in DOMAIN s \ {k} : \E i \in DOMAIN left : from[i] = j
  BY <1>1, <1>3, <1>4, <1>5, Zenon
<1>. QED  BY <1>1, <1>6, <1>7, Zenon DEF left

\* dart_adapt_transtable_remove takes the entry of a pointer that goes with
\* it; what is known of the others stays.
LEMMA EntryRemoved ==
    ASSUME TypeOK, NEW u \in Units, EntriesKnown(u), PointersKnown(u),
           NEW q \in pointers[u], RemoveEntry(u, q.seg),
           pointers'[u] = pointers[u] \ {q},
           memid'[u] = memid[u], registerid'[u] = registerid[u],
           CallsGrow, TeamsKeep(u)
    PROVE  /\ EntriesKnown(u)' /\ PointersKnown(u)'
           /\ table' = [table EXCEPT ![u] = table'[u]]
           /\ table'[u] \in Seq([seg : Int, region : (DOMAIN members) \X Nat])
<1>. DEFINE E == [seg : Int, region : (DOMAIN members) \X Nat]
            list == table[u]
<1>1. PointerKnown(u, q)
  BY DEF PointersKnown
<1>2. PICK k \in DOMAIN list : list[k] = [seg |-> q.seg, region |-> q.region]
  BY <1>1 DEF PointerKnown
<1>3. \A i, j \in DOMAIN list : list[i].seg = list[j].seg => i = j
  BY DEF EntriesKnown
<1>4. Lookup(u, q.seg) = k
  BY <1>2, <1>3, LookupFinds
<1>. DEFINE left == RemoveAt(list, k)
<1>5. table' = [table EXCEPT ![u] = left] /\ table'[u] = left
  <2>1. table' = [table EXCEPT ![u] = left]
    BY <1>4 DEF RemoveEntry
  <2>2. DOMAIN table = Units
    BY DEF TypeOK
  <2>. QED  BY <2>1, <2>2
<1>6. list \in Seq(E)
  BY TableTypes, Zenon
<1>7. /\ left \in Seq(E)
      /\ \E from \in [DOMAIN left -> DOMAIN list \ {k}] :
             /\ \A i \in DOMAIN left : left[i] = list[from[i]]
             /\ \A i, j \in DOMAIN left : from[i] = from[j] => i = j
             /\ \A j \in DOMAIN list \ {k} : \E i \in DOMAIN left : from[i] = j
  <2>. HIDE DEF E, list
  <2>. QED  BY <1>6, RemovedFrom
<1>8. PICK from \in [DOMAIN left -> DOMAIN list \ {k}] :
          /\ \A i \in DOMAIN left : left[i] = list[from[i]]
          /\ \A i, j \in DOMAIN left : from[i] = from[j] => i = j
          /\ \A j \in DOMAIN list \ {k} : \E i \in DOMAIN left : from[i] = j
  BY <1>7, Zenon
<1>. HIDE DEF left
<1>9. EntriesKnown(u)'
  BY <1>3, <1>5, <1>8 DEF EntriesKnown
<1>10. ASSUME NEW p \in pointers[u], p # q PROVE PointerKnown(u, p)'
  <2>1. PointerKnown(u, p) /\ p.seg # q.seg
    BY <1>10 DEF PointersKnown
  <2>2. PICK j \in DOMAIN list : list[j] = [seg |-> p.seg, region |-> p.region]
    BY <2>1 DEF PointerKnown
  <2>3. j # k
    BY <1>2, <2>1, <2>2
  <2>4. PICK i \in DOMAIN left : from[i] = j
    BY <1>8, <2>3
  <2>5. \E l \in DOMAIN table'[u] : table'[u][l] = [seg |-> p.seg, region |-> p.region]
    BY <1>5, <1>8, <2>2, <2>4
  <2>. QED  BY <2>1, <2>5, PointerKept
<1>11. PointersKnown(u)'
  BY <1>10 DEF PointersKnown
<1>. QED  BY <1>5, <1>7, <1>9, <1>11, Zenon

\* The position of an entry that is found is in the table.
LEMMA LookupInTable ==
    ASSUME TypeOK, NEW u \in Units, NEW seg, Lookup(u, seg) # 0
    PROVE  Lookup(u, seg) \in DOMAIN table[u]
<1>. DEFINE I == {i \in 1 .. Len(table[u]) : table[u][i].seg = seg}
<1>1. /\ Len(table[u]) \in Nat /\ DOMAIN table[u] = 1 .. Len(table[u])
  BY TableTypes
<1>2. Lookup(u, seg) = IF I # {} THEN Min(I) ELSE 0
  BY DEF Lookup, SelectInSeq
<1>3. I \subseteq DOMAIN table[u] /\ I \subseteq Nat
  BY <1>1
<1>. HIDE DEF I
<1>4. I # {} => Min(I) \in I
  <2>. SUFFICES ASSUME I # {} PROVE Min(I) \in I
    OBVIOUS
  <2>1. \E x \in I : \A y \in I : x <= y
    BY <1>3, LeastNumber
  <2>. QED  BY <2>1 DEF Min
<1>. QED  BY <1>2, <1>3, <1>4, Zenon

\* The calls of a step on the global memory, and the registry of the others.
LEMMA MemoryCallsGrow ==
    ASSUME RegistryInv, TypeOK, NEW u \in Units, MemoryStep(u)
    PROVE  /\ CallsGrow
           /\ UNCHANGED listVars
           /\ \A v \in Units : TeamsKeep(v)
           /\ \A v \in Units \ {u} : UnitKeeps(v)
<1>. DEFINE Calling == \E c \in DOMAIN members, request \in Requests : Make(u, c, request)
<1>1. /\ UNCHANGED listVars
      /\ UNCHANGED mpiVars \/ Calling
      /\ \A v \in Units \ {u} : pc'[v] = pc[v]
  <2>0. pc \in [Units -> [at : Labels, comm : Nat, n : Nat, slot : Slots, pos : Int]]
    BY DEF RegistryInv, RegistryTypeOK
  <2>. DEFINE Same(v) == pc'[v] = pc[v]
              Facts == /\ UNCHANGED listVars
                       /\ UNCHANGED mpiVars \/ Calling
                       /\ \A v \in Units \ {u} : Same(v)
  <2>1. ASSUME NEW t \in TeamIds(u), NEW op \in {"memalloc", "memregister"},
               EnterMemalloc(u, t, op)
        PROVE  Facts
    <3>1. [op |-> op, arg |-> <<>>] \in Requests
      BY DEF Requests, Operations
    <3>2. CommOf(u, t) \in DOMAIN members
      BY TeamCalled
    <3>3. Calling
      BY <2>1, <3>1, <3>2 DEF EnterMemalloc
    <3>. QED  BY <2>0, <2>1, <3>3 DEF EnterMemalloc, At
  <2>2. ASSUME NEW p \in pointers[u], EnterMemfree(u, p) \/ Memderegister(u, p) PROVE Facts
    <3>1. \A op \in Operations : [op |-> op, arg |-> p.region] \in Requests
      BY PointerTypes DEF Requests
    <3>2. p.region[1] \in DOMAIN members
      BY <2>2, AliveIsTeam DEF EnterMemfree, Memderegister
    <3>3. Calling
      BY <2>2, <3>1, <3>2 DEF EnterMemfree, Memderegister, Operations
    <3>4. \A v \in Units \ {u} : Same(v)
      BY <2>0, <2>2 DEF EnterMemfree, Memderegister, At
    <3>. QED  BY <2>2, <3>3, <3>4 DEF EnterMemfree, Memderegister
  <2>3. ASSUME FinishMemalloc(u) \/ FinishMemregister(u) \/ FinishMemfree(u) PROVE Facts
    BY <2>0, <2>3 DEF FinishMemalloc, FinishMemregister, FinishMemfree, NewSegment, Leave
  <2>. QED  BY <2>1, <2>2, <2>3 DEF MemoryStep
<1>2. CallsGrow
  <2>1. CASE UNCHANGED mpiVars
    BY <2>1, SameCallsGrow DEF RegistryInv
  <2>2. ASSUME NEW c \in DOMAIN members, NEW request \in Requests, Make(u, c, request)
        PROVE  CallsGrow
    BY <2>2, MakeCalls, MadeCallsGrow DEF RegistryInv
  <2>. QED  BY <1>1, <2>1, <2>2
<1>3. \A v \in Units : allocated'[v] = allocated[v] /\ teams'[v] = teams[v]
  BY <1>1 DEF listVars
<1>4. \A v \in Units : TeamsKeep(v)
  BY <1>3 DEF TeamsKeep
<1>5. ASSUME NEW v \in Units \ {u} PROVE UnitKeeps(v)
  BY <1>1, <1>3, ListsKeep
<1>. QED  BY <1>1, <1>2, <1>4, <1>5

\* The tables keep their types with another list and other pointers at u,
LEMMA SegmentTypes ==
    ASSUME TypeOK, RegistryTypeOK', CallsGrow, NEW u \in Units,
           memid' \in [Units -> Int], registerid' \in [Units -> Int],
           NEW list \in Seq([seg : Int, region : (DOMAIN members') \X Nat]),
           table' = [table EXCEPT ![u] = list],
           NEW set \in SUBSET [seg : Int, flags : Slots, registered : BOOLEAN,
                               region : (DOMAIN members') \X Nat],
           pointers' = [pointers EXCEPT ![u] = set]
    PROVE  TypeOK'
<1>. DEFINE E == [seg : Int, region : (DOMAIN members) \X Nat]
            F == [seg : Int, region : (DOMAIN members') \X Nat]
            P == [seg : Int, flags : Slots, registered : BOOLEAN, region : (DOMAIN members) \X Nat]
            Q == [seg : Int, flags : Slots, registered : BOOLEAN, region : (DOMAIN members') \X Nat]
<1>1. E \subseteq F /\ P \subseteq Q
  <2>1. DOMAIN members \subseteq DOMAIN members'
    BY DEF CallsGrow
  <2>. QED  BY <2>1
<1>2. table \in [Units -> Seq(E)] /\ pointers \in [Units -> SUBSET P]
  BY Zenon DEF TypeOK
<1>3. list \in Seq(F) /\ set \in SUBSET Q
  OBVIOUS
<1>. HIDE DEF E, F, P, Q
<1>4. Seq(E) \subseteq Seq(F)
  BY <1>1
<1>5. table' \in [Units -> Seq(F)]
  BY <1>2, <1>3, <1>4
<1>6. pointers' \in [Units -> SUBSET Q]
  BY <1>1, <1>2, <1>3
<1>. QED  BY <1>5, <1>6 DEF TypeOK, F, Q

\* and when they stay the same while communicators are added.
LEMMA SameTypes ==
    ASSUME TypeOK, RegistryTypeOK', CallsGrow, UNCHANGED <<table, pointers>>,
           memid' \in [Units -> Int], registerid' \in [Units -> Int]
    PROVE  TypeOK'
<1>. DEFINE E == [seg : Int, region : (DOMAIN members) \X Nat]
            F == [seg : Int, region : (DOMAIN members') \X Nat]
            P == [seg : Int, flags : Slots, registered : BOOLEAN, region : (DOMAIN members) \X Nat]
            Q == [seg : Int, flags : Slots, registered : BOOLEAN, region : (DOMAIN members') \X Nat]
<1>1. E \subseteq F /\ P \subseteq Q
  <2>1. DOMAIN members \subseteq DOMAIN members'
    BY DEF CallsGrow
  <2>. QED  BY <2>1
<1>2. table \in [Units -> Seq(E)] /\ pointers \in [Units -> SUBSET P]
  BY Zenon DEF TypeOK
<1>. HIDE DEF E, F, P, Q
<1>4. Seq(E) \subseteq Seq(F)
  BY <1>1
<1>5. table' \in [Units -> Seq(F)]
  BY <1>2, <1>4
<1>6. pointers' \in [Units -> SUBSET Q]
  BY <1>1, <1>2
<1>. QED  BY <1>5, <1>6 DEF TypeOK, F, Q

\* Conversion to int16_t gives a number.
LEMMA WrapIsInt == \A n \in Int : Wrap(n) \in Int
BY SegAssumption DEF Wrap

\* The entry and the pointer that an allocation or a registration adds.
Added(u, seg, registered) ==
    LET region == <<pc[u].comm, pc[u].n>>
        entry == [seg |-> seg, region |-> region]
        new == [seg |-> seg, flags |-> pc[u].slot, region |-> region,
                registered |-> registered]
    IN  /\ table'[u] = Append(table[u], entry)
        /\ table' = [table EXCEPT ![u] = table'[u]]
        /\ entry \in [seg : Int, region : (DOMAIN members) \X Nat]
        /\ pointers'[u] = pointers[u] \cup {new}
        /\ pointers' = [pointers EXCEPT ![u] = pointers'[u]]
        /\ new \in [seg : Int, flags : Slots, registered : BOOLEAN,
                    region : (DOMAIN members) \X Nat]
        /\ pc[u].comm \in DOMAIN members /\ pc[u].n \in Nat /\ pc[u].slot \in Slots
        /\ pc[u].n = made[pc[u].comm][u] /\ pc[u].n \in DOMAIN calls[pc[u].comm]
        /\ pc' = [pc EXCEPT ![u] = Idle] /\ UNCHANGED mpiVars /\ UNCHANGED listVars

\* dart_team_memalloc_aligned and dart_team_memregister_aligned do that.
LEMMA SegmentAdds ==
    ASSUME RegistryInv, TypeOK, NEW u \in Units, NEW seg \in Int, NEW registered \in BOOLEAN,
           pc[u].at \in Collective, NewSegment(u, seg, registered)
    PROVE  Added(u, seg, registered)
<1>. DEFINE region == <<pc[u].comm, pc[u].n>>
            entry == [seg |-> seg, region |-> region]
            new == [seg |-> seg, flags |-> pc[u].slot, region |-> region,
                    registered |-> registered]
<1>1. /\ table' = [table EXCEPT ![u] = Append(@, entry)]
      /\ pointers' = [pointers EXCEPT ![u] = @ \cup {new}]
      /\ pc' = [pc EXCEPT ![u] = Idle] /\ UNCHANGED mpiVars /\ UNCHANGED listVars
  BY DEF NewSegment, Leave
<1>2. DOMAIN table = Units /\ DOMAIN pointers = Units
  BY DEF TypeOK
<1>3. InCall(u) /\ pc[u].at # "idle"
  BY DEF RegistryInv, UnitInv, Collective
<1>4. /\ pc[u].comm \in DOMAIN members
      /\ pc[u].n = made[pc[u].comm][u] /\ pc[u].n \in DOMAIN calls[pc[u].comm]
  BY <1>3 DEF InCall
<1>5. pc[u] \in [at : Labels, comm : Nat, n : Nat, slot : Slots, pos : Int]
  BY Shapes DEF RegistryInv
<1>6. pc[u].n \in Nat /\ pc[u].slot \in Slots
  BY <1>5
<1>7. region \in (DOMAIN members) \X Nat
  BY <1>4, <1>6
<1>. HIDE DEF region
<1>8. /\ entry \in [seg : Int, region : (DOMAIN members) \X Nat]
      /\ new \in [seg : Int, flags : Slots, registered : BOOLEAN,
                  region : (DOMAIN members) \X Nat]
  BY <1>6, <1>7
<1>. HIDE DEF entry, new
<1>9. /\ table'[u] = Append(table[u], entry)
      /\ table' = [table EXCEPT ![u] = table'[u]]
      /\ pointers'[u] = pointers[u] \cup {new}
      /\ pointers' = [pointers EXCEPT ![u] = pointers'[u]]
  BY <1>1, <1>2
<1>. QED  BY <1>1, <1>4, <1>6, <1>8, <1>9 DEF Added, entry, new, region

\* The tables keep their types with every operation on the global memory.
LEMMA MemoryTypes ==
    ASSUME RegistryInv, TypeOK, RegistryInv', NEW u \in Units, MemoryStep(u)
    PROVE  TypeOK'
<1>1. CallsGrow /\ RegistryTypeOK'
  BY MemoryCallsGrow DEF RegistryInv
<1>2. memid \in [Units -> Int] /\ registerid \in [Units -> Int]
      /\ table \in [Units -> Seq([seg : Int, region : (DOMAIN members) \X Nat])]
      /\ pointers \in [Units -> SUBSET [seg : Int, flags : Slots, registered : BOOLEAN,
                                        region : (DOMAIN members) \X Nat]]
  BY Zenon DEF TypeOK
<1>3. ASSUME \/ \E t \in TeamIds(u), op \in {"memalloc", "memregister"} : EnterMemalloc(u, t, op)
             \/ \E p \in pointers[u] : EnterMemfree(u, p)
      PROVE  TypeOK'
  <2>1. UNCHANGED memoryVars
    BY <1>3, Zenon DEF EnterMemalloc, EnterMemfree
  <2>. QED  BY <1>1, <1>2, <2>1, SameTypes DEF memoryVars
<1>4. ASSUME NEW seg \in Int, NEW registered \in BOOLEAN, pc[u].at \in Collective,
             NewSegment(u, seg, registered),
             memid' \in [Units -> Int], registerid' \in [Units -> Int]
      PROVE  TypeOK'
  <2>. DEFINE region == <<pc[u].comm, pc[u].n>>
              entry == [seg |-> seg, region |-> region]
              new == [seg |-> seg, flags |-> pc[u].slot, region |-> region,
                      registered |-> registered]
              E == [seg : Int, region : (DOMAIN members) \X Nat]
              P == [seg : Int, flags : Slots, registered : BOOLEAN,
                    region : (DOMAIN members) \X Nat]
  <2>1. /\ table'[u] = Append(table[u], entry)
        /\ table' = [table EXCEPT ![u] = table'[u]]
        /\ entry \in E
        /\ pointers'[u] = pointers[u] \cup {new}
        /\ pointers' = [pointers EXCEPT ![u] = pointers'[u]]
        /\ new \in P
        /\ members' = members
    <3>1. Added(u, seg, registered)
      BY <1>4, SegmentAdds
    <3>. QED  BY <3>1 DEF Added, mpiVars
  <2>2. table[u] \in Seq(E) /\ pointers[u] \in SUBSET P
    BY <1>2, Zenon
  <2>3. table'[u] \in Seq(E) /\ pointers'[u] \in SUBSET P
    <3>. HIDE DEF E, P, entry, new
    <3>1. Append(table[u], entry) \in Seq(E)
      BY <2>1, <2>2, Appended
    <3>. QED  BY <2>1, <2>2, <3>1
  <2>4. /\ table'[u] \in Seq([seg : Int, region : (DOMAIN members') \X Nat])
        /\ pointers'[u] \in SUBSET [seg : Int, flags : Slots, registered : BOOLEAN,
                                    region : (DOMAIN members') \X Nat]
    BY <2>1, <2>3
  <2>. DEFINE list == table'[u]
              set == pointers'[u]
  <2>5. /\ list \in Seq([seg : Int, region : (DOMAIN members') \X Nat])
        /\ table' = [table EXCEPT ![u] = list]
        /\ set \in SUBSET [seg : Int, flags : Slots, registered : BOOLEAN,
                           region : (DOMAIN members') \X Nat]
        /\ pointers' = [pointers EXCEPT ![u] = set]
    BY <2>1, <2>4, Zenon
  <2>. HIDE DEF E, P, entry, new, list, set
  <2>. QED  BY <1>1, <1>4, <2>5, SegmentTypes, Zenon
<1>5. ASSUME FinishMemalloc(u) \/ FinishMemregister(u) PROVE TypeOK'
  <2>1. CASE FinishMemalloc(u)
    <3>1. /\ pc[u].at \in Collective /\ NewSegment(u, memid[u], FALSE)
          /\ memid' = [memid EXCEPT ![u] = Wrap(@ + 1)] /\ registerid' = registerid
      BY <2>1, Zenon DEF FinishMemalloc, Collective
    <3>2. memid[u] \in Int /\ Wrap(memid[u] + 1) \in Int
      BY <1>2, WrapIsInt
    <3>3. memid' \in [Units -> Int]
      BY <1>2, <3>1, <3>2
    <3>. QED  BY <1>2, <1>4, <3>1, <3>2, <3>3, Zenon
  <2>2. CASE FinishMemregister(u)
    <3>1. /\ pc[u].at \in Collective /\ NewSegment(u, registerid[u], TRUE)
          /\ registerid' = [registerid EXCEPT ![u] = Wrap(@ - 1)] /\ memid' = memid
      BY <2>2, Zenon DEF FinishMemregister, Collective
    <3>2. registerid[u] \in Int /\ Wrap(registerid[u] - 1) \in Int
      BY <1>2, WrapIsInt
    <3>3. registerid' \in [Units -> Int]
      BY <1>2, <3>1, <3>2
    <3>. QED  BY <1>2, <1>4, <3>1, <3>2, <3>3, Zenon
  <2>. QED  BY <1>5, <2>1, <2>2
<1>6. ASSUME NEW seg, RemoveEntry(u, seg), NEW set \in SUBSET pointers[u],
             pointers' = [pointers EXCEPT ![u] = set],
             UNCHANGED <<members, memid, registerid>>
      PROVE  TypeOK'
  <2>. DEFINE E == [seg : Int, region : (DOMAIN members) \X Nat]
              P == [seg : Int, flags : Slots, registered : BOOLEAN,
                    region : (DOMAIN members) \X Nat]
              k == Lookup(u, seg)
              list == RemoveAt(table[u], k)
  <2>1. k \in DOMAIN table[u] /\ table' = [table EXCEPT ![u] = list]
    BY <1>6, LookupInTable DEF RemoveEntry
  <2>2. table[u] \in Seq(E) /\ pointers[u] \in SUBSET P
    BY <1>2, Zenon
  <2>3. list \in Seq(E) /\ set \in SUBSET P
    <3>. HIDE DEF E, P, k
    <3>. QED  BY <2>1, <2>2, Removed
  <2>4. /\ list \in Seq([seg : Int, region : (DOMAIN members') \X Nat])
        /\ set \in SUBSET [seg : Int, flags : Slots, registered : BOOLEAN,
                           region : (DOMAIN members') \X Nat]
        /\ memid' \in [Units -> Int] /\ registerid' \in [Units -> Int]
    BY <1>2, <1>6, <2>3
  <2>. HIDE DEF E, P, list
  <2>. QED  BY <1>1, <1>6, <2>1, <2>4, SegmentTypes, Zenon
<1>7. ASSUME NEW p \in pointers[u], Memderegister(u, p) PROVE TypeOK'
  <2>1. /\ RemoveEntry(u, p.seg) /\ pointers' = [pointers EXCEPT ![u] = pointers[u] \ {p}]
        /\ UNCHANGED <<members, memid, registerid>>
    BY <1>2, <1>7 DEF Memderegister, Make
  <2>2. pointers[u] \ {p} \in SUBSET pointers[u]
    OBVIOUS
  <2>. QED  BY <1>6, <2>1, <2>2, Zenon
<1>8. ASSUME FinishMemfree(u) PROVE TypeOK'
  <2>. DEFINE set == {p \in pointers[u] : p.region # CurrentCall(u).request.arg}
              seg == pc[u].pos
  <2>1. /\ RemoveEntry(u, seg) /\ pointers' = [pointers EXCEPT ![u] = set]
        /\ UNCHANGED <<members, memid, registerid>>
    BY <1>2, <1>8 DEF FinishMemfree, mpiVars
  <2>2. set \in SUBSET pointers[u]
    OBVIOUS
  <2>. HIDE DEF set, seg
  <2>. QED  BY <1>6, <2>1, <2>2, Zenon
<1>. QED  BY <1>3, <1>5, <1>7, <1>8 DEF MemoryStep

-----------------------------------------------------------------------------
\* dart_init makes tables of their types.
LEMMA TablesStart == Init => RegistryInv /\ TypeOK
<1>. SUFFICES ASSUME Init PROVE RegistryInv /\ TypeOK
  OBVIOUS
<1>1. RegistryInv
  BY RegistryStarts DEF Init
<1>2. /\ memid \in [Units -> Int] /\ registerid \in [Units -> Int]
      /\ table = [u \in Units |-> <<>>] /\ pointers = [u \in Units |-> {}]
  BY DEF Init
<1>3. <<>> \in Seq([seg : Int, region : (DOMAIN members) \X Nat])
  OBVIOUS
<1>. QED  BY <1>1, <1>2, <1>3 DEF TypeOK, RegistryInv

\* RegistryInv and TypeOK are inductive together.
LEMMA TablesStep == RegistryInv /\ TypeOK /\ [Next]_vars => RegistryInv' /\ TypeOK'
<1>. SUFFICES ASSUME RegistryInv, TypeOK, [Next]_vars PROVE RegistryInv' /\ TypeOK'
  OBVIOUS
<1>0. memid \in [Units -> Int] /\ registerid \in [Units -> Int]
  BY DEF TypeOK
<1>1. CASE RegistryNext /\ UNCHANGED memoryVars
  <2>1. RegistryInv' /\ CallsGrow
    BY <1>1, RegistrySteps, RegistryLeaves
  <2>. QED  BY <1>0, <1>1, <2>1, SameTypes DEF RegistryInv, memoryVars
<1>2. ASSUME NEW u \in Units, MemoryStep(u) PROVE RegistryInv' /\ TypeOK'
  <2>1. RegistryInv'
    BY <1>2, MemoryKeepsRegistry
  <2>. QED  BY <1>2, <2>1, MemoryTypes
<1>3. CASE UNCHANGED vars
  <2>1. UNCHANGED registryVars /\ UNCHANGED memoryVars /\ UNCHANGED mpiVars
    BY <1>3 DEF vars, registryVars
  <2>2. RegistryInv' /\ CallsGrow
    BY <2>1, RegistryStutters, SameCallsGrow DEF RegistryInv
  <2>. QED  BY <1>0, <2>1, <2>2, SameTypes DEF RegistryInv, memoryVars
<1>. QED  BY <1>1, <1>2, <1>3 DEF Next

\* So they hold always.
LEMMA Tables == Spec => [](RegistryInv /\ TypeOK)
BY TablesStart, TablesStep, PTL DEF Spec

\* TablesWellFormed: the slots of every unit are conserved and its list of
\* teams is in the order of the binary search, after any sequence of
\* dart_team_create, dart_team_destroy and operations on the global memory.
THEOREM TablesStayWellFormed == Spec => []TablesWellFormed
<1>1. RegistryInv /\ TypeOK => TablesWellFormed
  BY DEF RegistryInv, TablesWellFormed
<1>. QED  BY Tables, <1>1, PTL

\* TeamsResolve: dart_adapt_teamlist_convert finds every team of a unit, with
\* the communicator its id was given to, of units in ascending order.
THEOREM TeamsAreFound == Spec => []TeamsResolve
BY Tables, RegistryResolves, PTL

\* The remainder of a small number.
LEMMA SmallRemainder ==
    ASSUME NEW x \in Nat, NEW m \in Nat, x < m
    PROVE  x % m = x
OBVIOUS

\* A number of int16_t is not changed by its arithmetic.
LEMMA WrapSmall ==
    ASSUME NEW n \in Int, n <= MaxSeg, - MaxSeg - 1 <= n
    PROVE  Wrap(n) = n
<1>. DEFINE x == n + MaxSeg + 1
            m == 2 * (MaxSeg + 1)
<1>1. MaxSeg \in Nat
  BY SegAssumption
<1>2. x \in Nat /\ m \in Nat /\ x < m
  BY <1>1
<1>3. x % m = x
  <2>. HIDE DEF x, m
  <2>. QED  BY <1>2, SmallRemainder
<1>. QED  BY <1>1, <1>3 DEF Wrap

-----------------------------------------------------------------------------
(* The count of segment ids.                                               *)

\* The sums of calls are numbers, the calls of a unit at most all.
CallsBounded ==
    CallsMade \in Int /\ \A u \in Units : CallsOf(u) \in Int /\ CallsOf(u) <= CallsMade

\* They are, by the types of the calls.
LEMMA CallsAreBounded == RegistryTypeOK => CallsBounded
<1>. SUFFICES ASSUME RegistryTypeOK PROVE CallsBounded
  OBVIOUS
<1>1. PICK u \in Units : TRUE
  BY UnitsAssumption
<1>2. CallsMade \in Int
  BY <1>1, CallsOfUnit
<1>. QED  BY <1>2, CallsOfUnit DEF CallsBounded

\* Also in the next state.
LEMMA CallsAreBoundedNext == RegistryTypeOK' => CallsBounded'
BY CallsAreBounded, PTL

\* What the count is about.
LEMMA SegmentNumbers ==
    ASSUME TypeOK, NEW u \in Units
    PROVE  memid[u] \in Int /\ registerid[u] \in Int /\ CallsOf(u) \in Int
<1>1. RegistryTypeOK /\ memid \in [Units -> Int] /\ registerid \in [Units -> Int]
  BY DEF TypeOK
<1>. QED  BY <1>1, CallsAreBounded DEF CallsBounded

\* The count holds when no id is given out and no allocation is begun,
LEMMA CountKept ==
    ASSUME TypeOK, RegistryTypeOK', NEW v \in Units, SegmentsCounted(v), CallsGrow,
           memid'[v] = memid[v], registerid'[v] = registerid[v],
           pc'[v].at \in Collective => pc[v].at \in Collective
    PROVE  SegmentsCounted(v)'
<1>1. RegistryTypeOK
  BY DEF TypeOK
<1>2. CallsOf(v) <= CallsOf(v)' /\ CallsOf(v) \in Int /\ CallsOf(v)' \in Int
  BY <1>1, CallsOfGrow, CallsAreBounded, CallsAreBoundedNext DEF CallsBounded
<1>3. memid[v] \in Int /\ registerid[v] \in Int
  BY SegmentNumbers
<1>. DEFINE a == IF pc[v].at \in Collective THEN 1 ELSE 0
            b == IF pc'[v].at \in Collective THEN 1 ELSE 0
<1>4. a \in Int /\ b \in Int /\ b <= a
  OBVIOUS
<1>5. memid[v] > 0 /\ registerid[v] < 0 /\ memid[v] - registerid[v] - 2 + a <= CallsOf(v)
  BY DEF SegmentsCounted
<1>. HIDE DEF a, b
<1>6. memid[v] - registerid[v] - 2 + b <= CallsOf(v)'
  BY <1>2, <1>3, <1>4, <1>5
<1>. QED  BY <1>5, <1>6 DEF SegmentsCounted, b

\* and when the unit makes a call, on the global memory or not.
LEMMA CountOfCall ==
    ASSUME RegistryInv, TypeOK, RegistryTypeOK', NEW u \in Units, SegmentsCounted(u),
           memid'[u] = memid[u], registerid'[u] = registerid[u],
           NEW c \in DOMAIN members, NEW request, MadeOneMore(u, c, request)
    PROVE  SegmentsCounted(u)'
<1>1. RegistryTypeOK
  BY DEF TypeOK
<1>2. CallsOf(u)' = CallsOf(u) + 1 /\ CallsOf(u) \in Int
  BY <1>1, CallsOfNext, CallsAreBounded DEF CallsBounded
<1>3. memid[u] \in Int /\ registerid[u] \in Int
  BY SegmentNumbers
<1>4. pc[u].at \notin Collective
  BY DEF MadeOneMore, Idle, Collective
<1>5. memid[u] > 0 /\ registerid[u] < 0 /\ memid[u] - registerid[u] - 2 <= CallsOf(u)
  BY <1>3, <1>4 DEF SegmentsCounted
<1>. DEFINE b == IF pc'[u].at \in Collective THEN 1 ELSE 0
<1>6. b \in Int /\ b <= 1
  OBVIOUS
<1>. HIDE DEF b
<1>7. memid[u] - registerid[u] - 2 + b <= CallsOf(u)'
  BY <1>2, <1>3, <1>5, <1>6
<1>. QED  BY <1>5, <1>7 DEF SegmentsCounted, b

\* As long as all calls have room in int16_t, the next segment ids have.
LEMMA NoWrap ==
    ASSUME MemoryInv, MaxCalls < MaxSeg, NEW u \in Units, pc[u].at \in Collective
    PROVE  /\ Wrap(memid[u] + 1) = memid[u] + 1
           /\ Wrap(registerid[u] - 1) = registerid[u] - 1
<1>1. TypeOK /\ RegistryTypeOK /\ CallsMade <= MaxCalls /\ SegmentsCounted(u)
  BY Zenon DEF MemoryInv, TypeOK
<1>2. /\ memid[u] \in Int /\ registerid[u] \in Int /\ CallsOf(u) \in Int
      /\ CallsMade \in Int /\ CallsOf(u) <= CallsMade
  BY <1>1, SegmentNumbers, CallsAreBounded DEF CallsBounded
<1>3. MaxCalls \in Int /\ MaxSeg \in Int
  BY BoundsAssumption, SegAssumption
<1>4. memid[u] > 0 /\ registerid[u] < 0 /\ memid[u] - registerid[u] - 1 <= CallsOf(u)
  BY <1>1, <1>2 DEF SegmentsCounted
<1>5. /\ memid[u] + 1 <= MaxSeg /\ - MaxSeg - 1 <= memid[u] + 1
      /\ registerid[u] - 1 <= MaxSeg /\ - MaxSeg - 1 <= registerid[u] - 1
  BY <1>1, <1>2, <1>3, <1>4
<1>. QED  BY <1>2, <1>5, WrapSmall

-----------------------------------------------------------------------------
(* The unit that makes the step.                                           *)

\* A unit enters an allocation: it has its team, and the region is new.
LEMMA MemallocEntered ==
    ASSUME RegistryInv, RegistryInv', MemoryInv, NEW u \in Units, MemoryStep(u),
           NEW t \in TeamIds(u), NEW op \in {"memalloc", "memregister"}, EnterMemalloc(u, t, op)
    PROVE  SegmentsCounted(u)' /\ UnitMemory(u)'
<1>. DEFINE c == CommOf(u, t)
            slot == SlotOf(u, t)
            request == [op |-> op, arg |-> <<>>]
<1>1. /\ TypeOK /\ SegmentsCounted(u)
      /\ EntriesKnown(u) /\ PointersKnown(u) /\ InMemoryCall(u)
  BY DEF MemoryInv, UnitMemory
<1>2. /\ Make(u, c, request) /\ At(u, op, c, slot, 0)
      /\ UNCHANGED listVars /\ UNCHANGED memoryVars
  BY DEF EnterMemalloc
<1>3. /\ c \in DOMAIN members /\ slot \in Slots
      /\ Position(u, t) \in DOMAIN allocated[u]
      /\ allocated[u][Position(u, t)].index = slot
      /\ teams[u][slot] = c
  BY TeamCalled
<1>4. request \in Requests
  BY DEF Requests, Operations
<1>. HIDE DEF c, slot, request
<1>5. MadeOneMore(u, c, request)
  BY <1>2, <1>3, <1>4, MakeCalls
<1>6. CallsGrow /\ TeamsKeep(u)
  BY <1>1, MemoryCallsGrow
<1>7. /\ memid' = memid /\ registerid' = registerid /\ table' = table /\ pointers' = pointers
      /\ allocated' = allocated /\ teams' = teams
  BY <1>2 DEF memoryVars, listVars
<1>8. SegmentsCounted(u)'
  BY <1>1, <1>3, <1>5, <1>7, CountOfCall DEF RegistryInv
<1>9. EntriesKnown(u)'
  BY <1>1, <1>7 DEF EntriesKnown
<1>10. PointersKnown(u)'
  BY <1>1, <1>6, <1>7, PointersKept
<1>11. pc'[u].at = op /\ pc'[u].comm = c /\ pc'[u].n = made[c][u] + 1 /\ pc'[u].slot = slot
  BY <1>2 DEF At, RegistryInv, RegistryTypeOK
<1>12. made[c][u] \in Nat
  BY <1>1, <1>3, Shapes DEF TypeOK
<1>13. ASSUME NEW p \in pointers[u] PROVE p.region # <<c, made[c][u] + 1>>
  <2>1. p.region[2] \in 1 .. made[p.region[1]][u]
    BY <1>1, Zenon DEF PointersKnown, PointerKnown
  <2>2. <<c, made[c][u] + 1>>[1] = c /\ <<c, made[c][u] + 1>>[2] = made[c][u] + 1
    OBVIOUS
  <2>3. made[c][u] + 1 \notin 1 .. made[c][u]
    BY <1>12
  <2>. QED  BY <2>1, <2>2, <2>3
<1>14. InMemoryCall(u)'
  <2>1. pc'[u].at # "memfree"
    BY <1>11
  <2>. QED  BY <1>3, <1>7, <1>11, <1>13, <2>1 DEF InMemoryCall
<1>. QED  BY <1>8, <1>9, <1>10, <1>14 DEF UnitMemory

\* A unit enters dart_team_memfree with a pointer it has.
LEMMA MemfreeEntered ==
    ASSUME RegistryInv, RegistryInv', MemoryInv, NEW u \in Units, MemoryStep(u),
           NEW p \in pointers[u], EnterMemfree(u, p)
    PROVE  SegmentsCounted(u)' /\ UnitMemory(u)'
<1>. DEFINE c == p.region[1]
            region == p.region
            request == [op |-> "memfree", arg |-> region]
<1>1. /\ TypeOK /\ SegmentsCounted(u)
      /\ EntriesKnown(u) /\ PointersKnown(u) /\ InMemoryCall(u)
  BY DEF MemoryInv, UnitMemory
<1>2. /\ Alive(u, p) /\ Make(u, c, request) /\ At(u, "memfree", c, p.flags, p.seg)
      /\ UNCHANGED listVars /\ UNCHANGED memoryVars
  BY DEF EnterMemfree
<1>3. c \in DOMAIN members
  BY <1>2, AliveIsTeam
<1>4. request \in Requests
  BY <1>1, PointerTypes DEF Requests, Operations
<1>5. request.arg = region
  OBVIOUS
<1>. HIDE DEF c, request, region
<1>6. MadeOneMore(u, c, request)
  BY <1>2, <1>3, <1>4, MakeCalls
<1>7. CallsGrow /\ TeamsKeep(u)
  BY <1>1, MemoryCallsGrow
<1>8. /\ memid' = memid /\ registerid' = registerid /\ table' = table /\ pointers' = pointers
  BY <1>2 DEF memoryVars
<1>9. SegmentsCounted(u)'
  BY <1>1, <1>3, <1>6, <1>8, CountOfCall DEF RegistryInv
<1>10. EntriesKnown(u)'
  BY <1>1, <1>8 DEF EntriesKnown
<1>11. PointersKnown(u)'
  BY <1>1, <1>7, <1>8, PointersKept
<1>12. /\ pc'[u].at = "memfree" /\ pc'[u].comm = c /\ pc'[u].n = made[c][u] + 1
       /\ pc'[u].pos = p.seg
  BY <1>2 DEF At, RegistryInv, RegistryTypeOK
<1>13. CurrentCall(u)'.request.arg = p.region
  <2>1. calls'[c][made[c][u] + 1].request = request
    BY <1>6 DEF MadeOneMore
  <2>. QED  BY <1>5, <1>12, <2>1 DEF CurrentCall, region
<1>14. InMemoryCall(u)'
  <2>1. pc'[u].at \notin Collective
    BY <1>12 DEF Collective
  <2>. QED  BY <1>8, <1>12, <1>13, <2>1 DEF InMemoryCall
<1>. QED  BY <1>9, <1>10, <1>11, <1>14 DEF UnitMemory

\* dart_team_memderegister takes the pointer with its entry.
LEMMA Memderegistered ==
    ASSUME RegistryInv, RegistryInv', MemoryInv, NEW u \in Units, MemoryStep(u),
           NEW p \in pointers[u], Memderegister(u, p)
    PROVE  SegmentsCounted(u)' /\ UnitMemory(u)'
<1>. DEFINE c == p.region[1]
            region == p.region
            request == [op |-> "memderegister", arg |-> region]
<1>1. /\ TypeOK /\ SegmentsCounted(u)
      /\ EntriesKnown(u) /\ PointersKnown(u) /\ InMemoryCall(u)
  BY DEF MemoryInv, UnitMemory
<1>2. /\ Alive(u, p) /\ Make(u, c, request) /\ RemoveEntry(u, p.seg)
      /\ pointers' = [pointers EXCEPT ![u] = @ \ {p}]
      /\ UNCHANGED <<pc, listVars, memid, registerid>>
  BY DEF Memderegister
<1>3. c \in DOMAIN members
  BY <1>2, AliveIsTeam
<1>4. request \in Requests
  BY <1>1, PointerTypes DEF Requests, Operations
<1>. HIDE DEF c, request, region
<1>6. MadeOneMore(u, c, request)
  BY <1>2, <1>3, <1>4, MakeCalls
<1>7. CallsGrow /\ TeamsKeep(u)
  BY <1>1, MemoryCallsGrow
<1>8. SegmentsCounted(u)'
  BY <1>1, <1>2, <1>3, <1>6, CountOfCall DEF RegistryInv
<1>9. pointers'[u] = pointers[u] \ {p}
  BY <1>1, <1>2 DEF TypeOK
<1>10. EntriesKnown(u)' /\ PointersKnown(u)'
  BY <1>1, <1>2, <1>7, <1>9, EntryRemoved
<1>11. InMemoryCall(u)'
  <2>1. pc'[u] = Idle
    BY <1>2 DEF Alive
  <2>. QED  BY <2>1 DEF InMemoryCall, Collective, Idle
<1>. QED  BY <1>8, <1>10, <1>11 DEF UnitMemory

\* dart_team_memfree takes the pointer it was called with, and its entry.
LEMMA MemfreeFinished ==
    ASSUME RegistryInv, RegistryInv', MemoryInv, NEW u \in Units, MemoryStep(u),
           FinishMemfree(u)
    PROVE  SegmentsCounted(u)' /\ UnitMemory(u)'
<1>. DEFINE seg == pc[u].pos
            region == CurrentCall(u).request.arg
            left == {p \in pointers[u] : p.region # region}
<1>1. /\ TypeOK /\ SegmentsCounted(u)
      /\ EntriesKnown(u) /\ PointersKnown(u) /\ InMemoryCall(u)
  BY DEF MemoryInv, UnitMemory
<1>2. /\ pc[u].at = "memfree" /\ RemoveEntry(u, seg)
      /\ pointers' = [pointers EXCEPT ![u] = left]
      /\ pc' = [pc EXCEPT ![u] = Idle]
      /\ UNCHANGED <<memid, registerid>>
  BY <1>1 DEF FinishMemfree, Leave
<1>3. PICK q \in pointers[u] : q.seg = seg /\ q.region = region
  BY <1>1, <1>2 DEF InMemoryCall
<1>4. \A p \in pointers[u] : p.region = q.region => p = q
  BY <1>1 DEF PointersKnown
<1>5. left = pointers[u] \ {q}
  BY <1>3, <1>4
<1>. HIDE DEF seg, region, left
<1>6. pointers'[u] = pointers[u] \ {q} /\ pc'[u] = Idle
  BY <1>1, <1>2, <1>5 DEF TypeOK, RegistryTypeOK
<1>7. CallsGrow /\ TeamsKeep(u)
  BY <1>1, MemoryCallsGrow
<1>8. pc'[u].at \notin Collective /\ pc'[u].at # "memfree"
  BY <1>6 DEF Idle, Collective
<1>9. SegmentsCounted(u)'
  BY <1>1, <1>2, <1>7, <1>8, CountKept DEF RegistryInv
<1>10. EntriesKnown(u)' /\ PointersKnown(u)'
  BY <1>1, <1>2, <1>3, <1>6, <1>7, EntryRemoved
<1>11. InMemoryCall(u)'
  BY <1>8 DEF InMemoryCall
<1>. QED  BY <1>9, <1>10, <1>11 DEF UnitMemory

\* An allocation or a registration returns: the region has the next segment
\* id, an entry and a pointer of its own.
LEMMA SegmentKnown ==
    ASSUME RegistryInv, RegistryInv', MemoryInv, NEW u \in Units, MemoryStep(u),
           NEW seg \in Int, NEW registered \in BOOLEAN,
           pc[u].at \in Collective, NewSegment(u, seg, registered),
           \/ /\ seg = memid[u] /\ ~ registered
              /\ memid'[u] = memid[u] + 1 /\ registerid'[u] = registerid[u]
           \/ /\ seg = registerid[u] /\ registered
              /\ memid'[u] = memid[u] /\ registerid'[u] = registerid[u] - 1
    PROVE  SegmentsCounted(u)' /\ UnitMemory(u)'
<1>. DEFINE c == pc[u].comm
            region == <<pc[u].comm, pc[u].n>>
            entry == [seg |-> seg, region |-> region]
            new == [seg |-> seg, flags |-> pc[u].slot, region |-> region,
                    registered |-> registered]
            list == table[u]
            E == [seg : Int, region : (DOMAIN members) \X Nat]
<1>1. /\ TypeOK /\ SegmentsCounted(u)
      /\ EntriesKnown(u) /\ PointersKnown(u) /\ InMemoryCall(u)
  BY DEF MemoryInv, UnitMemory
<1>2. Added(u, seg, registered)
  BY <1>1, SegmentAdds
<1>3. /\ table'[u] = Append(list, entry) /\ entry \in E
      /\ pointers'[u] = pointers[u] \cup {new}
      /\ c \in DOMAIN members /\ pc[u].n \in Nat
      /\ pc[u].n = made[c][u] /\ pc[u].n \in DOMAIN calls[c]
      /\ pc' = [pc EXCEPT ![u] = Idle] /\ UNCHANGED mpiVars /\ UNCHANGED listVars
  BY <1>2 DEF Added
<1>4. pc'[u] = Idle
  BY <1>3 DEF RegistryInv, RegistryTypeOK
<1>5. /\ memid[u] \in Int /\ registerid[u] \in Int
      /\ CallsOf(u) \in Int /\ CallsOf(u)' \in Int /\ CallsOf(u) <= CallsOf(u)'
  <2>1. CallsGrow
    BY <1>1, MemoryCallsGrow
  <2>. QED  BY <1>1, <2>1, SegmentNumbers, CallsOfGrow, CallsAreBoundedNext
       DEF RegistryInv, CallsBounded
<1>6. /\ memid[u] > 0 /\ registerid[u] < 0 /\ memid[u] - registerid[u] - 1 <= CallsOf(u)
  BY <1>1, <1>5 DEF SegmentsCounted
<1>7. SegmentsCounted(u)'
  <2>1. pc'[u].at \notin Collective
    BY <1>4 DEF Idle, Collective
  <2>2. /\ memid'[u] > 0 /\ registerid'[u] < 0
        /\ memid'[u] - registerid'[u] - 2 + 0 <= CallsOf(u)'
    BY <1>5, <1>6
  <2>. QED  BY <2>1, <2>2 DEF SegmentsCounted
<1>8. /\ list \in Seq(E) /\ Len(list) \in Nat /\ DOMAIN list = 1 .. Len(list)
      /\ \A i \in DOMAIN list : list[i].seg \in Int
  BY <1>1, TableTypes, Zenon
<1>9. /\ DOMAIN table'[u] = 1 .. Len(list) + 1
      /\ \A i \in 1 .. Len(list) : table'[u][i] = list[i]
      /\ table'[u][Len(list) + 1] = entry
  <2>. HIDE DEF E, entry, list
  <2>. QED  BY <1>3, <1>8, Appended
<1>10. /\ entry.seg = seg /\ entry.region = region
       /\ new.seg = seg /\ new.flags = pc[u].slot /\ new.region = region
       /\ new.registered = registered /\ entry = [seg |-> new.seg, region |-> new.region]
       /\ region[1] = c /\ region[2] = pc[u].n /\ (registered <=> seg < 0) /\ seg # 0
  BY <1>5, <1>6
<1>11. \A i \in DOMAIN list : list[i].seg # seg /\ list[i].seg # 0
           /\ registerid[u] < list[i].seg /\ list[i].seg < memid[u]
  <2>. SUFFICES ASSUME NEW i \in DOMAIN list
                PROVE  /\ list[i].seg # seg /\ list[i].seg # 0
                       /\ registerid[u] < list[i].seg /\ list[i].seg < memid[u]
    OBVIOUS
  <2>1. list[i].seg # 0 /\ registerid[u] < list[i].seg /\ list[i].seg < memid[u]
    BY <1>1 DEF EntriesKnown
  <2>. DEFINE s == list[i].seg
  <2>2. s \in Int
    BY <1>8
  <2>. HIDE DEF list, s
  <2>3. s # seg
    BY <1>5, <2>1, <2>2 DEF s
  <2>. QED  BY <2>1, <2>3 DEF s
<1>. HIDE DEF c, region, entry, new, list, E
<1>0. PICK added : added = new
  OBVIOUS
<1>12. EntriesKnown(u)'
  <2>1. ASSUME NEW i \in DOMAIN table'[u]
        PROVE  /\ table'[u][i].seg # 0
               /\ registerid'[u] < table'[u][i].seg /\ table'[u][i].seg < memid'[u]
    <3>1. CASE i = Len(list) + 1
      <4>1. table'[u][i].seg = seg
        BY <1>9, <1>10, <3>1
      <4>. QED  BY <1>5, <1>6, <1>10, <4>1
    <3>2. CASE i \in DOMAIN list
      <4>1. table'[u][i] = list[i]
        BY <1>8, <1>9, <3>2
      <4>2. list[i].seg \in Int /\ list[i].seg # 0
            /\ registerid[u] < list[i].seg /\ list[i].seg < memid[u]
        BY <1>8, <1>11, <3>2
      <4>. QED  BY <1>5, <4>1, <4>2
    <3>. QED  BY <1>8, <1>9, <3>1, <3>2
  <2>2. ASSUME NEW i \in DOMAIN table'[u], NEW j \in DOMAIN table'[u],
               table'[u][i].seg = table'[u][j].seg
        PROVE  i = j
    <3>1. \A k \in DOMAIN list : table'[u][k].seg = list[k].seg /\ list[k].seg # seg
      BY <1>8, <1>9, <1>11, Zenon
    <3>2. table'[u][Len(list) + 1].seg = seg
      BY <1>9, <1>10
    <3>3. \A k \in DOMAIN table'[u] : k \in DOMAIN list \/ k = Len(list) + 1
      BY <1>8, <1>9
    <3>4. \A k, l \in DOMAIN list : list[k].seg = list[l].seg => k = l
      BY <1>1 DEF EntriesKnown, list
    <3>. QED  BY <2>2, <3>1, <3>2, <3>3, <3>4
  <2>. QED  BY <2>1, <2>2 DEF EntriesKnown
<1>13. ASSUME NEW p \in pointers[u]
       PROVE  /\ PointerKnown(u, p)' /\ p.seg # seg /\ p.region # region
  <2>1. PointerKnown(u, p)
    BY <1>1 DEF PointersKnown
  <2>2. PICK i \in DOMAIN list : list[i] = [seg |-> p.seg, region |-> p.region]
    BY <2>1 DEF PointerKnown, list
  <2>3. i \in DOMAIN table'[u] /\ table'[u][i] = list[i]
    BY <1>8, <1>9
  <2>4. p.seg # seg
    <3>1. list[i].seg = p.seg
      BY <2>2
    <3>. QED  BY <1>11, <3>1
  <2>5. p.region # region
    BY <1>1 DEF InMemoryCall, region
  <2>6. CallsGrow /\ TeamsKeep(u)
    BY <1>1, MemoryCallsGrow
  <2>7. \E k \in DOMAIN table'[u] : table'[u][k] = [seg |-> p.seg, region |-> p.region]
    BY <2>2, <2>3
  <2>. QED  BY <1>1, <2>1, <2>4, <2>5, <2>6, <2>7, PointerKept
<1>14. PointerKnown(u, added)'
  <2>1. region[2] \in 1 .. made'[region[1]][u]
    <3>1. calls[c] \in Seq([request : Requests, result : Results])
      BY <1>1, <1>3, Shapes, Zenon DEF TypeOK
    <3>2. pc[u].n >= 1
      BY <1>3, <3>1
    <3>3. made' = made
      BY <1>3 DEF mpiVars
    <3>. QED  BY <1>3, <1>10, <3>2, <3>3
  <2>2. Len(list) + 1 \in DOMAIN table'[u] /\ table'[u][Len(list) + 1] = entry
    BY <1>8, <1>9
  <2>3. ASSUME NEW i \in DOMAIN allocated'[u], teams'[u][allocated'[u][i].index] = c
        PROVE  allocated'[u][i].index = pc[u].slot
    <3>1. allocated' = allocated /\ teams' = teams
      BY <1>3 DEF listVars
    <3>2. teams[u][pc[u].slot] = c /\ \E j \in DOMAIN allocated[u] : allocated[u][j].index = pc[u].slot
      BY <1>1 DEF InMemoryCall, c
    <3>3. Lists(u)
      BY DEF RegistryInv, UnitInv
    <3>. QED  BY <2>3, <3>1, <3>2, <3>3 DEF Lists
  <2>4. /\ added.region = region /\ added.flags = pc[u].slot /\ entry = [seg |-> added.seg, region |-> added.region]
        /\ added.registered <=> added.seg < 0
    BY <1>0, <1>10
  <2>5. added.region[2] \in 1 .. made'[added.region[1]][u]
    BY <2>1, <2>4
  <2>6. \E i \in DOMAIN table'[u] : table'[u][i] = [seg |-> added.seg, region |-> added.region]
    BY <2>2, <2>4
  <2>7. \A i \in DOMAIN allocated'[u] :
            teams'[u][allocated'[u][i].index] = added.region[1] => allocated'[u][i].index = added.flags
    BY <1>10, <2>3, <2>4
  <2>. QED  BY <2>4, <2>5, <2>6, <2>7 DEF PointerKnown
<1>15. PointersKnown(u)'
  <2>1. \A p, q \in pointers[u] : p.seg = q.seg \/ p.region = q.region => p = q
    BY <1>1 DEF PointersKnown
  <2>2. ASSUME NEW p \in pointers'[u] PROVE PointerKnown(u, p)'
    <3>1. CASE p \in pointers[u]
      BY <1>13, <3>1
    <3>2. CASE p = added
      BY <1>0, <1>14, <3>2
    <3>. QED  BY <1>0, <1>3, <3>1, <3>2
  <2>3. \A p, q \in pointers'[u] : p.seg = q.seg \/ p.region = q.region => p = q
    <3>1. \A p \in pointers[u] : p.seg # new.seg /\ p.region # new.region
      BY <1>10, <1>13
    <3>. QED  BY <1>3, <2>1, <3>1
  <2>. QED  BY <2>2, <2>3 DEF PointersKnown
<1>16. InMemoryCall(u)'
  BY <1>4 DEF InMemoryCall, Collective, Idle
<1>. QED  BY <1>7, <1>12, <1>15, <1>16 DEF UnitMemory

\* The segment ids stay distinct and as many as the calls of the unit.
LEMMA SegmentFinished ==
    ASSUME RegistryInv, RegistryInv', MemoryInv, MaxCalls < MaxSeg,
           NEW u \in Units, MemoryStep(u), FinishMemalloc(u) \/ FinishMemregister(u)
    PROVE  SegmentsCounted(u)' /\ UnitMemory(u)'
<1>1. TypeOK
  BY DEF MemoryInv
<1>2. memid[u] \in Int /\ registerid[u] \in Int
  BY <1>1, SegmentNumbers
<1>3. pc[u].at \in Collective
  BY Zenon DEF FinishMemalloc, FinishMemregister, Collective
<1>4. Wrap(memid[u] + 1) = memid[u] + 1 /\ Wrap(registerid[u] - 1) = registerid[u] - 1
  BY <1>3, NoWrap
<1>5. DOMAIN memid = Units /\ DOMAIN registerid = Units
  BY <1>1 DEF TypeOK
<1>6. CASE FinishMemalloc(u)
  <2>. DEFINE seg == memid[u]
              registered == FALSE
  <2>1. NewSegment(u, seg, registered) /\ memid'[u] = memid[u] + 1 /\ registerid'[u] = registerid[u]
    BY <1>4, <1>5, <1>6, Zenon DEF FinishMemalloc
  <2>2. seg \in Int /\ registered \in BOOLEAN /\ ~ registered /\ seg = memid[u]
    BY <1>2
  <2>. HIDE DEF seg, registered
  <2>. QED  BY <1>3, <2>1, <2>2, SegmentKnown
<1>7. CASE FinishMemregister(u)
  <2>. DEFINE seg == registerid[u]
              registered == TRUE
  <2>1. NewSegment(u, seg, registered) /\ memid'[u] = memid[u] /\ registerid'[u] = registerid[u] - 1
    BY <1>4, <1>5, <1>7, Zenon DEF FinishMemregister
  <2>2. seg \in Int /\ registered \in BOOLEAN /\ registered /\ seg = registerid[u]
    BY <1>2
  <2>. HIDE DEF seg, registered
  <2>. QED  BY <1>3, <2>1, <2>2, SegmentKnown, Zenon
<1>. QED  BY <1>6, <1>7

-----------------------------------------------------------------------------
(* The inductive invariant of the global memory.                           *)

\* At the start there is no entry, no pointer and no call.
LEMMA MemoryStarts == Init => MemoryInv
<1>. SUFFICES ASSUME Init PROVE MemoryInv
  OBVIOUS
<1>1. RegistryInv /\ TypeOK /\ RegistryTypeOK
  BY TablesStart DEF RegistryInv
<1>2. CallsMade <= MaxCalls
  <2>1. calls = << <<>> >> /\ DOMAIN members = DOMAIN calls
    BY <1>1, Shapes DEF Init, RegistryInit
  <2>2. \A c \in DOMAIN members : CallsBefore[c] = 0
    BY <2>1 DEF CallsBefore
  <2>3. PICK h : Sums(h, CallsBefore, DOMAIN members) /\ CallsMade = h[DOMAIN members]
    BY <1>1, CallsSum DEF CallsAreSums
  <2>4. IsFiniteSet(DOMAIN members)
    BY <1>1, CallsSum DEF CallsAreSums
  <2>5. h[DOMAIN members] = 0
    BY <2>2, <2>3, <2>4, SumOfZeros
  <2>. QED  BY <2>3, <2>5, BoundsAssumption
<1>3. ASSUME NEW u \in Units PROVE SegmentsCounted(u) /\ UnitMemory(u)
  <2>1. /\ memid[u] = 1 /\ registerid[u] = -1 /\ table[u] = <<>> /\ pointers[u] = {}
        /\ pc[u] = Idle
    BY DEF Init, RegistryInit
  <2>2. pc[u].at \notin Collective /\ pc[u].at # "memfree"
    BY <2>1 DEF Idle, Collective
  <2>3. 0 <= CallsOf(u)
    <3>1. PICK h : Sums(h, MadeBefore(u), DOMAIN members) /\ CallsOf(u) = h[DOMAIN members]
      BY <1>1, CallsSum DEF CallsAreSums
    <3>2. IsFiniteSet(DOMAIN members)
      BY <1>1, CallsSum DEF CallsAreSums
    <3>3. \A c \in DOMAIN members : MadeBefore(u)[c] = 0
      <4>1. made = << [v \in Units |-> 0] >> /\ DOMAIN members = DOMAIN made
        BY <1>1, Shapes DEF Init, RegistryInit
      <4>. QED  BY <4>1 DEF MadeBefore
    <3>4. h[DOMAIN members] = 0
      BY <3>1, <3>2, <3>3, SumOfZeros
    <3>. QED  BY <3>1, <3>4
  <2>4. SegmentsCounted(u)
    BY <2>1, <2>2, <2>3 DEF SegmentsCounted
  <2>5. EntriesKnown(u) /\ PointersKnown(u) /\ InMemoryCall(u)
    BY <2>1, <2>2 DEF EntriesKnown, PointersKnown, InMemoryCall
  <2>. QED  BY <2>4, <2>5 DEF UnitMemory
<1>. QED  BY <1>1, <1>2, <1>3 DEF MemoryInv

\* What a step leaves alone of the global memory of v stays as it was.
LEMMA OthersKept ==
    ASSUME RegistryInv, RegistryInv', MemoryInv, CallsGrow, NEW v \in Units, UnitKeeps(v),
           memid'[v] = memid[v], registerid'[v] = registerid[v],
           table'[v] = table[v], pointers'[v] = pointers[v]
    PROVE  SegmentsCounted(v)' /\ UnitMemory(v)'
<1>1. TypeOK /\ RegistryTypeOK' /\ SegmentsCounted(v) /\ UnitMemory(v)
  BY DEF MemoryInv, RegistryInv
<1>2. pc'[v].at \in Collective => pc[v].at \in Collective
  BY DEF UnitKeeps, Collective, MemoryCalls
<1>. QED  BY <1>1, <1>2, CountKept, UnitMemoryKept

\* The calls of the program stay within their bound.
LEMMA CallsStayBounded ==
    ASSUME RegistryInv, RegistryInv', MemoryInv, [Next]_vars
    PROVE  CallsMade' <= MaxCalls
<1>1. RegistryTypeOK /\ RegistryTypeOK' /\ CallsMade <= MaxCalls /\ TypeOK
  BY DEF MemoryInv, RegistryInv
<1>2. CallsMade \in Int /\ CallsMade' \in Int /\ MaxCalls \in Int
  BY <1>1, CallsAreBounded, CallsAreBoundedNext, BoundsAssumption DEF CallsBounded
<1>3. ASSUME NEW u \in Units, NEW c \in DOMAIN members, NEW request, Make(u, c, request)
      PROVE  CallsMade' <= MaxCalls
  BY <1>1, <1>3, MakeBounded
<1>4. ASSUME UNCHANGED mpiVars PROVE CallsMade' <= MaxCalls
  <2>1. members' = members /\ calls' = calls
    BY <1>4 DEF mpiVars
  <2>2. CallsMade' <= CallsMade
    BY <1>1, <2>1, SameCallsMade
  <2>. QED  BY <1>1, <1>2, <2>2
<1>5. ASSUME NEW c \in DOMAIN members, CompleteCreate(c) PROVE CallsMade' <= MaxCalls
  <2>. DEFINE K == Len(members)
  <2>1. PICK n \in DOMAIN calls[c] : Completed(c, n)
    BY <1>5, CompleteAppends
  <2>2. K \in Nat /\ DOMAIN members = 1 .. K /\ DOMAIN members' = 1 .. K + 1
    BY <1>1, <2>1, Shapes DEF Completed
  <2>3. /\ \A d \in 1 .. K : DOMAIN calls'[d] = DOMAIN calls[d]
        /\ calls'[K + 1] = <<>>
    BY <2>1 DEF Completed
  <2>4. ASSUME NEW d \in DOMAIN members PROVE Len(calls'[d]) = Len(calls[d])
    <3>1. calls[d] \in Seq(Call) /\ calls'[d] \in Seq(Call)
      <4>1. \A e \in DOMAIN members : calls[e] \in Seq(Call)
        BY <1>1, Shapes, Zenon DEF Call
      <4>2. calls' \in Seq(Seq(Call)) /\ Len(calls') = K + 1
        BY <2>1 DEF Completed
      <4>3. d \in DOMAIN calls'
        BY <2>2, <4>2
      <4>. QED  BY <4>1, <4>2, <4>3
    <3>2. DOMAIN calls'[d] = DOMAIN calls[d]
      BY <2>2, <2>3
    <3>. HIDE DEF Call
    <3>. QED  BY <3>1, <3>2
  <2>5. \A d \in DOMAIN members' : IF d \in DOMAIN members THEN Len(calls'[d]) = Len(calls[d])
                                   ELSE Len(calls'[d]) = 0
    BY <2>2, <2>3, <2>4
  <2>6. DOMAIN members \subseteq DOMAIN members'
    BY <2>2
  <2>7. CallsMade' <= CallsMade
    BY <1>1, <2>5, <2>6, SameCallsMade
  <2>. QED  BY <1>1, <1>2, <2>7
<1>6. ASSUME RegistryNext PROVE CallsMade' <= MaxCalls
  <2>1. ASSUME NEW u \in Units, NEW t \in TeamIds(u), NEW recipe \in Recipes,
               EnterCreate(u, t, recipe) \/ EnterDestroy(u, t)
        PROVE  CallsMade' <= MaxCalls
    <3>1. CommOf(u, t) \in DOMAIN members
      BY TeamCalled
    <3>2. \E request : Make(u, CommOf(u, t), request)
      BY <2>1 DEF EnterCreate, EnterDestroy
    <3>. QED  BY <1>3, <3>1, <3>2
  <2>2. ASSUME NEW u \in Units, NEW t \in TeamIds(u), EnterDestroy(u, t)
        PROVE  CallsMade' <= MaxCalls
    <3>1. CommOf(u, t) \in DOMAIN members
      BY TeamCalled
    <3>2. \E request : Make(u, CommOf(u, t), request)
      BY <2>2 DEF EnterDestroy
    <3>. QED  BY <1>3, <3>1, <3>2
  <2>3. ASSUME NEW u \in Units, CreateStep(u) \/ FinishDestroy(u) PROVE CallsMade' <= MaxCalls
    <3>1. UNCHANGED mpiVars
      BY <2>3 DEF CreateStep, CreateForOthers, CreateWithoutSlot, CreateInSlot, FinishCreate,
                  Reduced, FinishDestroy
    <3>. QED  BY <1>4, <3>1
  <2>. QED  BY <1>5, <1>6, <2>1, <2>2, <2>3 DEF RegistryNext
<1>7. ASSUME NEW u \in Units, MemoryStep(u) PROVE CallsMade' <= MaxCalls
  <2>1. ASSUME NEW t \in TeamIds(u), NEW op \in {"memalloc", "memregister"},
               EnterMemalloc(u, t, op)
        PROVE  CallsMade' <= MaxCalls
    <3>1. CommOf(u, t) \in DOMAIN members
      BY TeamCalled
    <3>2. \E request : Make(u, CommOf(u, t), request)
      BY <2>1 DEF EnterMemalloc
    <3>. QED  BY <1>3, <3>1, <3>2
  <2>2. ASSUME NEW p \in pointers[u], EnterMemfree(u, p) \/ Memderegister(u, p)
        PROVE  CallsMade' <= MaxCalls
    <3>1. p.region[1] \in DOMAIN members
      BY <2>2, AliveIsTeam DEF EnterMemfree, Memderegister
    <3>2. \E request : Make(u, p.region[1], request)
      BY <2>2 DEF EnterMemfree, Memderegister
    <3>. QED  BY <1>3, <3>1, <3>2
  <2>3. ASSUME FinishMemalloc(u) \/ FinishMemregister(u) \/ FinishMemfree(u)
        PROVE  CallsMade' <= MaxCalls
    <3>1. UNCHANGED mpiVars
      BY <2>3 DEF FinishMemalloc, FinishMemregister, FinishMemfree, NewSegment
    <3>. QED  BY <1>4, <3>1
  <2>. QED  BY <1>7, <2>1, <2>2, <2>3 DEF MemoryStep
<1>8. ASSUME UNCHANGED vars PROVE CallsMade' <= MaxCalls
  BY <1>4, <1>8 DEF vars, registryVars
<1>. QED  BY <1>6, <1>7, <1>8 DEF Next

\* An operation on the global memory keeps what is known at every unit.
LEMMA MemoryStepKeeps ==
    ASSUME RegistryInv, RegistryInv', MemoryInv, MaxCalls < MaxSeg, NEW u \in Units, MemoryStep(u)
    PROVE  \A v \in Units : SegmentsCounted(v)' /\ UnitMemory(v)'
<1>1. TypeOK
  BY DEF MemoryInv
<1>2. SegmentsCounted(u)' /\ UnitMemory(u)'
  <2>1. ASSUME NEW t \in TeamIds(u), NEW op \in {"memalloc", "memregister"},
               EnterMemalloc(u, t, op)
        PROVE  SegmentsCounted(u)' /\ UnitMemory(u)'
    BY <2>1, MemallocEntered
  <2>2. ASSUME FinishMemalloc(u) \/ FinishMemregister(u)
        PROVE  SegmentsCounted(u)' /\ UnitMemory(u)'
    BY <2>2, SegmentFinished
  <2>3. ASSUME FinishMemfree(u) PROVE SegmentsCounted(u)' /\ UnitMemory(u)'
    BY <2>3, MemfreeFinished
  <2>4. ASSUME NEW p \in pointers[u], EnterMemfree(u, p) \/ Memderegister(u, p)
        PROVE  SegmentsCounted(u)' /\ UnitMemory(u)'
    BY <2>4, MemfreeEntered, Memderegistered
  <2>. QED  BY <2>1, <2>2, <2>3, <2>4 DEF MemoryStep
<1>3. ASSUME NEW v \in Units, v # u PROVE SegmentsCounted(v)' /\ UnitMemory(v)'
  <2>1. CallsGrow /\ UnitKeeps(v)
    BY <1>1, <1>3, MemoryCallsGrow
  <2>2. /\ memid \in [Units -> Int] /\ registerid \in [Units -> Int]
        /\ DOMAIN table = Units /\ DOMAIN pointers = Units
    BY <1>1 DEF TypeOK
  <2>. DEFINE Same == /\ memid'[v] = memid[v] /\ registerid'[v] = registerid[v]
                      /\ table'[v] = table[v] /\ pointers'[v] = pointers[v]
  <2>3. Same
    <3>1. ASSUME \/ \E t \in TeamIds(u), op \in {"memalloc", "memregister"} : EnterMemalloc(u, t, op)
                 \/ \E p \in pointers[u] : EnterMemfree(u, p)
          PROVE  Same
      BY <3>1, Zenon DEF EnterMemalloc, EnterMemfree, memoryVars
    <3>2. ASSUME FinishMemalloc(u) \/ FinishMemregister(u) PROVE Same
      BY <1>3, <2>2, <3>2 DEF FinishMemalloc, FinishMemregister, NewSegment
    <3>3. ASSUME FinishMemfree(u) PROVE Same
      BY <1>3, <2>2, <3>3 DEF FinishMemfree, RemoveEntry
    <3>4. ASSUME NEW p \in pointers[u], Memderegister(u, p) PROVE Same
      BY <1>3, <2>2, <3>4 DEF Memderegister, RemoveEntry
    <3>. HIDE DEF Same
    <3>. QED  BY <3>1, <3>2, <3>3, <3>4 DEF MemoryStep
  <2>. QED  BY <2>1, <2>3, OthersKept
<1>. QED  BY <1>2, <1>3

\* RegistryInv and MemoryInv are inductive together.
LEMMA MemorySteps ==
    ASSUME MaxCalls < MaxSeg
    PROVE  RegistryInv /\ MemoryInv /\ [Next]_vars => RegistryInv' /\ MemoryInv'
<1>. SUFFICES ASSUME RegistryInv, MemoryInv, [Next]_vars PROVE RegistryInv' /\ MemoryInv'
  OBVIOUS
<1>1. TypeOK
  BY DEF MemoryInv
<1>2. RegistryInv' /\ TypeOK'
  BY <1>1, TablesStep
<1>3. CallsMade' <= MaxCalls
  BY <1>2, CallsStayBounded
<1>4. ASSUME NEW v \in Units PROVE SegmentsCounted(v)' /\ UnitMemory(v)'
  <2>1. CASE RegistryNext /\ UNCHANGED memoryVars
    <3>1. CallsGrow /\ UnitKeeps(v)
      BY <2>1, RegistryLeaves
    <3>2. UNCHANGED <<memid, registerid, table, pointers>>
      BY <2>1 DEF memoryVars
    <3>. QED  BY <1>2, <3>1, <3>2, OthersKept
  <2>2. ASSUME NEW u \in Units, MemoryStep(u) PROVE SegmentsCounted(v)' /\ UnitMemory(v)'
    BY <1>2, <2>2, MemoryStepKeeps
  <2>3. CASE UNCHANGED vars
    <3>1. UNCHANGED <<memid, registerid, table, pointers>> /\ UNCHANGED mpiVars
          /\ UNCHANGED listVars /\ UNCHANGED pc
      BY <2>3 DEF vars, registryVars, memoryVars
    <3>2. CallsGrow
      BY <3>1, SameCallsGrow DEF RegistryInv
    <3>3. UnitKeeps(v)
      <4>1. allocated' = allocated /\ teams' = teams
        BY <3>1 DEF listVars
      <4>. QED  BY <3>1, <4>1, ListsKeep
    <3>. QED  BY <1>2, <3>1, <3>2, <3>3, OthersKept
  <2>. QED  BY <2>1, <2>2, <2>3 DEF Next
<1>. QED  BY <1>2, <1>3, <1>4 DEF MemoryInv

-----------------------------------------------------------------------------
(* Access through a pointer.                                               *)

\* MPI_Group_translate_ranks there and back.
LEMMA RankFinds ==
    ASSUME NEW g \in Groups, NEW v \in Members(g)
    PROVE  UnitAt(g, Rank(g, v)) = v
<1>. DEFINE I == {i \in 1 .. Len(g) : g[i] = v}
            k == Min(I)
<1>1. g \in Seq(Units) /\ Len(g) \in Nat /\ DOMAIN g = 1 .. Len(g)
  BY UnitsNumbers
<1>2. Rank(g, v) = (IF I # {} THEN k ELSE 0) - 1
  BY DEF Rank, SelectInSeq
<1>3. I # {}
  BY <1>1 DEF Members, ToSet
<1>4. k \in I
  <2>1. I \subseteq Nat
    BY <1>1
  <2>. HIDE DEF I
  <2>2. \E x \in I : \A y \in I : x <= y
    BY <1>3, <2>1, LeastNumber
  <2>. QED  BY <2>2 DEF Min
<1>5. k \in DOMAIN g /\ g[k] = v /\ k \in Int
  BY <1>1, <1>4
<1>. HIDE DEF k, I
<1>6. Rank(g, v) + 1 = k
  BY <1>2, <1>3, <1>5
<1>. QED  BY <1>5, <1>6 DEF UnitAt

\* The units of the program are numbered by their ranks in it.
LEMMA WorldRanks ==
    ASSUME RegistryInv, NEW v \in Members(members[World])
    PROVE  UnitAt(members[World], v) = v
<1>1. members[World] = [r \in 1 .. Cardinality(Units) |-> r - 1]
  BY DEF RegistryInv, CallsInv
<1>2. Cardinality(Units) \in Nat
  BY UnitsNumbers
<1>3. PICK r \in 1 .. Cardinality(Units) : v = r - 1
  BY <1>1 DEF Members, ToSet
<1>4. v + 1 \in DOMAIN members[World] /\ members[World][v + 1] = v
  BY <1>1, <1>2, <1>3
<1>. QED  BY <1>4 DEF UnitAt

\* The members on the node are a group.
LEMMA NeighboursGroup ==
    ASSUME RegistryInv, NEW c \in DOMAIN members, NEW u \in Units
    PROVE  Neighbours(c, u) \in Groups
<1>. DEFINE g == members[c]
            S == {v \in Units : Node[v] = Node[u]}
<1>1. g \in Groups
  BY DEF RegistryInv, CallsInv
<1>. HIDE DEF g, S
<1>2. Kept(g, S) \in Groups
  BY <1>1, KeptIsGroup
<1>. QED  BY <1>2 DEF Neighbours, g, S

\* Either way of access reaches the unit: with the region from the table, and
\* the slot in the flags holding the team and the window of its communicator.
LEMMA Hits ==
    ASSUME RegistryInv, NEW u \in Units, NEW p, p.seg \in Int,
           NEW c \in DOMAIN members, p.region[1] = c,
           RegionOf(u, p.seg) = p.region,
           teams[u][p.flags] = c, wins[u][p.flags] = c,
           p.flags = 0 => c = World, p.seg = 0 => p.flags = 0,
           NEW v \in Members(members[c])
    PROVE  LET hit == [region |-> p.region, unit |-> v, address |-> v]
           IN  Reached(u, p, v) = hit /\ (p.seg >= 0 => ReachedByHandle(u, p, v) = hit)
<1>. DEFINE hit == [region |-> p.region, unit |-> v, address |-> v]
            near == Neighbours(c, u)
            g == members[c]
<1>1. g \in Groups /\ near \in Groups
  BY NeighboursGroup DEF RegistryInv, CallsInv
<1>2. UnitAt(g, Rank(g, v)) = v
  BY <1>1, RankFinds
<1>3. SharesNode(u, p, v) => Copied(u, p, v) = hit
  <2>. SUFFICES ASSUME SharesNode(u, p, v) PROVE Copied(u, p, v) = hit
    OBVIOUS
  <2>1. v \in Members(near)
    BY DEF SharesNode
  <2>. HIDE DEF near
  <2>2. UnitAt(near, Rank(near, v)) = v
    BY <1>1, <2>1, RankFinds
  <2>. QED  BY <2>2 DEF Copied, near
<1>4. UnitAt(g, G2L(u, p.flags, v)) = v
  <2>1. CASE p.flags = 0
    <3>1. UnitAt(g, v) = v
      BY <2>1, WorldRanks
    <3>. QED  BY <2>1, <3>1 DEF G2L
  <2>2. CASE p.flags # 0
    BY <1>2, <2>2 DEF G2L
  <2>. QED  BY <2>1, <2>2
<1>5. \A rank : UnitAt(g, rank) = v => Through(u, p, rank) = hit
  BY DEF Through
<1>6. Reached(u, p, v) = hit
  BY <1>3, <1>4, <1>5 DEF Reached
<1>7. ASSUME p.seg >= 0 PROVE ReachedByHandle(u, p, v) = hit
  <2>1. CASE p.seg > 0
    BY <1>3, <1>4, <1>5, <2>1 DEF ReachedByHandle
  <2>2. CASE p.seg = 0
    <3>1. UnitAt(g, v) = v
      BY <2>2, WorldRanks
    <3>2. ~ (p.seg > 0)
      BY <2>2
    <3>. QED  BY <1>3, <1>5, <3>1, <3>2 DEF ReachedByHandle
  <2>. QED  BY <1>7, <2>1, <2>2
<1>. QED  BY <1>6, <1>7

\* A unit that is in no call has the window of each of its teams.
LEMMA IdleWindows ==
    ASSUME RegistryInv, NEW u \in Units, pc[u] = Idle, NEW i \in DOMAIN allocated[u]
    PROVE  LET slot == allocated[u][i].index
           IN  /\ wins[u][slot] = teams[u][slot] /\ teams[u][slot] \in DOMAIN members
               /\ slot = 0 => teams[u][slot] = World
<1>1. Lists(u)
  BY DEF RegistryInv, UnitInv
<1>2. Listed(u, i) /\ teams[u][0] = World
  BY <1>1 DEF Lists
<1>3. pc[u].at # "window"
  BY DEF Idle
<1>. QED  BY <1>2, <1>3 DEF Listed

\* The invariant gives every pointer its entry,
LEMMA MemoryResolves == RegistryInv /\ MemoryInv => PointersResolve
<1>. SUFFICES ASSUME RegistryInv, MemoryInv, NEW u \in Units, NEW p \in pointers[u]
              PROVE  /\ \E i \in DOMAIN table[u] : table[u][i] = [seg |-> p.seg, region |-> p.region]
                     /\ \A i, j \in DOMAIN table[u] :
                            table[u][i].seg = p.seg /\ table[u][j].seg = p.seg => i = j
  BY DEF PointersResolve
<1>1. EntriesKnown(u) /\ PointersKnown(u)
  BY DEF MemoryInv, UnitMemory
<1>2. PointerKnown(u, p)
  BY <1>1 DEF PointersKnown
<1>. QED  BY <1>1, <1>2 DEF EntriesKnown, PointerKnown

\* and every access the part of its unit.
LEMMA MemoryHits == RegistryInv /\ MemoryInv => AccessesHit
<1>. SUFFICES ASSUME RegistryInv, MemoryInv PROVE AccessesHit
  OBVIOUS
<1>0. PointersResolve /\ TypeOK
  BY MemoryResolves DEF MemoryInv
<1>1. ASSUME NEW u \in Units, NEW p \in pointers[u] \cup {LocalPointer}, Alive(u, p),
             NEW v \in Members(members[p.region[1]])
      PROVE  LET hit == [region |-> p.region, unit |-> v, address |-> v]
             IN  Reached(u, p, v) = hit /\ (p.seg >= 0 => ReachedByHandle(u, p, v) = hit)
  <2>. DEFINE c == p.region[1]
  <2>1. c \in DOMAIN members /\ pc[u] = Idle
    BY <1>1, AliveIsTeam
  <2>2. CASE p = LocalPointer
    <3>1. p.seg = 0 /\ p.flags = 0 /\ p.region = Pool /\ c = World
      BY <2>2 DEF LocalPointer, Pool
    <3>2. RegionOf(u, p.seg) = p.region /\ p.seg \in Int
      BY <3>1 DEF RegionOf
    <3>3. 1 \in DOMAIN allocated[u] /\ allocated[u][1].index = 0
      <4>1. Lists(u) /\ RegistryTypeOK
        BY DEF RegistryInv, UnitInv
      <4>2. allocated[u] \in Seq(Entry)
        BY <4>1, Entries
      <4>. HIDE DEF Entry
      <4>3. allocated[u] # <<>> /\ allocated[u][1].index = 0
        BY <4>1 DEF Lists
      <4>. QED  BY <4>2, <4>3
    <3>4. teams[u][p.flags] = c /\ wins[u][p.flags] = c
      BY <2>1, <3>1, <3>3, IdleWindows
    <3>. QED  BY <1>1, <2>1, <3>1, <3>2, <3>4, Hits
  <2>3. CASE p \in pointers[u]
    <3>1. EntriesKnown(u) /\ PointerKnown(u, p)
      BY <2>3 DEF MemoryInv, UnitMemory, PointersKnown
    <3>2. PICK i \in DOMAIN allocated[u] : teams[u][allocated[u][i].index] = c
      BY <1>1 DEF Alive, Teams
    <3>3. allocated[u][i].index = p.flags
      BY <3>1, <3>2 DEF PointerKnown
    <3>4. teams[u][p.flags] = c /\ wins[u][p.flags] = c /\ (p.flags = 0 => c = World)
      BY <2>1, <3>2, <3>3, IdleWindows
    <3>5. PICK k \in DOMAIN table[u] : table[u][k] = [seg |-> p.seg, region |-> p.region]
      BY <3>1 DEF PointerKnown
    <3>6. table[u][k].seg = p.seg /\ table[u][k].region = p.region /\ p.seg # 0
      BY <3>1, <3>5 DEF EntriesKnown
    <3>7. p.seg \in Int
      BY <1>0, <2>3, PointerTypes
    <3>8. \A j \in DOMAIN table[u] : table[u][j].seg = p.seg => j = k
      BY <3>1, <3>6 DEF EntriesKnown
    <3>9. Lookup(u, p.seg) = k
      BY <1>0, <3>6, <3>8, LookupFinds
    <3>10. RegionOf(u, p.seg) = p.region
      BY <3>6, <3>9 DEF RegionOf
    <3>. QED  BY <1>1, <2>1, <3>4, <3>6, <3>7, <3>10, Hits
  <2>. QED  BY <2>2, <2>3
<1>. QED  BY <1>0, <1>1 DEF AccessesHit

\* AccessesHit, as long as int16_t has room for the calls of the program.
THEOREM AccessesReachTheirUnits ==
    ASSUME MaxCalls < MaxSeg
    PROVE  Spec => []AccessesHit
<1>1. Init => RegistryInv /\ MemoryInv
  BY TablesStart, MemoryStarts
<1>2. RegistryInv /\ MemoryInv /\ [Next]_vars => RegistryInv' /\ MemoryInv'
  BY MemorySteps
<1>. QED  BY <1>1, <1>2, MemoryHits, PTL DEF Spec
=============================================================================
