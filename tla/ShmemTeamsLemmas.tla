-------------------------- MODULE ShmemTeamsLemmas --------------------------
(***************************************************************************)
(* What ShmemTeamsProofs rests on, for any set of units and any set of     *)
(* well-formed programs.                                                   *)
(*                                                                         *)
(* First what the calls do, whatever the state: a list of steps sends to   *)
(* every partner once and receives from every partner once, its barriers   *)
(* are the same number for every member and stand between the steps that   *)
(* have to be kept apart, and the step that makes a team or a lock comes   *)
(* before those that tell of it.  The steps are counted from the end of a  *)
(* call: with l left, StepAt gives the one that is next.                   *)
(*                                                                         *)
(* Then the inductive invariant IInv.  It tells the state with the program *)
(* p and three functions that are no variables of the model: ids[c] is the *)
(* id operation c has made, left[u][i] the number of steps u has left of   *)
(* operation i, over[i] the number of its barriers that are over.  Coupled *)
(* says how every variable follows from them.                              *)
(*                                                                         *)
(* Last the steps between calls and in barriers, and what a FIFO holds     *)
(* after one more send or reception.                                       *)
(***************************************************************************)
EXTENDS ShmemTeams, RecursionLemmas, SequenceTheorems, FunctionTheorems

(* The calls of a program, which are the same whatever the state.          *)

\* The members of the team of operation i, and their local ids.
Mem(p, i) == TeamMembers(p, p[i].on)

\* The table g2l of the group of a team.
LocalIds(p, c) == IF c = 0 THEN WorldGroup.g2l ELSE p[c].group.g2l

\* The steps of operation i for u, and the one that is taken with l steps left.
Script(p, u, i) ==
    Steps(p[i], u, Rank(Mem(p, i), u), Cardinality(Mem(p, i)), LocalIds(p, p[i].on))

\* Its length; a list of steps and a call, seen from their end.
Size(p, u, i) == Len(Script(p, u, i))
LeftOf(s, l) == s[Len(s) - l + 1]
StepAt(p, u, i, l) == LeftOf(Script(p, u, i), l)

\* What create and lockinit make is for the members of the new group, or of
\* the team; the first of them makes it, and the step SetLeft hands it out.
For(p, c) == IF p[c].kind = "create" THEN MembersOf(p[c].group) ELSE Mem(p, c)

\* The unit that makes it, and the place of the step that does.
Maker(p, c) == Min(For(p, c))
MakeLeft(p, c) == Size(p, Maker(p, c), c) - (IF p[c].kind = "create" THEN 1 ELSE 0)
SetLeft(p, c) == IF p[c].kind = "create" THEN 2 ELSE 1

\* The ids it can get.
Ids(p, c) == IF p[c].kind = "create" THEN 1 .. Len(p)
             ELSE IF p[c].kind = "lockinit" THEN LockSlots ELSE {}

\* The number of barriers of an operation, and the place of the b-th.
Barriers(p, i) ==
    CASE p[i].kind \in {"create", "destroy", "bcast", "lockinit"} -> 2
      [] p[i].kind \in {"gather", "lockfree"} -> 1
      [] p[i].kind = "allgather" -> 3
      [] OTHER -> 0

\* How many steps are left of operation i for u before its b-th barrier.
BarLeft(p, u, i, b) ==
    CASE p[i].kind \in {"create", "bcast"} -> IF b = 1 THEN Size(p, u, i) ELSE 1
      [] p[i].kind = "destroy" -> IF b = 1 THEN Size(p, u, i) ELSE Size(p, u, i) - 2
      [] p[i].kind = "lockinit" ->
            IF b = 1 THEN Size(p, u, i) - (IF Rank(Mem(p, i), u) = 0 THEN 1 ELSE 0) ELSE 2
      [] p[i].kind = "allgather" ->
            IF b = 3 THEN 1
            ELSE Len(BcastSteps(Rank(Mem(p, i), u), Cardinality(Mem(p, i)), 0)) + 2 - b
      [] OTHER -> 1

\* The step with l left is a send to u, or a reception from v.
SendsTo(p, v, i, l, u) == StepAt(p, v, i, l).do = "send" /\ StepAt(p, v, i, l).peer = Rank(Mem(p, i), u)
ReceivesFrom(p, u, i, l, v) == StepAt(p, u, i, l).do = "recv" /\ StepAt(p, u, i, l).peer = Rank(Mem(p, i), v)

-----------------------------------------------------------------------------
(* The state, as three functions tell it: ids[c] is the id of what c made,  *)
(* left[u][i] the number of steps left of u in i, over[i] the number of     *)
(* barriers of i that have been completed.  Operations on a team that could *)
(* not be made have all their steps left for ever.                          *)

\* The team of operation i exists or has existed; its id; the teams that have one.
Live(p, ids, i) == p[i].on = 0 \/ ids[p[i].on] # NoTeam
TeamId(ids, c) == IF c = 0 THEN TeamAll ELSE ids[c]
Teams(p, ids) == {0} \union {c \in DOMAIN p : p[c].kind = "create" /\ ids[c] # NoTeam}

\* v has sent to u in operation i; u has received from v.
Sent(p, left, v, i, u) == \E l \in 1 .. Size(p, v, i) : left[v][i] < l /\ SendsTo(p, v, i, l, u)
Got(p, left, u, i, v) == \E l \in 1 .. Size(p, u, i) : left[u][i] < l /\ ReceivesFrom(p, u, i, l, v)

\* Team c has lost its slot; u has unlinked its FIFOs; u has its FIFOs in team c.
Deleted(p, left, c) ==
    \E d \in DOMAIN p : p[d].kind = "destroy" /\ p[d].on = c /\ left[Maker(p, c)][d] < 1
Unlinked(p, left, c, u) ==
    \E d \in DOMAIN p : p[d].kind = "destroy" /\ p[d].on = c /\ left[u][d] < BarLeft(p, u, d, 2) + 1
There(p, left, c, u) == (c = 0 \/ left[u][c] < 2) /\ ~Unlinked(p, left, c, u)

\* Lock c has been given back.
Dropped(p, left, c) ==
    \E d \in DOMAIN p : p[d].kind = "lockfree" /\ p[d].arg = c /\ left[Maker(p, c)][d] < 2

\* u has been told, in its message buffer, what operation c has made.
Informed(p, left, u, c) ==
    left[u][c] < IF u = Maker(p, c) THEN MakeLeft(p, c) ELSE 3

\* What a message tells of the id that operation c has made: none without a slot.
Told(p, c, m) ==
    IF m.id \in Ids(p, c) /\ (p[c].kind = "create" => m.slot # NoSlot) THEN m.id ELSE NoTeam

\* Messages, steps and groups.
Message == [op : Nat, newid : Int, id : Int, size : Int, slot : Int]
StepNames == {"find", "await", "wait", "send", "recv", "newteam", "init", "unlink", "delteam",
              "takelock", "setlock", "droplock", "lost"}
StepRec == [do : StepNames, peer : Int, newid : Int]
GroupRec == [nmem : Int, g2l : [Units -> Int], l2g : [Units -> Int]]

\* A message of operation i for u.
MessageOK(p, ids, i, u, m) ==
    /\ p[i].kind \in {"create", "lockinit"} => Told(p, i, m) = ids[i]
    /\ p[i].kind = "lockinit" => m.id \in 0 .. MaxLocks
    /\ p[i].kind = "create" =>
        /\ m.size = Cardinality(For(p, i)) /\ m.newid = Rank(For(p, i), u)
        /\ m.slot # NoSlot => m.id \in Ids(p, i)

-----------------------------------------------------------------------------
(* Ranks.                                                                  *)

\* The units are the numbers from 0 on (dart_init gives unit i the number i).
LEMMA UnitsFinite ==
    /\ IsFiniteSet(Units) /\ Cardinality(Units) \in Nat \ {0}
    /\ Units = 0 .. Cardinality(Units) - 1 /\ Units \subseteq Nat
<1>1. IsFiniteSet(Units) /\ Cardinality(Units) \in Nat
  BY UnitsAssumption, FS_CardinalityType
<1>2. Cardinality(Units) # 0
  BY UnitsAssumption, FS_EmptySet
<1>. QED  BY <1>1, <1>2, UnitsAssumption

\* The ranks in a finite set of numbers go up with them.
LEMMA RankOrder ==
    ASSUME NEW S \in SUBSET Int, IsFiniteSet(S)
    PROVE  /\ Cardinality(S) \in Nat
           /\ \A v \in S : Rank(S, v) \in 0 .. Cardinality(S) - 1
           /\ \A v, w \in S : v < w => Rank(S, v) < Rank(S, w)
           /\ \A v, w \in S : Rank(S, v) = Rank(S, w) => v = w
<1>0. \A v \in S : v \in Int
  OBVIOUS
<1>. DEFINE B(v) == {w \in S : w < v}
<1>1. Cardinality(S) \in Nat
  BY FS_CardinalityType
<1>2. \A v \in S : IsFiniteSet(B(v)) /\ Cardinality(B(v)) \in Nat /\ Cardinality(B(v)) <= Cardinality(S)
  <2>. SUFFICES ASSUME NEW v \in S PROVE IsFiniteSet(B(v)) /\ Cardinality(B(v)) \in Nat /\ Cardinality(B(v)) <= Cardinality(S)
    OBVIOUS
  <2>1. B(v) \in SUBSET S
    OBVIOUS
  <2>. QED  BY <2>1, FS_Subset, FS_CardinalityType
<1>3. ASSUME NEW v \in S PROVE Rank(S, v) \in 0 .. Cardinality(S) - 1
  <2>1. B(v) # S /\ B(v) \in SUBSET S
    BY <1>0
  <2>2. Cardinality(B(v)) # Cardinality(S)
    BY <2>1, FS_Subset
  <2>. QED  BY <1>1, <1>2, <2>2 DEF Rank
<1>4. ASSUME NEW v \in S, NEW w \in S, v < w PROVE Rank(S, v) < Rank(S, w)
  <2>0. v \in Int /\ w \in Int
    BY <1>0
  <2>1. B(v) \in SUBSET B(w) /\ v \in B(w) /\ v \notin B(v)
    <3>1. \A x \in S : x < v => x < w
      BY <1>0, <1>4, <2>0
    <3>2. v < w /\ ~ (v < v)
      BY <1>4, <2>0
    <3>. QED  BY <3>1, <3>2
  <2>2. Cardinality(B(v)) <= Cardinality(B(w)) /\ Cardinality(B(v)) # Cardinality(B(w))
    BY <1>2, <2>1, FS_Subset
  <2>. QED  BY <1>2, <2>2 DEF Rank
<1>5. ASSUME NEW v \in S, NEW w \in S, Rank(S, v) = Rank(S, w) PROVE v = w
  <2>1. CASE v < w
    BY <2>1, <1>3, <1>4, <1>5
  <2>2. CASE w < v
    BY <2>2, <1>3, <1>4, <1>5
  <2>. QED  BY <1>0, <2>1, <2>2
<1>. QED  BY <1>1, <1>3, <1>4, <1>5

\* Every number below the size is a rank.
LEMMA RankOnto ==
    ASSUME NEW S \in SUBSET Int, IsFiniteSet(S)
    PROVE  \A k \in 0 .. Cardinality(S) - 1 : \E v \in S : Rank(S, v) = k
<1>. DEFINE n == Cardinality(S)
            N == 0 .. n - 1
            f == [v \in S |-> Rank(S, v)]
<1>1. n \in Nat /\ f \in [S -> N] /\ \A v, w \in S : f[v] = f[w] => v = w
  BY RankOrder
<1>2. IsFiniteSet(N) /\ Cardinality(N) = n
  <2>1. 0 \in Int /\ n - 1 \in Int
    BY <1>1
  <2>. QED  BY <1>1, <2>1, FS_Interval
<1>3. f \in Injection(S, N)
  <2>. HIDE DEF f, N
  <2>. QED  BY <1>1, Fun_IsInj
<1>4. f \in Surjection(S, N)
  <2>. HIDE DEF f, N
  <2>. QED  BY <1>2, <1>3, FS_Injection
<1>5. \A k \in N : \E v \in S : f[v] = k
  <2>. HIDE DEF f, N
  <2>. QED  BY <1>4, Fun_SurjectionProperties
<1>. QED  BY <1>5

\* The least element has rank 0.
LEMMA RankOfMin ==
    ASSUME NEW S \in SUBSET Int, IsFiniteSet(S), S # {}
    PROVE  /\ Min(S) \in S /\ Rank(S, Min(S)) = 0
           /\ \A v \in S : Rank(S, v) = 0 <=> v = Min(S)
           /\ \A v \in S : Min(S) <= v
<1>. \A v \in S : v \in Int
  OBVIOUS
<1>0. Cardinality(S) \in Nat \ {0}
  BY FS_EmptySet, FS_CardinalityType
<1>1. PICK v \in S : Rank(S, v) = 0
  BY <1>0, RankOnto
<1>2. \A w \in S : v <= w
  <2>. SUFFICES ASSUME NEW w \in S, w < v PROVE FALSE
    OBVIOUS
  <2>. QED  BY <1>1, RankOrder
<1>3. Min(S) \in S /\ \A w \in S : Min(S) <= w
  BY <1>2 DEF Min
<1>4. Min(S) = v
  <2>1. v <= Min(S) /\ Min(S) <= v /\ v \in Int /\ Min(S) \in Int
    BY <1>2, <1>3
  <2>. QED  BY <2>1
<1>. QED  BY <1>1, <1>3, <1>4, RankOrder

\* In Team::All the local id of a unit is its number.
LEMMA RankOfUnit == \A u \in Units : Rank(Units, u) = u
<1>. SUFFICES ASSUME NEW u \in Units PROVE Rank(Units, u) = u
  OBVIOUS
<1>1. {w \in Units : w < u} = 0 .. u - 1
  BY UnitsFinite
<1>2. Cardinality(0 .. u - 1) = u
  <2>1. u \in Nat /\ u - 1 \in Int /\ 0 \in Int
    BY UnitsFinite
  <2>2. Cardinality(0 .. u - 1) = IF 0 > u - 1 THEN 0 ELSE u - 1 - 0 + 1
    BY <2>1, FS_Interval
  <2>. QED  BY <2>1, <2>2
<1>. QED  BY <1>1, <1>2 DEF Rank

-----------------------------------------------------------------------------
(* The members of a set in ascending order.                                *)

\* A function from 1 .. n to itself that goes up is the identity.
LEMMA AscendingIdentity ==
    ASSUME NEW n \in Nat, NEW g \in [1 .. n -> 1 .. n], \A j, k \in 1 .. n : j < k => g[j] < g[k]
    PROVE  \A k \in 1 .. n : g[k] = k
<1>. DEFINE Up == {k \in Nat : k \in 1 .. n => k <= g[k]}
            Down == {k \in Nat : k \in 0 .. n - 1 => g[n - k] <= n - k}
<1>1. \A k \in Nat : k \in Up
  <2>1. 0 \in Up
    OBVIOUS
  <2>2. ASSUME NEW k \in Nat, k \in Up PROVE k + 1 \in Up
    <3>. SUFFICES ASSUME k + 1 \in 1 .. n PROVE k + 1 <= g[k + 1]
      OBVIOUS
    <3>1. CASE k = 0
      BY <3>1
    <3>2. CASE k # 0
      <4>1. k \in 1 .. n /\ k <= g[k] /\ g[k] < g[k + 1]
        BY <2>2, <3>2
      <4>2. g[k] \in Int /\ g[k + 1] \in Int
        BY <4>1
      <4>. QED  BY <4>1, <4>2
    <3>. QED  BY <3>1, <3>2
  <2>. HIDE DEF Up
  <2>. QED  BY <2>1, <2>2, NatSetInduction
<1>2. \A k \in Nat : k \in Down
  <2>1. 0 \in Down
    OBVIOUS
  <2>2. ASSUME NEW k \in Nat, k \in Down PROVE k + 1 \in Down
    <3>. SUFFICES ASSUME k + 1 \in 0 .. n - 1 PROVE g[n - (k + 1)] <= n - (k + 1)
      OBVIOUS
    <3>1. n - k \in 1 .. n /\ n - (k + 1) \in 1 .. n /\ n - (k + 1) < n - k
      OBVIOUS
    <3>2. g[n - (k + 1)] < g[n - k] /\ g[n - k] <= n - k
      BY <2>2, <3>1
    <3>3. g[n - (k + 1)] \in Int /\ g[n - k] \in Int
      BY <3>1
    <3>. QED  BY <3>2, <3>3
  <2>. HIDE DEF Down
  <2>. QED  BY <2>1, <2>2, NatSetInduction
<1>3. ASSUME NEW k \in 1 .. n PROVE g[k] = k
  <2>1. k <= g[k]
    BY <1>1
  <2>2. n - k \in Nat /\ n - k \in 0 .. n - 1 /\ n - (n - k) = k
    OBVIOUS
  <2>3. g[k] <= k
    <3>1. n - k \in Down
      BY <1>2, <2>2
    <3>. QED  BY <3>1, <2>2
  <2>4. g[k] \in Int
    OBVIOUS
  <2>. QED  BY <2>1, <2>3, <2>4
<1>. QED  BY <1>3

\* Ascending lists the members by rank.
LEMMA AscendingIs ==
    ASSUME NEW S \in SUBSET Int, IsFiniteSet(S)
    PROVE  /\ Ascending(S) \in [1 .. Cardinality(S) -> S]
           /\ \A k \in 1 .. Cardinality(S) : Rank(S, Ascending(S)[k]) = k - 1
           /\ \A v \in S : Rank(S, v) + 1 \in 1 .. Cardinality(S) /\ Ascending(S)[Rank(S, v) + 1] = v
<1>. DEFINE n == Cardinality(S)
            Up(f) == \A j, k \in DOMAIN f : j < k => f[j] < f[k]
            at == [k \in 1 .. n |-> CHOOSE v \in S : Rank(S, v) = k - 1]
            A == Ascending(S)
<1>1. n \in Nat
  BY RankOrder
<1>2. at \in [1 .. n -> S] /\ \A k \in 1 .. n : Rank(S, at[k]) = k - 1
  <2>. SUFFICES ASSUME NEW k \in 1 .. n PROVE at[k] \in S /\ Rank(S, at[k]) = k - 1
    OBVIOUS
  <2>1. k - 1 \in 0 .. n - 1
    BY <1>1
  <2>2. \E v \in S : Rank(S, v) = k - 1
    BY <2>1, RankOnto
  <2>. QED  BY <2>2
<1>3. Up(at)
  <2>. SUFFICES ASSUME NEW j \in 1 .. n, NEW k \in 1 .. n, j < k PROVE at[j] < at[k]
    OBVIOUS
  <2>. HIDE DEF at
  <2>1. at[j] \in S /\ at[k] \in S /\ Rank(S, at[j]) = j - 1 /\ Rank(S, at[k]) = k - 1
    BY <1>2
  <2>2. CASE at[j] = at[k]
    BY <2>1, <2>2
  <2>3. CASE at[k] < at[j]
    <3>1. Rank(S, at[k]) < Rank(S, at[j])
      BY <2>1, <2>3, RankOrder
    <3>. QED  BY <2>1, <3>1
  <2>4. at[j] \in Int /\ at[k] \in Int
    BY <2>1
  <2>. QED  BY <2>1, <2>2, <2>3, <2>4
<1>4. A \in [1 .. n -> S] /\ Up(A)
  <2>1. \E f \in [1 .. n -> S] : Up(f)
    <3>. HIDE DEF at
    <3>. QED  BY <1>2, <1>3
  <2>. QED  BY <2>1 DEF Ascending
<1>. DEFINE g == [k \in 1 .. n |-> Rank(S, A[k]) + 1]
<1>5. g \in [1 .. n -> 1 .. n] /\ \A j, k \in 1 .. n : j < k => g[j] < g[k]
  <2>. HIDE DEF A
  <2>1. \A k \in 1 .. n : A[k] \in S /\ Rank(S, A[k]) \in 0 .. n - 1
    BY <1>4, RankOrder
  <2>2. ASSUME NEW j \in 1 .. n, NEW k \in 1 .. n, j < k PROVE Rank(S, A[j]) < Rank(S, A[k])
    <3>1. A[j] < A[k]
      BY <1>4, <2>2
    <3>. QED  BY <3>1, <2>1, RankOrder
  <2>. QED  BY <1>1, <2>1, <2>2
<1>6. \A k \in 1 .. n : g[k] = k
  <2>. HIDE DEF g
  <2>. QED  BY <1>1, <1>5, AscendingIdentity
<1>7. \A k \in 1 .. n : Rank(S, A[k]) = k - 1
  <2>. SUFFICES ASSUME NEW k \in 1 .. n PROVE Rank(S, A[k]) = k - 1
    OBVIOUS
  <2>1. Rank(S, A[k]) \in Int
    <3>. HIDE DEF A
    <3>1. A[k] \in S
      BY <1>4
    <3>2. Rank(S, A[k]) \in 0 .. Cardinality(S) - 1
      BY <3>1, RankOrder
    <3>. QED  BY <3>2
  <2>2. Rank(S, A[k]) + 1 = k
    BY <1>6
  <2>. QED  BY <2>1, <2>2
<1>8. ASSUME NEW v \in S PROVE Rank(S, v) + 1 \in 1 .. n /\ A[Rank(S, v) + 1] = v
  <2>. HIDE DEF A
  <2>. DEFINE k == Rank(S, v) + 1
  <2>1. k \in 1 .. n /\ k - 1 = Rank(S, v)
    BY <1>1, RankOrder
  <2>2. A[k] \in S /\ Rank(S, A[k]) = Rank(S, v)
    BY <1>4, <1>7, <2>1
  <2>3. \A w \in S : Rank(S, w) = Rank(S, v) => w = v
    BY RankOrder
  <2>4. A[k] = v
    <3>. HIDE DEF k
    <3>. QED  BY <2>2, <2>3
  <2>. QED  BY <2>1, <2>4
<1>. QED  BY <1>4, <1>7, <1>8

-----------------------------------------------------------------------------
(* Groups.                                                                 *)

\* A group as the operations find it: any numbers in its tables.
LEMMA GroupTypes ==
    ASSUME NEW g
    PROVE  /\ MembersOf(g) \in SUBSET Units /\ MembersOf(g) \in SUBSET Int
           /\ IsFiniteSet(MembersOf(g)) /\ Cardinality(MembersOf(g)) \in Nat
           /\ Cardinality(MembersOf(g)) <= Cardinality(Units)
<1>1. MembersOf(g) \in SUBSET Units
  BY DEF MembersOf
<1>2. MembersOf(g) \in SUBSET Int
  BY <1>1, UnitsFinite
<1>. QED  BY <1>1, <1>2, UnitsFinite, FS_Subset, FS_CardinalityType

\* The place of a member in the list of all is its rank and one.
LEMMA PlaceInOrder ==
    ASSUME NEW S \in SUBSET Int, IsFiniteSet(S), NEW v \in S
    PROVE  SelectInSeq(Ascending(S), LAMBDA w : w = v) = Rank(S, v) + 1
<1>. DEFINE n == Cardinality(S)
            A == Ascending(S)
            r == Rank(S, v) + 1
            I == {i \in 1 .. Len(A) : A[i] = v}
<1>1. n \in Nat /\ A \in [1 .. n -> S] /\ r \in 1 .. n /\ A[r] = v
  BY RankOrder, AscendingIs
<1>2. Len(A) = n
  <2>. HIDE DEF A
  <2>. QED  BY <1>1
<1>3. \A i \in 1 .. n : A[i] = v => i = r
  <2>. SUFFICES ASSUME NEW i \in 1 .. n, A[i] = v PROVE i = r
    OBVIOUS
  <2>1. Rank(S, A[i]) = i - 1
    BY AscendingIs
  <2>2. Rank(S, v) = i - 1 /\ Rank(S, v) \in Int
    BY <2>1, RankOrder
  <2>. QED  BY <2>2
<1>4. I = {r}
  <2>. HIDE DEF A, r
  <2>. QED  BY <1>1, <1>2, <1>3
<1>5. SelectInSeq(A, LAMBDA w : w = v) = IF I # {} THEN Min(I) ELSE 0
  BY DEF SelectInSeq
<1>6. r \in Int
  BY <1>1
<1>7. Min({r}) = r
  <2>. HIDE DEF r
  <2>. QED  BY <1>6 DEF Min
<1>. HIDE DEF I, A, r
<1>. QED  BY <1>4, <1>5, <1>7 DEF r, A

\* group_rebuild leaves the members as they are and numbers them.
THEOREM RebuildRanks ==
    ASSUME NEW g, g.g2l \in [Units -> Int], g.l2g \in [Units -> Int]
    PROVE  MembersOf(Rebuild(g)) = MembersOf(g) /\ GroupOK(Rebuild(g))
<1>. DEFINE S == MembersOf(g)
            n == Cardinality(S)
            A == Ascending(S)
            h == Rebuild(g)
<1>1. S \in SUBSET Units /\ S \in SUBSET Int /\ IsFiniteSet(S) /\ n \in Nat /\ n <= Cardinality(Units)
  BY GroupTypes
<1>2. A \in [1 .. n -> S] /\ \A v \in S : Rank(S, v) \in 0 .. n - 1 /\ A[Rank(S, v) + 1] = v
  <2>. HIDE DEF S
  <2>. QED  BY <1>1, AscendingIs, RankOrder
<1>3. Len(A) = n
  <2>. HIDE DEF A, S, n
  <2>. QED  BY <1>1, <1>2
<1>4. /\ h = [nmem |-> n, g2l |-> h.g2l, l2g |-> h.l2g]
      /\ h.g2l = [v \in Units |-> IF v \in S THEN SelectInSeq(A, LAMBDA w : w = v) - 1 ELSE g.g2l[v]]
      /\ h.l2g = [l \in Units |-> IF l < n THEN A[l + 1] ELSE g.l2g[l]]
  <2>. HIDE DEF A, S, n
  <2>. QED  BY <1>3 DEF Rebuild, A, S
<1>5. \A v \in S : h.g2l[v] = Rank(S, v)
  <2>. SUFFICES ASSUME NEW v \in S PROVE h.g2l[v] = Rank(S, v)
    OBVIOUS
  <2>1. SelectInSeq(A, LAMBDA w : w = v) = Rank(S, v) + 1
    <3>. HIDE DEF S
    <3>. QED  BY <1>1, PlaceInOrder
  <2>2. Rank(S, v) \in Int
    BY <1>2
  <2>3. v \in Units
    BY <1>1
  <2>4. h.g2l[v] = SelectInSeq(A, LAMBDA w : w = v) - 1
    <3>. HIDE DEF S, A, h
    <3>. QED  BY <1>4, <2>3
  <2>. HIDE DEF S, A, h
  <2>. QED  BY <2>1, <2>2, <2>4
<1>6. \A v \in Units : v \notin S => h.g2l[v] = g.g2l[v]
  <2>. HIDE DEF S, A, h
  <2>. QED  BY <1>4
<1>7. \A l \in Units : h.l2g[l] = IF l < n THEN A[l + 1] ELSE g.l2g[l]
  <2>. HIDE DEF S, A, h, n
  <2>. QED  BY <1>4
<1>8. MembersOf(h) = S
  <2>1. \A v \in Units : v \in S => h.g2l[v] >= 0
    <3>. HIDE DEF S, A, h, n
    <3>. QED  BY <1>1, <1>2, <1>5
  <2>2. \A v \in Units : v \notin S => ~ (h.g2l[v] >= 0)
    <3>1. \A v \in Units : v \notin S => ~ (g.g2l[v] >= 0)
      BY DEF MembersOf
    <3>. HIDE DEF S, A, h, n
    <3>. QED  BY <1>6, <3>1
  <2>. HIDE DEF S, h
  <2>. QED  BY <1>1, <2>1, <2>2 DEF MembersOf
<1>9. \A v \in S : h.l2g[Rank(S, v)] = v
  <2>. SUFFICES ASSUME NEW v \in S PROVE h.l2g[Rank(S, v)] = v
    OBVIOUS
  <2>1. Rank(S, v) \in 0 .. n - 1 /\ A[Rank(S, v) + 1] = v
    BY <1>2
  <2>2. Rank(S, v) \in Units /\ Rank(S, v) < n
    <3>. HIDE DEF S, n
    <3>. QED  BY <1>1, <2>1, UnitsFinite
  <2>. HIDE DEF S, A, h, n
  <2>. QED  BY <1>7, <2>1, <2>2
<1>10. h.g2l \in [Units -> Int] /\ h.l2g \in [Units -> Int]
  <2>1. \A v \in Units : h.g2l[v] \in Int
    <3>. HIDE DEF S, A, h, n
    <3>. QED  BY <1>1, <1>2, <1>5, <1>6
  <2>2. \A l \in Units : h.l2g[l] \in Int
    <3>1. \A l \in Units : l < n => A[l + 1] \in Int
      <4>. HIDE DEF S, A, n
      <4>1. \A l \in Units : l < n => l + 1 \in 1 .. n
        BY <1>1, UnitsFinite
      <4>. QED  BY <1>1, <1>2, <4>1
    <3>. HIDE DEF S, A, h, n
    <3>. QED  BY <1>7, <3>1
  <2>3. h.g2l = [v \in Units |-> h.g2l[v]] /\ h.l2g = [l \in Units |-> h.l2g[l]]
    <3>. HIDE DEF S, A, h, n
    <3>. QED  BY <1>4
  <2>. HIDE DEF h
  <2>. QED  BY <2>1, <2>2, <2>3
<1>. HIDE DEF h
<1>11. n = Cardinality(MembersOf(h))
  BY <1>8
<1>12. GroupOK(h)
  <2>. HIDE DEF S
  <2>. QED  BY <1>4, <1>5, <1>8, <1>9, <1>10, <1>11 DEF GroupOK
<1>. QED  BY <1>8, <1>12 DEF h

\* The tables of a group that dart_group_init and addmember filled: the size, and
\* local ids and units that are inverse to each other.
LEMMA GroupOKType ==
    ASSUME NEW g, GroupOK(g)
    PROVE  /\ g \in GroupRec /\ g.nmem = Cardinality(MembersOf(g))
           /\ \A v \in MembersOf(g) :
                  /\ g.g2l[v] = Rank(MembersOf(g), v) /\ g.l2g[Rank(MembersOf(g), v)] = v
                  /\ Rank(MembersOf(g), v) \in 0 .. Cardinality(MembersOf(g)) - 1
<1>1. Cardinality(MembersOf(g)) \in Int
  BY GroupTypes
<1>2. \A v \in MembersOf(g) : Rank(MembersOf(g), v) \in 0 .. Cardinality(MembersOf(g)) - 1
  BY GroupTypes, RankOrder
<1>3. /\ g = [nmem |-> Cardinality(MembersOf(g)), g2l |-> g.g2l, l2g |-> g.l2g]
      /\ g.g2l \in [Units -> Int] /\ g.l2g \in [Units -> Int]
  BY DEF GroupOK
<1>4. g \in GroupRec /\ g.nmem = Cardinality(MembersOf(g))
  <2>. DEFINE n == Cardinality(MembersOf(g))
              a == g.g2l
              b == g.l2g
  <2>1. g = [nmem |-> n, g2l |-> a, l2g |-> b] /\ n \in Int /\ a \in [Units -> Int] /\ b \in [Units -> Int]
    BY <1>1, <1>3
  <2>. HIDE DEF n, a, b
  <2>2. g \in GroupRec /\ g.nmem = n
    BY <2>1 DEF GroupRec
  <2>. QED  BY <2>2 DEF n
<1>. QED  BY <1>2, <1>4 DEF GroupOK

\* Adding a member.
LEMMA AddMemberRanks ==
    ASSUME NEW g \in GroupRec, NEW v \in Units
    PROVE  /\ GroupOK(AddMember(g, v)) /\ AddMember(g, v) \in GroupRec
           /\ MembersOf(AddMember(g, v)) = MembersOf(g) \union {v}
<1>. DEFINE h == [g EXCEPT !.g2l[v] = 1]
<1>1. h.g2l \in [Units -> Int] /\ h.l2g \in [Units -> Int]
  BY DEF GroupRec
<1>2. MembersOf(h) = MembersOf(g) \union {v}
  BY DEF GroupRec, MembersOf
<1>3. MembersOf(Rebuild(h)) = MembersOf(h) /\ GroupOK(Rebuild(h))
  <2>. HIDE DEF h
  <2>. QED  BY <1>1, RebuildRanks
<1>. HIDE DEF h
<1>4. AddMember(g, v) = Rebuild(h)
  BY DEF AddMember, h
<1>. QED  BY <1>2, <1>3, <1>4, GroupOKType

\* Adding and removing a member, union and intersection (dart_groups_impl.c)
\* give a group with the members their name says, whose tables translate
\* global into local ids and back in ascending order, as dart_groups.h
\* guarantees.  How dart_group_split cuts the members is left to TLC.
THEOREM GroupsAreRanked ==
    ASSUME NEW g, NEW h, NEW gout, GroupOK(g), GroupOK(h), GroupOK(gout), NEW v \in Units
    PROVE  /\ GroupOK(AddMember(g, v)) /\ MembersOf(AddMember(g, v)) = MembersOf(g) \union {v}
           /\ GroupOK(DelMember(g, v)) /\ MembersOf(DelMember(g, v)) = MembersOf(g) \ {v}
           /\ GroupOK(GroupUnion(g, h, gout))
           /\ MembersOf(GroupUnion(g, h, gout)) = MembersOf(g) \union MembersOf(h)
           /\ GroupOK(GroupIntersect(g, h, gout))
           /\ MembersOf(GroupIntersect(g, h, gout)) = MembersOf(g) \intersect MembersOf(h)
<1>1. g \in GroupRec /\ gout \in GroupRec
  BY GroupOKType
<1>2. GroupOK(AddMember(g, v)) /\ MembersOf(AddMember(g, v)) = MembersOf(g) \union {v}
  BY <1>1, AddMemberRanks
<1>3. GroupOK(DelMember(g, v)) /\ MembersOf(DelMember(g, v)) = MembersOf(g) \ {v}
  <2>. DEFINE k == [g EXCEPT !.g2l[v] = -1]
  <2>1. k.g2l \in [Units -> Int] /\ k.l2g \in [Units -> Int]
    BY <1>1 DEF GroupRec
  <2>2. MembersOf(k) = MembersOf(g) \ {v}
    BY <1>1 DEF GroupRec, MembersOf
  <2>3. MembersOf(Rebuild(k)) = MembersOf(k) /\ GroupOK(Rebuild(k))
    <3>. HIDE DEF k
    <3>. QED  BY <2>1, RebuildRanks
  <2>. QED  BY <2>2, <2>3 DEF DelMember
<1>4. ASSUME NEW S \in SUBSET Units
      PROVE  GroupOK(Marked(gout, S)) /\ MembersOf(Marked(gout, S)) = S
  <2>. DEFINE k == [gout EXCEPT !.g2l = [w \in Units |-> IF w \in S THEN 1 ELSE Nobody]]
  <2>1. k.g2l \in [Units -> Int] /\ k.l2g \in [Units -> Int]
    BY <1>1 DEF GroupRec, Nobody
  <2>2. MembersOf(k) = S
    BY <1>1 DEF GroupRec, MembersOf, Nobody
  <2>3. MembersOf(Rebuild(k)) = MembersOf(k) /\ GroupOK(Rebuild(k))
    <3>. HIDE DEF k
    <3>. QED  BY <2>1, RebuildRanks
  <2>. QED  BY <2>2, <2>3 DEF Marked
<1>5. MembersOf(g) \union MembersOf(h) \in SUBSET Units /\ MembersOf(g) \intersect MembersOf(h) \in SUBSET Units
  BY DEF MembersOf
<1>. QED  BY <1>2, <1>3, <1>4, <1>5 DEF GroupUnion, GroupIntersect

\* The world's group, made by adding one unit after the other, is of all units.
LEMMA WorldGroupRanks == GroupOK(WorldGroup) /\ MembersOf(WorldGroup) = Units
<1>. DEFINE n == Cardinality(Units)
            A == Ascending(Units)
            V == GroupRec
            next(i, g) == AddMember(g, A[i])
            step == [p \in (1 .. n) \X V |-> next(p[1], p[2])]
            Body(h) == [t \in SUBSET (1 .. n) |->
                IF t = {} THEN EmptyGroup ELSE next(Max(t), h[t \ {Max(t)}])]
            fold == CHOOSE h : h = Body(h)
<1>0. Units \in SUBSET Int
  BY UnitsFinite
<1>1. n \in Nat /\ n # 0 /\ A \in [1 .. n -> Units]
  <2>1. A \in [1 .. n -> Units]
    BY <1>0, UnitsFinite, AscendingIs
  <2>. QED  BY <2>1, UnitsFinite
<1>2. WorldGroup = fold[1 .. n]
  <2>1. DOMAIN A = 1 .. n
    <3>. HIDE DEF A
    <3>. QED  BY <1>1
  <2>. QED  BY <2>1 DEF WorldGroup, FoldLeft, MapThenFoldSet
<1>3. EmptyGroup \in V /\ MembersOf(EmptyGroup) = {}
  BY DEF EmptyGroup, GroupRec, MembersOf, Nobody
<1>. HIDE DEF A
<1>4. step \in [(1 .. n) \X V -> V]
  <2>1. ASSUME NEW i \in 1 .. n, NEW g \in V PROVE next(i, g) \in V
    <3>1. A[i] \in Units
      BY <1>1
    <3>. QED  BY <3>1, AddMemberRanks
  <2>. HIDE DEF next, V, n
  <2>. QED  BY <2>1
<1>5. \E h : h = Body(h)
  <2>2. PICK h \in [SUBSET (1 .. n) -> V] : Folds(h, n, EmptyGroup, step)
    <3>. HIDE DEF n, V, step
    <3>. QED  BY <1>1, <1>3, <1>4, FoldExists, Zenon
  <2>3. ASSUME NEW t \in SUBSET (1 .. n) PROVE h[t] = Body(h)[t]
    <3>1. CASE t # {}
      <4>1. Max(t) \in 1 .. n /\ h[t \ {Max(t)}] \in V
        BY <1>1, <3>1, GreatestPosition, Zenon
      <4>2. step[<<Max(t), h[t \ {Max(t)}]>>] = next(Max(t), h[t \ {Max(t)}])
        <5>. HIDE DEF next, V, n
        <5>. QED  BY <4>1
      <4>. HIDE DEF step, next, V
      <4>. QED  BY <2>2, <3>1, <4>2 DEF Folds
    <3>2. CASE t = {}
      BY <2>2, <3>2, Zenon DEF Folds
    <3>. QED  BY <3>1, <3>2
  <2>4. h = Body(h)
    BY <2>3, Zenon
  <2>. HIDE DEF Body
  <2>. QED  BY <2>4
<1>6. fold = Body(fold)
  <2>. HIDE DEF Body
  <2>. QED  BY <1>5
<1>. DEFINE P == {t \in SUBSET (1 .. n) :
                   /\ fold[t] \in GroupRec
                   /\ t # {} => GroupOK(fold[t])
                   /\ MembersOf(fold[t]) = {A[i] : i \in t}}
<1>. HIDE DEF fold
<1>7. {} \in P
  <2>1. fold[{}] = EmptyGroup
    BY <1>6, Zenon
  <2>. QED  BY <1>3, <2>1
<1>8. ASSUME NEW t \in SUBSET (1 .. n), t # {}, t \ {Max(t)} \in P
      PROVE  t \in P
  <2>. DEFINE i == Max(t)
              g == fold[t \ {i}]
  <2>1. i \in t
    BY <1>1, <1>8, GreatestPosition, Zenon
  <2>2. fold[t] = AddMember(g, A[i])
    BY <1>6, <1>8, Zenon
  <2>3. g \in GroupRec /\ MembersOf(g) = {A[j] : j \in t \ {i}}
    BY <1>8
  <2>. HIDE DEF i, g
  <2>4. A[i] \in Units
    BY <1>1, <2>1
  <2>5. /\ GroupOK(AddMember(g, A[i])) /\ AddMember(g, A[i]) \in GroupRec
        /\ MembersOf(AddMember(g, A[i])) = MembersOf(g) \union {A[i]}
    BY <2>3, <2>4, AddMemberRanks
  <2>6. {A[j] : j \in t} = {A[j] : j \in t \ {i}} \union {A[i]}
    BY <2>1
  <2>. QED  BY <2>2, <2>3, <2>5, <2>6
<1>9. 1 .. n \in P
  <2>. HIDE DEF P, n
  <2>. QED  BY <1>1, <1>7, <1>8, FoldInduction, Zenon
<1>10. {A[i] : i \in 1 .. n} = Units
  <2>1. \A i \in 1 .. n : A[i] \in Units
    BY <1>1
  <2>2. ASSUME NEW u \in Units PROVE \E i \in 1 .. n : A[i] = u
    <3>. QED  BY <1>0, UnitsFinite, AscendingIs DEF A
  <2>. QED  BY <2>1, <2>2
<1>11. 1 .. n # {}
  BY <1>1
<1>. QED  BY <1>2, <1>9, <1>10, <1>11

-----------------------------------------------------------------------------
(* Lists of steps, seen from their end.                                    *)

\* The steps of two lists put together, seen from their end.
LEMMA LeftOfConcat ==
    ASSUME NEW s \in Seq(StepRec), NEW t \in Seq(StepRec)
    PROVE  /\ s \o t \in Seq(StepRec) /\ Len(s) \in Nat /\ Len(t) \in Nat
           /\ Len(s \o t) = Len(s) + Len(t)
           /\ \A l \in 1 .. Len(s) + Len(t) :
                  LeftOf(s \o t, l) = IF l <= Len(t) THEN LeftOf(t, l) ELSE LeftOf(s, l - Len(t))
<1>1. /\ s \o t \in Seq(StepRec) /\ Len(s) \in Nat /\ Len(t) \in Nat
      /\ Len(s \o t) = Len(s) + Len(t)
      /\ \A i \in 1 .. Len(s) + Len(t) : (s \o t)[i] = IF i <= Len(s) THEN s[i] ELSE t[i - Len(s)]
  BY ConcatProperties, LenProperties
<1>. DEFINE a == Len(s)
            b == Len(t)
            c == s \o t
<1>2. ASSUME NEW l \in 1 .. a + b
      PROVE  LeftOf(c, l) = IF l <= b THEN LeftOf(t, l) ELSE LeftOf(s, l - b)
  <2>1. a \in Nat /\ b \in Nat /\ Len(c) = a + b /\ a + b - l + 1 \in 1 .. a + b
    BY <1>1
  <2>2. c[a + b - l + 1] = IF a + b - l + 1 <= a THEN s[a + b - l + 1] ELSE t[a + b - l + 1 - a]
    BY <1>1, <2>1
  <2>3. LeftOf(c, l) = c[a + b - l + 1] /\ LeftOf(t, l) = t[b - l + 1] /\ LeftOf(s, l - b) = s[a - (l - b) + 1]
    BY <2>1 DEF LeftOf
  <2>4. a + b - l + 1 - a = b - l + 1 /\ a - (l - b) + 1 = a + b - l + 1
    BY <2>1
  <2>5. (a + b - l + 1 <= a) <=> ~ (l <= b)
    BY <2>1
  <2>. HIDE DEF a, b, c
  <2>6. CASE l <= b
    BY <2>2, <2>3, <2>4, <2>5, <2>6
  <2>7. CASE ~ (l <= b)
    BY <2>2, <2>3, <2>4, <2>5, <2>7
  <2>. QED  BY <2>6, <2>7
<1>. QED  BY <1>1, <1>2

\* The steps of a list that send and receive: each to and from another peer.
Talk(s, to, from) ==
    /\ s \in Seq(StepRec)
    /\ \A l \in 1 .. Len(s) : LeftOf(s, l).do = "send" => LeftOf(s, l).peer \in to
    /\ \A l \in 1 .. Len(s) : LeftOf(s, l).do = "recv" => LeftOf(s, l).peer \in from
    /\ \A x \in to : \E l \in 1 .. Len(s) : LeftOf(s, l).do = "send" /\ LeftOf(s, l).peer = x
    /\ \A x \in from : \E l \in 1 .. Len(s) : LeftOf(s, l).do = "recv" /\ LeftOf(s, l).peer = x
    /\ \A k, l \in 1 .. Len(s) :
           (/\ LeftOf(s, k).do \in {"send", "recv"} /\ LeftOf(s, k).do = LeftOf(s, l).do
            /\ LeftOf(s, k).peer = LeftOf(s, l).peer) => k = l

\* What is found in a list of steps is a step.
LEMMA LeftOfType ==
    ASSUME NEW s \in Seq(StepRec)
    PROVE  Len(s) \in Nat /\ \A l \in 1 .. Len(s) : LeftOf(s, l) \in StepRec
<1>1. Len(s) \in Nat /\ s \in [1 .. Len(s) -> StepRec]
  BY LenProperties
<1>. QED  BY <1>1 DEF LeftOf

\* Two lists put together send to, and receive from, what both do.
LEMMA TalkConcat ==
    ASSUME NEW s, NEW t, NEW A, NEW B, NEW C, NEW D, Talk(s, A, B), Talk(t, C, D),
           A \intersect C = {}, B \intersect D = {}
    PROVE  Talk(s \o t, A \union C, B \union D)
<1>. DEFINE a == Len(s)
            b == Len(t)
            c == s \o t
<1>1. s \in Seq(StepRec) /\ t \in Seq(StepRec)
  BY DEF Talk
<1>2. /\ c \in Seq(StepRec) /\ a \in Nat /\ b \in Nat /\ Len(c) = a + b
      /\ \A l \in 1 .. a + b : LeftOf(c, l) = IF l <= b THEN LeftOf(t, l) ELSE LeftOf(s, l - b)
  BY <1>1, LeftOfConcat
<1>. HIDE DEF a, b, c
<1>3. \A l \in 1 .. Len(c) : \/ l \in 1 .. b /\ LeftOf(c, l) = LeftOf(t, l)
                             \/ l - b \in 1 .. a /\ LeftOf(c, l) = LeftOf(s, l - b)
  BY <1>2
<1>4. \A l \in 1 .. b : l \in 1 .. Len(c) /\ LeftOf(c, l) = LeftOf(t, l)
  BY <1>2
<1>5. \A l \in 1 .. a : l + b \in 1 .. Len(c) /\ LeftOf(c, l + b) = LeftOf(s, l)
  <2>. SUFFICES ASSUME NEW l \in 1 .. a PROVE l + b \in 1 .. Len(c) /\ LeftOf(c, l + b) = LeftOf(s, l)
    OBVIOUS
  <2>1. l + b \in 1 .. a + b /\ ~ (l + b <= b) /\ l + b - b = l
    BY <1>2
  <2>. QED  BY <1>2, <2>1
<1>6. /\ \A l \in 1 .. a : LeftOf(s, l).do = "send" => LeftOf(s, l).peer \in A
      /\ \A l \in 1 .. a : LeftOf(s, l).do = "recv" => LeftOf(s, l).peer \in B
      /\ \A x \in A : \E l \in 1 .. a : LeftOf(s, l).do = "send" /\ LeftOf(s, l).peer = x
      /\ \A x \in B : \E l \in 1 .. a : LeftOf(s, l).do = "recv" /\ LeftOf(s, l).peer = x
      /\ \A k, l \in 1 .. a : (/\ LeftOf(s, k).do \in {"send", "recv"} /\ LeftOf(s, k).do = LeftOf(s, l).do
                               /\ LeftOf(s, k).peer = LeftOf(s, l).peer) => k = l
  BY DEF Talk, a
<1>7. /\ \A l \in 1 .. b : LeftOf(t, l).do = "send" => LeftOf(t, l).peer \in C
      /\ \A l \in 1 .. b : LeftOf(t, l).do = "recv" => LeftOf(t, l).peer \in D
      /\ \A x \in C : \E l \in 1 .. b : LeftOf(t, l).do = "send" /\ LeftOf(t, l).peer = x
      /\ \A x \in D : \E l \in 1 .. b : LeftOf(t, l).do = "recv" /\ LeftOf(t, l).peer = x
      /\ \A k, l \in 1 .. b : (/\ LeftOf(t, k).do \in {"send", "recv"} /\ LeftOf(t, k).do = LeftOf(t, l).do
                               /\ LeftOf(t, k).peer = LeftOf(t, l).peer) => k = l
  BY DEF Talk, b
<1>8. \A l \in 1 .. Len(c) : LeftOf(c, l).do = "send" => LeftOf(c, l).peer \in A \union C
  BY <1>3, <1>6, <1>7
<1>9. \A l \in 1 .. Len(c) : LeftOf(c, l).do = "recv" => LeftOf(c, l).peer \in B \union D
  BY <1>3, <1>6, <1>7
<1>10. \A x \in A \union C : \E l \in 1 .. Len(c) : LeftOf(c, l).do = "send" /\ LeftOf(c, l).peer = x
  <2>1. \A x \in A : \E l \in 1 .. Len(c) : LeftOf(c, l).do = "send" /\ LeftOf(c, l).peer = x
    BY <1>5, <1>6
  <2>2. \A x \in C : \E l \in 1 .. Len(c) : LeftOf(c, l).do = "send" /\ LeftOf(c, l).peer = x
    BY <1>4, <1>7
  <2>. QED  BY <2>1, <2>2
<1>11. \A x \in B \union D : \E l \in 1 .. Len(c) : LeftOf(c, l).do = "recv" /\ LeftOf(c, l).peer = x
  <2>1. \A x \in B : \E l \in 1 .. Len(c) : LeftOf(c, l).do = "recv" /\ LeftOf(c, l).peer = x
    BY <1>5, <1>6
  <2>2. \A x \in D : \E l \in 1 .. Len(c) : LeftOf(c, l).do = "recv" /\ LeftOf(c, l).peer = x
    BY <1>4, <1>7
  <2>. QED  BY <2>1, <2>2
<1>12. ASSUME NEW k \in 1 .. Len(c), NEW l \in 1 .. Len(c),
              LeftOf(c, k).do \in {"send", "recv"}, LeftOf(c, k).do = LeftOf(c, l).do,
              LeftOf(c, k).peer = LeftOf(c, l).peer
       PROVE  k = l
  <2>. DEFINE K == LeftOf(c, k)
              L == LeftOf(c, l)
  <2>1. CASE k \in 1 .. b /\ l \in 1 .. b
    <3>1. K = LeftOf(t, k) /\ L = LeftOf(t, l)
      BY <1>4, <2>1
    <3>. QED  BY <1>7, <1>12, <2>1, <3>1
  <2>2. CASE k - b \in 1 .. a /\ l - b \in 1 .. a
    <3>1. K = LeftOf(s, k - b) /\ L = LeftOf(s, l - b)
      BY <1>2, <1>3, <2>2
    <3>2. k - b = l - b
      BY <1>6, <1>12, <2>2, <3>1
    <3>. QED  BY <1>2, <3>2
  <2>3. CASE k \in 1 .. b /\ l - b \in 1 .. a
    <3>1. K = LeftOf(t, k) /\ L = LeftOf(s, l - b)
      BY <1>2, <1>3, <2>3
    <3>. QED  BY <1>6, <1>7, <1>12, <2>3, <3>1
  <2>4. CASE k - b \in 1 .. a /\ l \in 1 .. b
    <3>1. K = LeftOf(s, k - b) /\ L = LeftOf(t, l)
      BY <1>2, <1>3, <2>4
    <3>. QED  BY <1>6, <1>7, <1>12, <2>4, <3>1
  <2>. QED  BY <1>2, <2>1, <2>2, <2>3, <2>4
<1>. QED  BY <1>2, <1>8, <1>9, <1>10, <1>11, <1>12 DEF Talk, c

\* A step without a partner.
Plain(do) == [do |-> do, peer |-> 0, newid |-> 0]

\* A list of one step that neither sends nor receives.
LEMMA TalkStep ==
    ASSUME NEW do \in StepNames
    PROVE  /\ Step(do) \in Seq(StepRec) /\ Len(Step(do)) = 1 /\ LeftOf(Step(do), 1) = Plain(do)
           /\ LeftOf(Step(do), 1).do = do
           /\ do \notin {"send", "recv"} => Talk(Step(do), {}, {})
<1>1. /\ Step(do) \in Seq(StepRec) /\ Len(Step(do)) = 1 /\ LeftOf(Step(do), 1) = Plain(do)
      /\ LeftOf(Step(do), 1).do = do
  BY DEF Step, StepRec, StepNames, LeftOf, Plain
<1>2. 1 .. Len(Step(do)) = {1}
  BY <1>1
<1>3. ASSUME do \notin {"send", "recv"} PROVE Talk(Step(do), {}, {})
  BY <1>1, <1>2, <1>3 DEF Talk
<1>. QED  BY <1>1, <1>3

\* No steps send nothing.
LEMMA TalkNothing == Talk(<<>>, {}, {}) /\ Len(<<>>) = 0 /\ <<>> \in Seq(StepRec)
  BY DEF Talk

\* A list of one reception.
LEMMA TalkReceive ==
    ASSUME NEW x \in Int
    PROVE  /\ Talk(<<Receive(x)>>, {}, {x}) /\ Len(<<Receive(x)>>) = 1
           /\ LeftOf(<<Receive(x)>>, 1) = Receive(x) /\ Receive(x).do = "recv" /\ Receive(x).peer = x
<1>1. /\ <<Receive(x)>> \in Seq(StepRec) /\ Len(<<Receive(x)>>) = 1
      /\ LeftOf(<<Receive(x)>>, 1) = Receive(x) /\ Receive(x).do = "recv" /\ Receive(x).peer = x
  BY DEF Receive, StepRec, StepNames, LeftOf
<1>2. 1 .. Len(<<Receive(x)>>) = {1}
  BY <1>1
<1>. HIDE DEF Receive
<1>. QED  BY <1>1, <1>2 DEF Talk

\* A list of one send.
LEMMA TalkSend ==
    ASSUME NEW x \in Int, NEW y \in Int
    PROVE  /\ Talk(<<Send(x, y)>>, {x}, {}) /\ Len(<<Send(x, y)>>) = 1
           /\ LeftOf(<<Send(x, y)>>, 1) = Send(x, y) /\ Send(x, y).do = "send" /\ Send(x, y).peer = x
<1>1. /\ <<Send(x, y)>> \in Seq(StepRec) /\ Len(<<Send(x, y)>>) = 1
      /\ LeftOf(<<Send(x, y)>>, 1) = Send(x, y) /\ Send(x, y).do = "send" /\ Send(x, y).peer = x
  BY DEF Send, StepRec, StepNames, LeftOf
<1>2. 1 .. Len(<<Send(x, y)>>) = {1}
  BY <1>1
<1>. QED  BY <1>1, <1>2 DEF Talk

\* Sending to, or receiving from, all of a list of different peers.
LEMMA TalkAll ==
    ASSUME NEW m \in Nat, NEW ls \in [1 .. m -> Int], \A j, k \in 1 .. m : ls[j] = ls[k] => j = k,
           NEW X, X = {ls[k] : k \in 1 .. m}
    PROVE  /\ Talk(SendAll(ls), X, {}) /\ Len(SendAll(ls)) = m
           /\ Talk(ReceiveAll(ls), {}, X) /\ Len(ReceiveAll(ls)) = m
           /\ \A l \in 1 .. m : /\ LeftOf(SendAll(ls), l) = Send(ls[m - l + 1], m - l + 1)
                                /\ LeftOf(SendAll(ls), l).do = "send"
                                /\ LeftOf(ReceiveAll(ls), l).do = "recv"
<1>. DEFINE s == SendAll(ls)
            r == ReceiveAll(ls)
<1>1. /\ s = [k \in 1 .. m |-> Send(ls[k], k)] /\ r = [k \in 1 .. m |-> Receive(ls[k])]
  BY DEF SendAll, ReceiveAll
<1>2. s \in Seq(StepRec) /\ r \in Seq(StepRec) /\ Len(s) = m /\ Len(r) = m
  <2>1. \A k \in 1 .. m : Send(ls[k], k) \in StepRec /\ Receive(ls[k]) \in StepRec
    BY DEF Send, Receive, StepRec, StepNames
  <2>2. s \in [1 .. m -> StepRec] /\ r \in [1 .. m -> StepRec]
    <3>. HIDE DEF s, r
    <3>. QED  BY <1>1, <2>1
  <2>. HIDE DEF s, r
  <2>. QED  BY <2>2
<1>. HIDE DEF s, r
<1>3. ASSUME NEW l \in 1 .. m
      PROVE  /\ m - l + 1 \in 1 .. m /\ LeftOf(s, l) = Send(ls[m - l + 1], m - l + 1)
             /\ LeftOf(r, l) = Receive(ls[m - l + 1])
  <2>1. m - l + 1 \in 1 .. m
    OBVIOUS
  <2>2. LeftOf(s, l) = s[m - l + 1] /\ LeftOf(r, l) = r[m - l + 1]
    BY <1>2 DEF LeftOf
  <2>. QED  BY <1>1, <2>1, <2>2
<1>4. \A l \in 1 .. m : /\ LeftOf(s, l).do = "send" /\ LeftOf(s, l).peer = ls[m - l + 1]
                        /\ LeftOf(r, l).do = "recv" /\ LeftOf(r, l).peer = ls[m - l + 1]
  BY <1>3 DEF Send, Receive
<1>5. \A k \in 1 .. m : m - k + 1 \in 1 .. m /\ m - (m - k + 1) + 1 = k
  OBVIOUS
<1>6. \A x \in X : \E l \in 1 .. m : ls[m - l + 1] = x
  BY <1>5
<1>7. \A l \in 1 .. m : ls[m - l + 1] \in X
  BY <1>5
<1>8. \A k, l \in 1 .. m : ls[m - k + 1] = ls[m - l + 1] => k = l
  <2>. SUFFICES ASSUME NEW k \in 1 .. m, NEW l \in 1 .. m, ls[m - k + 1] = ls[m - l + 1] PROVE k = l
    OBVIOUS
  <2>1. m - k + 1 = m - l + 1
    BY <1>5
  <2>. QED  BY <2>1
<1>9. Talk(s, X, {})
  BY <1>2, <1>4, <1>6, <1>7, <1>8, SMTT(30) DEF Talk
<1>10. Talk(r, {}, X)
  <2>1. \A x \in X : \E l \in 1 .. Len(r) : LeftOf(r, l).do = "recv" /\ LeftOf(r, l).peer = x
    BY <1>2, <1>4, <1>6
  <2>2. \A l \in 1 .. Len(r) : LeftOf(r, l).do = "recv" /\ LeftOf(r, l).peer \in X
    BY <1>2, <1>4, <1>7
  <2>3. \A k, l \in 1 .. Len(r) : LeftOf(r, k).peer = LeftOf(r, l).peer => k = l
    BY <1>2, <1>4, <1>8
  <2>. QED  BY <1>2, <2>1, <2>2, <2>3 DEF Talk
<1>. QED  BY <1>2, <1>3, <1>4, <1>9, <1>10 DEF s, r

\* The loop over the other members of a team meets each of them once.
LEMMA OthersAre ==
    ASSUME NEW n \in Nat, NEW r \in 0 .. n - 1
    PROVE  /\ n - 1 \in Nat
           /\ Others(n, r) \in [1 .. n - 1 -> Int]
           /\ \A j, k \in 1 .. n - 1 : Others(n, r)[j] = Others(n, r)[k] => j = k
           /\ (0 .. n - 1) \ {r} = {Others(n, r)[k] : k \in 1 .. n - 1}
<1>. DEFINE S == (0 .. n - 1) \ {r}
            A == Ascending(S)
<1>1. IsFiniteSet(S) /\ Cardinality(S) = n - 1 /\ S \in SUBSET Int
  <2>1. IsFiniteSet(0 .. n - 1) /\ Cardinality(0 .. n - 1) = n
    <3>1. 0 \in Int /\ n - 1 \in Int /\ n > 0
      OBVIOUS
    <3>2. IsFiniteSet(0 .. n - 1) /\ Cardinality(0 .. n - 1) = IF 0 > n - 1 THEN 0 ELSE n - 1 - 0 + 1
      BY <3>1, FS_Interval
    <3>. QED  BY <3>1, <3>2
  <2>2. IsFiniteSet(S) /\ Cardinality(S) = Cardinality(0 .. n - 1) - 1
    BY <2>1, FS_RemoveElement
  <2>3. S \in SUBSET Int
    OBVIOUS
  <2>. HIDE DEF S
  <2>. QED  BY <2>1, <2>2, <2>3
<1>. HIDE DEF S
<1>2. /\ A \in [1 .. n - 1 -> S]
      /\ \A k \in 1 .. n - 1 : Rank(S, A[k]) = k - 1
      /\ \A v \in S : Rank(S, v) + 1 \in 1 .. n - 1 /\ A[Rank(S, v) + 1] = v
  BY <1>1, AscendingIs
<1>. HIDE DEF A
<1>3. A = Others(n, r)
  BY DEF Others, A, S
<1>4. \A k \in 1 .. n - 1 : A[k] \in S
  BY <1>2
<1>5. \A j, k \in 1 .. n - 1 : A[j] = A[k] => j = k
  <2>. SUFFICES ASSUME NEW j \in 1 .. n - 1, NEW k \in 1 .. n - 1, A[j] = A[k] PROVE j = k
    OBVIOUS
  <2>1. j - 1 = k - 1
    BY <1>2
  <2>. QED  BY <2>1
<1>6. S = {A[k] : k \in 1 .. n - 1}
  BY <1>2, <1>4
<1>7. A \in [1 .. n - 1 -> Int]
  BY <1>1, <1>2
<1>. QED  BY <1>3, <1>5, <1>6, <1>7 DEF S

\* The two halves of a collective: the root sends to all others, or receives
\* from them.
GatherPart(me, n, root) == IF me = root THEN ReceiveAll(Others(n, root)) ELSE <<Send(root, 0)>>

\* A list of sends and receptions only.
Chatter(s) == \A l \in 1 .. Len(s) : LeftOf(s, l).do \in {"send", "recv"}

\* The two halves of the collectives of shmem_p2p: the root sends to every other
\* member and each of them receives, or the other way round.
LEMMA HalvesTalk ==
    ASSUME NEW n \in Nat, NEW me \in 0 .. n - 1, NEW root \in 0 .. n - 1
    PROVE  /\ Talk(ScatterSteps(me, n, root), IF me = root THEN (0 .. n - 1) \ {root} ELSE {},
                                              IF me = root THEN {} ELSE {root})
           /\ Chatter(ScatterSteps(me, n, root))
           /\ Talk(GatherPart(me, n, root), IF me = root THEN {} ELSE {root},
                                            IF me = root THEN (0 .. n - 1) \ {root} ELSE {})
           /\ Chatter(GatherPart(me, n, root))
           /\ me # root => /\ Len(ScatterSteps(me, n, root)) = 1
                           /\ LeftOf(ScatterSteps(me, n, root), 1).do = "recv"
           /\ me = root => \A l \in 1 .. Len(ScatterSteps(me, n, root)) :
                               LeftOf(ScatterSteps(me, n, root), l).do = "send"
<1>1. CASE me = root
  <2>. DEFINE ls == Others(n, root)
              X == (0 .. n - 1) \ {root}
  <2>1. /\ n - 1 \in Nat /\ ls \in [1 .. n - 1 -> Int]
        /\ \A j, k \in 1 .. n - 1 : ls[j] = ls[k] => j = k
        /\ X = {ls[k] : k \in 1 .. n - 1}
    BY OthersAre
  <2>. HIDE DEF ls, X
  <2>2. /\ Talk(SendAll(ls), X, {}) /\ Len(SendAll(ls)) = n - 1
        /\ Talk(ReceiveAll(ls), {}, X) /\ Len(ReceiveAll(ls)) = n - 1
        /\ \A l \in 1 .. n - 1 : /\ LeftOf(SendAll(ls), l).do = "send"
                                 /\ LeftOf(ReceiveAll(ls), l).do = "recv"
    BY <2>1, TalkAll, ZenonT(30)
  <2>3. ScatterSteps(me, n, root) = SendAll(ls) /\ GatherPart(me, n, root) = ReceiveAll(ls)
    BY <1>1 DEF ScatterSteps, GatherPart, ls
  <2>. QED  BY <1>1, <2>2, <2>3 DEF Chatter, X
<1>2. CASE me # root
  <2>1. root \in Int /\ 0 \in Int
    OBVIOUS
  <2>2. ScatterSteps(me, n, root) = <<Receive(root)>> /\ GatherPart(me, n, root) = <<Send(root, 0)>>
    BY <1>2 DEF ScatterSteps, GatherPart
  <2>3. 1 .. 1 = {1}
    OBVIOUS
  <2>. QED  BY <1>2, <2>1, <2>2, <2>3, TalkReceive, TalkSend DEF Chatter
<1>. QED  BY <1>1, <1>2

\* A barrier is one step and sends nothing.
LEMMA BarrierTalks ==
    /\ Talk(Barrier, {}, {}) /\ Len(Barrier) = 1 /\ LeftOf(Barrier, 1).do = "find"
    /\ Barrier \in Seq(StepRec)
<1>1. "find" \in StepNames /\ "find" \notin {"send", "recv"}
  BY DEF StepNames
<1>. QED  BY <1>1, TalkStep DEF Barrier

\* A broadcast: a barrier, the root's sends, a barrier.
IsBcast(s, k, n, me, root) ==
    /\ Talk(s, IF me = root THEN (0 .. n - 1) \ {root} ELSE {}, IF me = root THEN {} ELSE {root})
    /\ k \in Nat /\ Len(s) = k + 2
    /\ LeftOf(s, 1).do = "find" /\ LeftOf(s, k + 2).do = "find"
    /\ \A l \in 2 .. k + 1 : LeftOf(s, l).do = IF me = root THEN "send" ELSE "recv"
    /\ me # root => k = 1

\* dart_shmem_bcast is a barrier, the root's sends, and a barrier.
LEMMA BcastShape ==
    ASSUME NEW n \in Nat, NEW me \in 0 .. n - 1, NEW root \in 0 .. n - 1
    PROVE  IsBcast(BcastSteps(me, n, root), Len(ScatterSteps(me, n, root)), n, me, root)
<1>. DEFINE k == Len(ScatterSteps(me, n, root))
            s == BcastSteps(me, n, root)
<1>. DEFINE c == ScatterSteps(me, n, root)
            b == Barrier \o c
            A == IF me = root THEN (0 .. n - 1) \ {root} ELSE {}
            B == IF me = root THEN {} ELSE {root}
            d == IF me = root THEN "send" ELSE "recv"
<1>1. Talk(c, A, B) /\ (\A l \in 1 .. Len(c) : LeftOf(c, l).do = d) /\ (me # root => Len(c) = 1)
  <2>1. 1 .. 1 = {1}
    OBVIOUS
  <2>2. Talk(c, A, B)
    BY HalvesTalk
  <2>3. CASE me = root
    <3>1. \A l \in 1 .. Len(c) : LeftOf(c, l).do = "send"
      BY <2>3, HalvesTalk
    <3>2. d = "send"
      BY <2>3
    <3>. HIDE DEF c, d, A, B
    <3>. QED  BY <2>2, <2>3, <3>1, <3>2
  <2>4. CASE me # root
    <3>1. Len(c) = 1 /\ LeftOf(c, 1).do = "recv"
      BY ONLY <2>4, HalvesTalk, ZenonT(30)
    <3>. HIDE DEF c
    <3>. QED  BY <2>1, <2>2, <2>4, <3>1
  <2>. QED  BY <2>3, <2>4
<1>2. s = b \o Barrier
  BY DEF BcastSteps
<1>8. k = Len(c)
  OBVIOUS
<1>. HIDE DEF c, A, B, d, k, s
<1>3. c \in Seq(StepRec) /\ Barrier \in Seq(StepRec)
  BY <1>1, BarrierTalks DEF Talk
<1>4. /\ b \in Seq(StepRec) /\ Len(c) \in Nat /\ Len(b) = 1 + Len(c)
      /\ \A l \in 1 .. 1 + Len(c) : LeftOf(b, l) = IF l <= Len(c) THEN LeftOf(c, l) ELSE LeftOf(Barrier, l - Len(c))
  BY ONLY <1>3, LeftOfConcat, BarrierTalks, ZenonT(30)
<1>5. Talk(b, A, B)
  <2>1. Talk(Barrier \o c, {} \union A, {} \union B)
    BY <1>1, BarrierTalks, TalkConcat
  <2>2. {} \union A = A /\ {} \union B = B
    OBVIOUS
  <2>. QED  BY <2>1, <2>2
<1>. HIDE DEF b
<1>6. Talk(s, A, B)
  <2>1. Talk(b \o Barrier, A \union {}, B \union {})
    BY <1>5, BarrierTalks, TalkConcat
  <2>2. A \union {} = A /\ B \union {} = B
    OBVIOUS
  <2>. QED  BY <1>2, <2>1, <2>2
<1>7. /\ Len(s) = Len(b) + 1
      /\ \A l \in 1 .. Len(b) + 1 : LeftOf(s, l) = IF l <= 1 THEN LeftOf(Barrier, l) ELSE LeftOf(b, l - 1)
  <2>1. /\ Len(b \o Barrier) = Len(b) + Len(Barrier)
        /\ \A l \in 1 .. Len(b) + Len(Barrier) : LeftOf(b \o Barrier, l) =
               IF l <= Len(Barrier) THEN LeftOf(Barrier, l) ELSE LeftOf(b, l - Len(Barrier))
    BY <1>3, <1>4, LeftOfConcat, Zenon
  <2>. QED  BY <1>2, <2>1, BarrierTalks, Zenon
<1>9. LeftOf(s, 1).do = "find"
  BY <1>4, <1>7, <1>8, BarrierTalks
<1>10. LeftOf(s, k + 2).do = "find"
  <2>1. LeftOf(s, k + 2) = LeftOf(b, k + 1)
    BY <1>4, <1>7, <1>8
  <2>2. LeftOf(b, k + 1) = LeftOf(Barrier, 1)
    BY <1>4, <1>8
  <2>. QED  BY <2>1, <2>2, BarrierTalks
<1>11. ASSUME NEW l \in 2 .. k + 1 PROVE LeftOf(s, l).do = d
  <2>1. l - 1 \in 1 .. k
    BY <1>4, <1>8
  <2>2. LeftOf(s, l) = LeftOf(b, l - 1) /\ LeftOf(b, l - 1) = LeftOf(c, l - 1)
    BY <1>4, <1>7, <1>8, <2>1
  <2>. QED  BY <1>1, <1>8, <2>1, <2>2
<1>. HIDE DEF k, s
<1>. QED  BY <1>1, <1>4, <1>6, <1>7, <1>8, <1>9, <1>10, <1>11 DEF A, B, d, IsBcast, k, s

\* A gathering: the root's receptions, a barrier.
IsGather(s, k, n, me, root) ==
    /\ Talk(s, IF me = root THEN {} ELSE {root}, IF me = root THEN (0 .. n - 1) \ {root} ELSE {})
    /\ k \in Nat /\ Len(s) = k + 1
    /\ LeftOf(s, 1).do = "find"
    /\ \A l \in 2 .. k + 1 : LeftOf(s, l).do \in {"send", "recv"}

\* dart_shmem_gather is a barrier's worth of receptions at the root, then a barrier.
LEMMA GatherShape ==
    ASSUME NEW n \in Nat, NEW me \in 0 .. n - 1, NEW root \in 0 .. n - 1
    PROVE  IsGather(GatherSteps(me, n, root), Len(GatherPart(me, n, root)), n, me, root)
<1>. DEFINE k == Len(GatherPart(me, n, root))
            s == GatherSteps(me, n, root)
<1>. DEFINE c == GatherPart(me, n, root)
            A == IF me = root THEN {} ELSE {root}
            B == IF me = root THEN (0 .. n - 1) \ {root} ELSE {}
<1>1. Talk(c, A, B) /\ Chatter(c)
  BY HalvesTalk
<1>2. s = c \o Barrier
  BY DEF GatherSteps, GatherPart
<1>6. k = Len(c)
  OBVIOUS
<1>. HIDE DEF c, A, B, k, s
<1>3. c \in Seq(StepRec) /\ Barrier \in Seq(StepRec)
  BY <1>1, BarrierTalks DEF Talk
<1>4. /\ Len(c) \in Nat /\ Len(s) = Len(c) + 1
      /\ \A l \in 1 .. Len(c) + 1 : LeftOf(s, l) = IF l <= 1 THEN LeftOf(Barrier, l) ELSE LeftOf(c, l - 1)
  <2>1. /\ Len(c) \in Nat /\ Len(c \o Barrier) = Len(c) + Len(Barrier)
        /\ \A l \in 1 .. Len(c) + Len(Barrier) : LeftOf(c \o Barrier, l) =
               IF l <= Len(Barrier) THEN LeftOf(Barrier, l) ELSE LeftOf(c, l - Len(Barrier))
    BY <1>3, LeftOfConcat, Zenon
  <2>. QED  BY <1>2, <2>1, BarrierTalks, Zenon
<1>5. Talk(s, A, B)
  <2>1. Talk(c \o Barrier, A \union {}, B \union {})
    BY <1>1, BarrierTalks, TalkConcat
  <2>2. A \union {} = A /\ B \union {} = B
    OBVIOUS
  <2>. QED  BY <1>2, <2>1, <2>2
<1>7. LeftOf(s, 1).do = "find"
  BY <1>4, BarrierTalks
<1>8. ASSUME NEW l \in 2 .. k + 1 PROVE LeftOf(s, l).do \in {"send", "recv"}
  <2>1. l - 1 \in 1 .. k /\ LeftOf(s, l) = LeftOf(c, l - 1)
    BY <1>4, <1>6
  <2>. QED  BY <1>1, <1>6, <2>1 DEF Chatter
<1>. QED  BY <1>4, <1>5, <1>6, <1>7, <1>8 DEF A, B, IsGather, k, s

\* Gathering and broadcast.
IsAllgather(s, k, n, me) ==
    /\ Talk(s, IF me = 0 THEN (0 .. n - 1) \ {0} ELSE {0}, IF me = 0 THEN (0 .. n - 1) \ {0} ELSE {0})
    /\ k \in Nat /\ k >= 2 /\ Len(s) \in Nat /\ Len(s) >= k + 1
    /\ LeftOf(s, 1).do = "find" /\ LeftOf(s, k).do = "find" /\ LeftOf(s, k + 1).do = "find"
    /\ \A l \in 2 .. k - 1 : LeftOf(s, l).do \in {"send", "recv"}
    /\ \A l \in k + 2 .. Len(s) : LeftOf(s, l).do \in {"send", "recv"}

\* dart_shmem_allgather is a gather at 0 and a broadcast from there.
LEMMA AllgatherShape ==
    ASSUME NEW n \in Nat, NEW me \in 0 .. n - 1
    PROVE  IsAllgather(AllgatherSteps(me, n), Len(BcastSteps(me, n, 0)), n, me)
<1>. DEFINE k == Len(BcastSteps(me, n, 0))
            s == AllgatherSteps(me, n)
<1>. DEFINE b == BcastSteps(me, n, 0)
            g == GatherSteps(me, n, 0)
            m == Len(GatherPart(me, n, 0))
            j == Len(ScatterSteps(me, n, 0))
            X == (0 .. n - 1) \ {0}
<1>0. 0 \in 0 .. n - 1
  OBVIOUS
<1>1. /\ Talk(g, IF me = 0 THEN {} ELSE {0}, IF me = 0 THEN X ELSE {})
      /\ m \in Nat /\ Len(g) = m + 1 /\ LeftOf(g, 1).do = "find"
      /\ \A l \in 2 .. m + 1 : LeftOf(g, l).do \in {"send", "recv"}
  <2>1. IsGather(g, m, n, me, 0)
    BY <1>0, GatherShape
  <2>. HIDE DEF g, m
  <2>. QED  BY <2>1, Zenon DEF IsGather
<1>2. /\ Talk(b, IF me = 0 THEN X ELSE {}, IF me = 0 THEN {} ELSE {0})
      /\ j \in Nat /\ Len(b) = j + 2 /\ LeftOf(b, 1).do = "find" /\ LeftOf(b, j + 2).do = "find"
      /\ \A l \in 2 .. j + 1 : LeftOf(b, l).do \in {"send", "recv"}
  <2>1. /\ Talk(b, IF me = 0 THEN X ELSE {}, IF me = 0 THEN {} ELSE {0})
        /\ j \in Nat /\ Len(b) = j + 2 /\ LeftOf(b, 1).do = "find" /\ LeftOf(b, j + 2).do = "find"
        /\ \A l \in 2 .. j + 1 : LeftOf(b, l).do = IF me = 0 THEN "send" ELSE "recv"
    <3>1. IsBcast(b, j, n, me, 0)
      BY <1>0, BcastShape
    <3>. HIDE DEF b, j
    <3>. QED  BY <3>1, Zenon DEF IsBcast
  <2>2. (IF me = 0 THEN "send" ELSE "recv") \in {"send", "recv"}
    OBVIOUS
  <2>. QED  BY <2>1, <2>2, Zenon
<1>3. s = g \o b /\ k = Len(b)
  BY DEF AllgatherSteps
<1>. HIDE DEF b, g, m, j, X, k, s
<1>4. b \in Seq(StepRec) /\ g \in Seq(StepRec)
  BY <1>1, <1>2 DEF Talk
<1>5. /\ Len(s) = m + 1 + k
      /\ \A l \in 1 .. m + 1 + k : LeftOf(s, l) = IF l <= k THEN LeftOf(b, l) ELSE LeftOf(g, l - k)
  <2>1. /\ Len(g \o b) = Len(g) + Len(b)
        /\ \A l \in 1 .. Len(g) + Len(b) : LeftOf(g \o b, l) =
               IF l <= Len(b) THEN LeftOf(b, l) ELSE LeftOf(g, l - Len(b))
    BY <1>4, LeftOfConcat, Zenon
  <2>. QED  BY <1>1, <1>3, <2>1, Zenon
<1>6. Talk(s, IF me = 0 THEN X ELSE {0}, IF me = 0 THEN X ELSE {0})
  <2>1. CASE me = 0
    <3>1. Talk(g, {}, X) /\ Talk(b, X, {})
      BY <1>1, <1>2, <2>1
    <3>2. Talk(g \o b, {} \union X, X \union {})
      BY <3>1, TalkConcat
    <3>3. {} \union X = X /\ X \union {} = X
      OBVIOUS
    <3>. QED  BY <1>3, <2>1, <3>2, <3>3
  <2>2. CASE me # 0
    <3>1. Talk(g, {0}, {}) /\ Talk(b, {}, {0})
      BY <1>1, <1>2, <2>2
    <3>2. Talk(g \o b, {0} \union {}, {} \union {0})
      BY <3>1, TalkConcat
    <3>3. {} \union {0} = {0} /\ {0} \union {} = {0}
      OBVIOUS
    <3>. QED  BY <1>3, <2>2, <3>2, <3>3
  <2>. QED  BY <2>1, <2>2
<1>7. k = j + 2 /\ k \in Nat /\ k >= 2 /\ Len(s) \in Nat /\ Len(s) >= k + 1
  BY <1>1, <1>2, <1>3, <1>5
<1>8. LeftOf(s, 1).do = "find" /\ LeftOf(s, k).do = "find"
  BY <1>1, <1>2, <1>5, <1>7
<1>9. LeftOf(s, k + 1).do = "find"
  BY <1>1, <1>5, <1>7
<1>10. \A l \in 2 .. k - 1 : LeftOf(s, l).do \in {"send", "recv"}
  BY <1>1, <1>2, <1>5, <1>7
<1>11. ASSUME NEW l \in k + 2 .. Len(s) PROVE LeftOf(s, l).do \in {"send", "recv"}
  <2>1. l - k \in 2 .. m + 1 /\ LeftOf(s, l) = LeftOf(g, l - k)
    BY <1>1, <1>5, <1>7
  <2>. QED  BY <1>1, <2>1
<1>. QED  BY <1>6, <1>7, <1>8, <1>9, <1>10, <1>11 DEF X, IsAllgather, k, s

\* A list with one more step that neither sends nor receives.
LEMMA AppendStep ==
    ASSUME NEW s, NEW A, NEW B, Talk(s, A, B), NEW do \in StepNames, do \notin {"send", "recv"}
    PROVE  /\ Talk(s \o Step(do), A, B)
           /\ Len(s) \in Nat /\ Len(s \o Step(do)) = Len(s) + 1
           /\ LeftOf(s \o Step(do), 1).do = do
           /\ \A l \in 2 .. Len(s) + 1 : l - 1 \in 1 .. Len(s) /\ LeftOf(s \o Step(do), l) = LeftOf(s, l - 1)
<1>. DEFINE e == Step(do)
            c == s \o e
<1>1. /\ Talk(e, {}, {}) /\ Len(e) = 1 /\ LeftOf(e, 1).do = do /\ e \in Seq(StepRec)
  BY TalkStep
<1>2. s \in Seq(StepRec)
  BY DEF Talk
<1>. HIDE DEF e, c
<1>3. Talk(c, A, B)
  <2>1. Talk(s \o e, A \union {}, B \union {})
    BY <1>1, TalkConcat
  <2>2. A \union {} = A /\ B \union {} = B
    OBVIOUS
  <2>. QED  BY <2>1, <2>2 DEF c
<1>4. /\ Len(s) \in Nat /\ Len(c) = Len(s) + 1
      /\ \A l \in 1 .. Len(s) + 1 : LeftOf(c, l) = IF l <= 1 THEN LeftOf(e, l) ELSE LeftOf(s, l - 1)
  <2>1. /\ Len(s) \in Nat /\ Len(s \o e) = Len(s) + Len(e)
        /\ \A l \in 1 .. Len(s) + Len(e) : LeftOf(s \o e, l) =
               IF l <= Len(e) THEN LeftOf(e, l) ELSE LeftOf(s, l - Len(e))
    BY <1>1, <1>2, LeftOfConcat, Zenon
  <2>. QED  BY <1>1, <2>1, Zenon DEF c
<1>5. LeftOf(c, 1).do = do
  BY <1>1, <1>4
<1>6. \A l \in 2 .. Len(s) + 1 : l - 1 \in 1 .. Len(s) /\ LeftOf(c, l) = LeftOf(s, l - 1)
  BY <1>4
<1>. QED  BY <1>3, <1>4, <1>5, <1>6 DEF c, e

\* A list with a barrier after it.
LEMMA AppendFind ==
    ASSUME NEW s, NEW A, NEW B, Talk(s, A, B)
    PROVE  /\ Talk(s \o Step("find"), A, B)
           /\ Len(s) \in Nat /\ Len(s \o Step("find")) = Len(s) + 1
           /\ LeftOf(s \o Step("find"), 1).do = "find"
           /\ \A l \in 2 .. Len(s) + 1 :
                  l - 1 \in 1 .. Len(s) /\ LeftOf(s \o Step("find"), l) = LeftOf(s, l - 1)
<1>1. "find" \in StepNames /\ "find" \notin {"send", "recv"}
  BY DEF StepNames
<1>. QED  BY <1>1, AppendStep, Zenon

\* A list with a step after it that initialises the new team.
LEMMA AppendInit ==
    ASSUME NEW s, NEW A, NEW B, Talk(s, A, B)
    PROVE  /\ Talk(s \o Step("init"), A, B)
           /\ Len(s) \in Nat /\ Len(s \o Step("init")) = Len(s) + 1
           /\ LeftOf(s \o Step("init"), 1).do = "init"
           /\ \A l \in 2 .. Len(s) + 1 :
                  l - 1 \in 1 .. Len(s) /\ LeftOf(s \o Step("init"), l) = LeftOf(s, l - 1)
<1>1. "init" \in StepNames /\ "init" \notin {"send", "recv"}
  BY DEF StepNames
<1>. QED  BY <1>1, AppendStep, Zenon

\* The names of the steps that neither send nor receive.
LEMMA PlainNames ==
    /\ \A do \in {"find", "newteam", "init", "unlink", "delteam", "takelock", "setlock", "droplock"} :
           do \in StepNames /\ do \notin {"send", "recv"}
    /\ Barrier = Step("find")
  BY DEF StepNames, Barrier

\* The steps of dart_team_destroy.
LEMMA DestroyShape ==
    ASSUME NEW me
    PROVE  /\ Talk(DestroySteps(me), {}, {})
           /\ me = 0 => /\ Len(DestroySteps(me)) = 4
                        /\ LeftOf(DestroySteps(me), 4).do = "find" /\ LeftOf(DestroySteps(me), 3).do = "unlink"
                        /\ LeftOf(DestroySteps(me), 2).do = "find" /\ LeftOf(DestroySteps(me), 1).do = "delteam"
           /\ me # 0 => /\ Len(DestroySteps(me)) = 3
                        /\ LeftOf(DestroySteps(me), 3).do = "find" /\ LeftOf(DestroySteps(me), 2).do = "unlink"
                        /\ LeftOf(DestroySteps(me), 1).do = "find"
<1>. DEFINE b == Barrier
            c == b \o Step("unlink")
            d == c \o Step("find")
            e == d \o Step("delteam")
<1>1. Talk(b, {}, {}) /\ Len(b) = 1 /\ LeftOf(b, 1).do = "find"
  BY BarrierTalks
<1>2. /\ Talk(c, {}, {}) /\ Len(c) = Len(b) + 1 /\ LeftOf(c, 1).do = "unlink"
      /\ \A l \in 2 .. Len(b) + 1 : l - 1 \in 1 .. Len(b) /\ LeftOf(c, l) = LeftOf(b, l - 1)
  <2>. HIDE DEF b
  <2>. QED  BY ONLY <1>1, AppendStep, PlainNames, ZenonT(30)
<1>3. /\ Talk(d, {}, {}) /\ Len(d) = Len(c) + 1 /\ LeftOf(d, 1).do = "find"
      /\ \A l \in 2 .. Len(c) + 1 : l - 1 \in 1 .. Len(c) /\ LeftOf(d, l) = LeftOf(c, l - 1)
  <2>. HIDE DEF c
  <2>. QED  BY <1>2, AppendStep, PlainNames
<1>4. /\ Talk(e, {}, {}) /\ Len(e) = Len(d) + 1 /\ LeftOf(e, 1).do = "delteam"
      /\ \A l \in 2 .. Len(d) + 1 : l - 1 \in 1 .. Len(d) /\ LeftOf(e, l) = LeftOf(d, l - 1)
  <2>1. "delteam" \in StepNames /\ "delteam" \notin {"send", "recv"}
    BY PlainNames
  <2>. HIDE DEF d
  <2>. QED  BY <1>3, <2>1, AppendStep
<1>5. DestroySteps(me) = IF me = 0 THEN e ELSE d \o <<>>
  BY PlainNames DEF DestroySteps
<1>6. d \o <<>> = d
  <2>1. d \in Seq(StepRec)
    <3>. HIDE DEF d
    <3>. QED  BY <1>3 DEF Talk
  <2>. HIDE DEF d
  <2>. QED  BY <2>1
<1>. HIDE DEF b, c, d, e
<1>7. Len(c) = 2 /\ LeftOf(c, 2).do = "find"
  BY <1>1, <1>2
<1>8. Len(d) = 3 /\ LeftOf(d, 2).do = "unlink" /\ LeftOf(d, 3).do = "find"
  <2>1. LeftOf(d, 2) = LeftOf(c, 2 - 1) /\ LeftOf(d, 3) = LeftOf(c, 3 - 1) /\ 2 - 1 = 1 /\ 3 - 1 = 2
    BY <1>3, <1>7
  <2>2. LeftOf(d, 2) = LeftOf(c, 1) /\ LeftOf(d, 3) = LeftOf(c, 2)
    BY <2>1, Zenon
  <2>3. Len(d) = 3
    BY <1>3, <1>7
  <2>. QED  BY <1>2, <1>7, <2>2, <2>3, Zenon
<1>9. Len(e) = 4 /\ LeftOf(e, 2).do = "find" /\ LeftOf(e, 3).do = "unlink" /\ LeftOf(e, 4).do = "find"
  <2>1. /\ LeftOf(e, 2) = LeftOf(d, 2 - 1) /\ LeftOf(e, 3) = LeftOf(d, 3 - 1) /\ LeftOf(e, 4) = LeftOf(d, 4 - 1)
        /\ 2 - 1 = 1 /\ 3 - 1 = 2 /\ 4 - 1 = 3
    BY <1>4, <1>8
  <2>2. LeftOf(e, 2) = LeftOf(d, 1) /\ LeftOf(e, 3) = LeftOf(d, 2) /\ LeftOf(e, 4) = LeftOf(d, 3)
    BY <2>1, Zenon
  <2>3. Len(e) = 4
    BY <1>4, <1>8
  <2>. QED  BY <1>3, <1>8, <2>2, <2>3, Zenon
<1>. QED  BY <1>3, <1>4, <1>5, <1>6, <1>8, <1>9

\* The steps of dart_team_lock_free.
LEMMA LockFreeShape ==
    ASSUME NEW me
    PROVE  /\ Talk(LockFreeSteps(me), {}, {})
           /\ me = 0 => /\ Len(LockFreeSteps(me)) = 2
                        /\ LeftOf(LockFreeSteps(me), 2).do = "droplock" /\ LeftOf(LockFreeSteps(me), 1).do = "find"
           /\ me # 0 => Len(LockFreeSteps(me)) = 1 /\ LeftOf(LockFreeSteps(me), 1).do = "find"
<1>. DEFINE b == Step("droplock")
            c == b \o Step("find")
<1>1. Talk(b, {}, {}) /\ Len(b) = 1 /\ LeftOf(b, 1).do = "droplock"
  BY TalkStep, PlainNames
<1>2. /\ Talk(c, {}, {}) /\ Len(c) = Len(b) + 1 /\ LeftOf(c, 1).do = "find"
      /\ \A l \in 2 .. Len(b) + 1 : l - 1 \in 1 .. Len(b) /\ LeftOf(c, l) = LeftOf(b, l - 1)
  <2>. HIDE DEF b
  <2>. QED  BY <1>1, AppendFind
<1>3. LockFreeSteps(me) = IF me = 0 THEN c ELSE <<>> \o Barrier
  BY PlainNames DEF LockFreeSteps
<1>4. <<>> \o Barrier = Barrier
  BY BarrierTalks
<1>. HIDE DEF b, c
<1>5. Len(c) = 2 /\ LeftOf(c, 2).do = "droplock"
  BY <1>1, <1>2
<1>. QED  BY <1>2, <1>3, <1>4, <1>5, BarrierTalks

\* The steps of dart_team_lock_init: a broadcast from unit 0, k steps and the
\* barriers.
IsLockInit(s, k, n, me) ==
    /\ Talk(s, IF me = 0 THEN (0 .. n - 1) \ {0} ELSE {}, IF me = 0 THEN {} ELSE {0})
    /\ k \in Nat /\ Len(s) = IF me = 0 THEN k + 4 ELSE k + 3
    /\ LeftOf(s, 1).do = "setlock" /\ LeftOf(s, 2).do = "find" /\ LeftOf(s, k + 3).do = "find"
    /\ \A l \in 3 .. k + 2 : LeftOf(s, l).do = IF me = 0 THEN "send" ELSE "recv"
    /\ me = 0 => LeftOf(s, k + 4).do = "takelock"
    /\ me # 0 => k = 1

\* dart_team_lock_init: member 0 takes a slot and broadcasts its number.
LEMMA LockInitShape ==
    ASSUME NEW n \in Nat, NEW me \in 0 .. n - 1
    PROVE  IsLockInit(LockInitSteps(me, n), Len(ScatterSteps(me, n, 0)), n, me)
<1>. DEFINE b == BcastSteps(me, n, 0)
            k == Len(ScatterSteps(me, n, 0))
            d == IF me = 0 THEN "send" ELSE "recv"
            A == IF me = 0 THEN (0 .. n - 1) \ {0} ELSE {}
            B == IF me = 0 THEN {} ELSE {0}
            t == Step("takelock")
            h == IF me = 0 THEN t ELSE <<>>
            m == IF me = 0 THEN 1 ELSE 0
            c == h \o b
            s == LockInitSteps(me, n)
<1>1. /\ Talk(b, A, B) /\ k \in Nat /\ Len(b) = k + 2
      /\ LeftOf(b, 1).do = "find" /\ LeftOf(b, k + 2).do = "find"
      /\ \A l \in 2 .. k + 1 : LeftOf(b, l).do = d
      /\ me # 0 => k = 1
  <2>1. IsBcast(b, k, n, me, 0)
    <3>1. 0 \in 0 .. n - 1
      OBVIOUS
    <3>. QED  BY <3>1, BcastShape
  <2>. HIDE DEF b, k
  <2>. QED  BY <2>1, Zenon DEF IsBcast
<1>2. Talk(h, {}, {}) /\ Len(h) = m /\ (me = 0 => LeftOf(h, 1).do = "takelock")
  <2>1. Talk(t, {}, {}) /\ Len(t) = 1 /\ LeftOf(t, 1).do = "takelock"
    BY TalkStep, PlainNames
  <2>. HIDE DEF t
  <2>2. CASE me = 0
    BY <2>1, <2>2
  <2>3. CASE me # 0
    BY <2>3, TalkNothing
  <2>. QED  BY <2>2, <2>3
<1>3. s = c \o Step("setlock")
  BY DEF LockInitSteps
<1>. HIDE DEF b, k, d, A, B, t, h, m, s
<1>4. h \in Seq(StepRec) /\ b \in Seq(StepRec) /\ m \in {0, 1}
  BY <1>1, <1>2 DEF Talk, m
<1>5. Talk(c, A, B)
  <2>1. Talk(h \o b, {} \union A, {} \union B)
    BY <1>1, <1>2, TalkConcat
  <2>2. {} \union A = A /\ {} \union B = B
    OBVIOUS
  <2>. QED  BY <2>1, <2>2
<1>6. /\ Len(c) = m + (k + 2)
      /\ \A l \in 1 .. m + (k + 2) : LeftOf(c, l) = IF l <= k + 2 THEN LeftOf(b, l) ELSE LeftOf(h, l - (k + 2))
  <2>1. /\ Len(h \o b) = Len(h) + Len(b)
        /\ \A l \in 1 .. Len(h) + Len(b) : LeftOf(h \o b, l) =
               IF l <= Len(b) THEN LeftOf(b, l) ELSE LeftOf(h, l - Len(b))
    BY <1>4, LeftOfConcat, Zenon
  <2>. QED  BY <1>1, <1>2, <2>1, Zenon
<1>. HIDE DEF c
<1>7. /\ Talk(s, A, B) /\ Len(s) = Len(c) + 1 /\ LeftOf(s, 1).do = "setlock"
      /\ \A l \in 2 .. Len(c) + 1 : l - 1 \in 1 .. Len(c) /\ LeftOf(s, l) = LeftOf(c, l - 1)
  BY <1>3, <1>5, AppendStep, PlainNames
<1>8. LeftOf(s, 2).do = "find"
  <2>1. LeftOf(s, 2) = LeftOf(c, 1) /\ LeftOf(c, 1) = LeftOf(b, 1)
    BY <1>1, <1>4, <1>6, <1>7
  <2>. QED  BY <1>1, <2>1
<1>9. LeftOf(s, k + 3).do = "find"
  <2>1. LeftOf(s, k + 3) = LeftOf(c, k + 2) /\ LeftOf(c, k + 2) = LeftOf(b, k + 2)
    BY <1>1, <1>4, <1>6, <1>7
  <2>. QED  BY <1>1, <2>1
<1>10. ASSUME NEW l \in 3 .. k + 2 PROVE LeftOf(s, l).do = d
  <2>1. LeftOf(s, l) = LeftOf(c, l - 1) /\ LeftOf(c, l - 1) = LeftOf(b, l - 1) /\ l - 1 \in 2 .. k + 1
    BY <1>1, <1>4, <1>6, <1>7
  <2>. QED  BY <1>1, <2>1
<1>11. ASSUME me = 0 PROVE LeftOf(s, k + 4).do = "takelock"
  <2>1. LeftOf(s, k + 4) = LeftOf(c, k + 3) /\ LeftOf(c, k + 3) = LeftOf(h, 1)
    BY <1>1, <1>4, <1>6, <1>7, <1>11 DEF m
  <2>. QED  BY <1>2, <1>11, <2>1
<1>12. Len(s) = IF me = 0 THEN k + 4 ELSE k + 3
  BY <1>1, <1>6, <1>7 DEF m
<1>. QED  BY <1>1, <1>7, <1>8, <1>9, <1>10, <1>11, <1>12 DEF IsLockInit, A, B, d, k, s

\* The steps of dart_team_create for the members S of the new group among the
\* members M of the team: the first of S makes the team and sends to the others.
IsMakers(s, M, S) ==
    LET me == Min(S)  n == Cardinality(S)
    IN  /\ Talk(s, {Rank(M, w) : w \in S \ {me}}, {})
        /\ n \in Nat \ {0} /\ Len(s) = n + 3
        /\ LeftOf(s, n + 3).do = "find" /\ LeftOf(s, n + 2).do = "newteam"
        /\ \A l \in 3 .. n + 1 :
               /\ LeftOf(s, l).do = "send"
               /\ \E w \in S \ {me} : LeftOf(s, l).peer = Rank(M, w) /\ LeftOf(s, l).newid = Rank(S, w)
        /\ LeftOf(s, 2).do = "init" /\ LeftOf(s, 1).do = "find"

\* The steps of the other members: each receives from the first.
IsMembers(s, M, S) ==
    /\ Talk(s, {}, {Rank(M, Min(S))}) /\ Len(s) = 4
    /\ LeftOf(s, 4).do = "find" /\ LeftOf(s, 3).do = "recv" /\ LeftOf(s, 2).do = "init"
    /\ LeftOf(s, 1).do = "find"

\* The steps of those that are not in the new group: the two barriers.
IsBystanders(s) ==
    Talk(s, {}, {}) /\ Len(s) = 2 /\ LeftOf(s, 2).do = "find" /\ LeftOf(s, 1).do = "find"

\* dart_team_create for the first member of the new group.
LEMMA MakersShape ==
    ASSUME NEW M \in SUBSET Int, IsFiniteSet(M), NEW G, GroupOK(G), MembersOf(G) # {},
           MembersOf(G) \subseteq M, NEW g2l, \A w \in M : g2l[w] = Rank(M, w)
    PROVE  IsMakers(CreateSteps(Min(MembersOf(G)), g2l, G), M, MembersOf(G))
<1>. DEFINE S == MembersOf(G)
            n == Cardinality(S)
            me == Min(S)
            A == Ascending(S)
            o == [k \in 1 .. n - 1 |-> g2l[A[k + 1]]]
            X == {Rank(M, w) : w \in S \ {me}}
            a == Barrier \o Step("newteam")
            t == SendAll(o)
            b == a \o t
            c == b \o Step("init")
            s == c \o Step("find")
<1>1. S \in SUBSET Int /\ IsFiniteSet(S) /\ n \in Nat /\ G.nmem = n /\ S \subseteq M /\ S # {}
  BY GroupTypes, GroupOKType
<1>2. me \in S /\ \A v \in S : Rank(S, v) = 0 <=> v = me
  <2>. HIDE DEF S
  <2>. QED  BY <1>1, RankOfMin
<1>3. n \in Nat \ {0}
  BY <1>1, FS_EmptySet
<1>4. CreateSteps(me, g2l, G) = s
  BY <1>1, <1>2, PlainNames DEF CreateSteps
<1>. HIDE DEF S
<1>5. /\ A \in [1 .. n -> S]
      /\ \A k \in 1 .. n : Rank(S, A[k]) = k - 1
      /\ \A v \in S : Rank(S, v) + 1 \in 1 .. n /\ A[Rank(S, v) + 1] = v
  BY <1>1, AscendingIs
<1>. HIDE DEF me, n, A
<1>6. ASSUME NEW k \in 1 .. n - 1
      PROVE  /\ k + 1 \in 1 .. n /\ A[k + 1] \in S \ {me} /\ Rank(S, A[k + 1]) = k
             /\ o[k] = Rank(M, A[k + 1])
  <2>1. k + 1 \in 1 .. n /\ k + 1 - 1 = k /\ k # 0
    BY <1>1
  <2>2. A[k + 1] \in S /\ Rank(S, A[k + 1]) = k
    BY <1>5, <2>1
  <2>. QED  BY <1>1, <1>2, <2>1, <2>2
<1>7. \A v \in M : Rank(M, v) \in Int
  BY RankOrder
<1>8. \A v, w \in M : Rank(M, v) = Rank(M, w) => v = w
  BY RankOrder
<1>9. o \in [1 .. n - 1 -> Int]
  <2>1. ASSUME NEW k \in 1 .. n - 1 PROVE g2l[A[k + 1]] \in Int
    <3>1. A[k + 1] \in M
      BY <1>1, <1>6
    <3>. QED  BY <1>7, <3>1
  <2>. QED  BY <2>1, Zenon
<1>10. \A j, k \in 1 .. n - 1 : o[j] = o[k] => j = k
  <2>. SUFFICES ASSUME NEW j \in 1 .. n - 1, NEW k \in 1 .. n - 1, o[j] = o[k] PROVE j = k
    OBVIOUS
  <2>1. Rank(M, A[j + 1]) = Rank(M, A[k + 1]) /\ A[j + 1] \in M /\ A[k + 1] \in M
    BY <1>1, <1>6, ZenonT(30)
  <2>2. A[j + 1] = A[k + 1]
    BY <1>8, <2>1
  <2>. QED  BY <1>6, <2>2
<1>11. X = {o[k] : k \in 1 .. n - 1}
  <2>1. ASSUME NEW w \in S \ {me} PROVE \E k \in 1 .. n - 1 : Rank(M, w) = o[k]
    <3>1. Rank(S, w) # 0 /\ Rank(S, w) + 1 \in 1 .. n /\ A[Rank(S, w) + 1] = w /\ Rank(S, w) \in Nat
      BY <1>1, <1>2, <1>5, RankOrder
    <3>2. Rank(S, w) \in 1 .. n - 1
      BY <1>1, <3>1
    <3>. QED  BY <1>6, <3>1, <3>2
  <2>2. ASSUME NEW k \in 1 .. n - 1 PROVE o[k] \in X
    BY <1>6
  <2>. HIDE DEF o
  <2>. QED  BY <2>1, <2>2
<1>12. SendAll([k \in 1 .. G.nmem - 1 |-> g2l[Ascending(MembersOf(G))[k + 1]]]) = t
  BY <1>1 DEF S, A
<1>. HIDE DEF o
<1>13. /\ Talk(t, X, {}) /\ Len(t) = n - 1
       /\ \A l \in 1 .. n - 1 : LeftOf(t, l) = Send(o[n - 1 - l + 1], n - 1 - l + 1) /\ LeftOf(t, l).do = "send"
  <2>. DEFINE m == n - 1
  <2>1. m \in Nat
    BY <1>1, <1>3
  <2>. HIDE DEF t, X
  <2>2. o \in [1 .. m -> Int] /\ (\A j, k \in 1 .. m : o[j] = o[k] => j = k) /\ X = {o[k] : k \in 1 .. m}
    BY <1>9, <1>10, <1>11
  <2>. HIDE DEF m
  <2>3. /\ Talk(SendAll(o), X, {}) /\ Len(SendAll(o)) = m
        /\ \A l \in 1 .. m : /\ LeftOf(SendAll(o), l) = Send(o[m - l + 1], m - l + 1)
                             /\ LeftOf(SendAll(o), l).do = "send"
    BY <2>1, <2>2, TalkAll
  <2>. QED  BY <2>3 DEF t, m
<1>. HIDE DEF t, X
<1>14. /\ Talk(a, {}, {}) /\ Len(a) = 2 /\ LeftOf(a, 1).do = "newteam" /\ LeftOf(a, 2).do = "find"
  <2>. DEFINE bar == Barrier
  <2>1. Talk(bar, {}, {}) /\ Len(bar) = 1 /\ LeftOf(bar, 1).do = "find"
    BY BarrierTalks
  <2>. HIDE DEF bar
  <2>2. /\ Talk(bar \o Step("newteam"), {}, {}) /\ Len(bar \o Step("newteam")) = Len(bar) + 1
        /\ LeftOf(bar \o Step("newteam"), 1).do = "newteam"
        /\ \A l \in 2 .. Len(bar) + 1 : l - 1 \in 1 .. Len(bar) /\ LeftOf(bar \o Step("newteam"), l) = LeftOf(bar, l - 1)
    BY <2>1, AppendStep, PlainNames, ZenonT(30)
  <2>3. LeftOf(bar \o Step("newteam"), 2) = LeftOf(bar, 1)
    BY <2>1, <2>2
  <2>4. Len(bar \o Step("newteam")) = 2
    BY <2>1, <2>2
  <2>. QED  BY <2>1, <2>2, <2>3, <2>4, Zenon DEF bar
<1>. HIDE DEF a
<1>15. a \in Seq(StepRec) /\ t \in Seq(StepRec)
  BY <1>13, <1>14 DEF Talk
<1>16. Talk(b, X, {})
  <2>1. Talk(a \o t, {} \union X, {} \union {})
    BY <1>13, <1>14, TalkConcat
  <2>2. {} \union X = X /\ {} \union {} = {}
    OBVIOUS
  <2>. QED  BY <2>1, <2>2
<1>17. /\ Len(b) = n + 1
       /\ \A l \in 1 .. n + 1 : LeftOf(b, l) = IF l <= n - 1 THEN LeftOf(t, l) ELSE LeftOf(a, l - (n - 1))
  <2>1. /\ Len(a \o t) = Len(a) + Len(t)
        /\ \A l \in 1 .. Len(a) + Len(t) : LeftOf(a \o t, l) =
               IF l <= Len(t) THEN LeftOf(t, l) ELSE LeftOf(a, l - Len(t))
    BY <1>15, LeftOfConcat, Zenon
  <2>2. Len(a) + Len(t) = n + 1
    BY <1>1, <1>13, <1>14
  <2>. QED  BY <1>13, <2>1, <2>2, Zenon
<1>. HIDE DEF b
<1>18. /\ Talk(c, X, {}) /\ Len(c) = Len(b) + 1 /\ LeftOf(c, 1).do = "init"
       /\ \A l \in 2 .. Len(b) + 1 : l - 1 \in 1 .. Len(b) /\ LeftOf(c, l) = LeftOf(b, l - 1)
  BY <1>16, AppendInit
<1>. HIDE DEF c
<1>19. /\ Talk(s, X, {}) /\ Len(s) = Len(c) + 1 /\ LeftOf(s, 1).do = "find"
       /\ \A l \in 2 .. Len(c) + 1 : l - 1 \in 1 .. Len(c) /\ LeftOf(s, l) = LeftOf(c, l - 1)
  BY <1>18, AppendFind
<1>. HIDE DEF s
<1>20. Len(s) = n + 3 /\ Len(c) = n + 2
  BY <1>1, <1>17, <1>18, <1>19
<1>21. \A l \in 3 .. n + 3 : LeftOf(s, l) = LeftOf(b, l - 2) /\ l - 2 \in 1 .. n + 1
  <2>. SUFFICES ASSUME NEW l \in 3 .. n + 3 PROVE LeftOf(s, l) = LeftOf(b, l - 2) /\ l - 2 \in 1 .. n + 1
    OBVIOUS
  <2>1. l \in 2 .. Len(c) + 1 /\ l - 1 \in 2 .. Len(b) + 1 /\ l - 1 - 1 = l - 2 /\ l - 2 \in 1 .. n + 1
    BY <1>1, <1>17, <1>20
  <2>. QED  BY <1>18, <1>19, <2>1
<1>22. LeftOf(s, n + 3).do = "find" /\ LeftOf(s, n + 2).do = "newteam"
  <2>1. LeftOf(s, n + 3) = LeftOf(b, n + 1) /\ LeftOf(s, n + 2) = LeftOf(b, n)
    BY <1>3, <1>21
  <2>2. LeftOf(b, n + 1) = LeftOf(a, 2) /\ LeftOf(b, n) = LeftOf(a, 1)
    BY <1>3, <1>17
  <2>. QED  BY <1>14, <2>1, <2>2
<1>23. LeftOf(s, 2).do = "init"
  BY <1>1, <1>18, <1>19, <1>20
<1>24. ASSUME NEW l \in 3 .. n + 1
       PROVE  /\ LeftOf(s, l).do = "send"
              /\ \E w \in S \ {me} : LeftOf(s, l).peer = Rank(M, w) /\ LeftOf(s, l).newid = Rank(S, w)
  <2>. DEFINE k == n - 1 - (l - 2) + 1
  <2>1. l - 2 \in 1 .. n - 1 /\ k \in 1 .. n - 1 /\ LeftOf(s, l) = LeftOf(b, l - 2)
    BY <1>1, <1>21
  <2>2. LeftOf(b, l - 2) = LeftOf(t, l - 2)
    BY <1>1, <1>17, <2>1
  <2>3. LeftOf(s, l) = Send(o[k], k) /\ LeftOf(s, l).do = "send"
    BY <1>13, <2>1, <2>2
  <2>. HIDE DEF k
  <2>4. A[k + 1] \in S \ {me} /\ Rank(S, A[k + 1]) = k /\ o[k] = Rank(M, A[k + 1])
    BY <1>6, <2>1 DEF o
  <2>. QED  BY <2>3, <2>4 DEF Send
<1>25. IsMakers(s, M, S)
  <2>1. /\ Talk(s, {Rank(M, w) : w \in S \ {Min(S)}}, {})
        /\ Cardinality(S) = n /\ Min(S) = me
    BY <1>19 DEF X, me, n
  <2>. QED  BY <1>3, <1>19, <1>20, <1>22, <1>23, <1>24, <2>1, Zenon DEF IsMakers
<1>. QED  BY <1>4, <1>25, Zenon DEF S, me, s, c, b, a, t, o, n, A

\* dart_team_create for the other members of the new group, and for those of the
\* team that are not in it.
LEMMA OthersShape ==
    ASSUME NEW M \in SUBSET Int, IsFiniteSet(M), NEW G, GroupOK(G), MembersOf(G) # {},
           MembersOf(G) \subseteq M, NEW g2l, \A w \in M : g2l[w] = Rank(M, w), NEW u
    PROVE  /\ (u \in MembersOf(G) /\ u # Min(MembersOf(G)))
                  => IsMembers(CreateSteps(u, g2l, G), M, MembersOf(G))
           /\ u \notin MembersOf(G) => IsBystanders(CreateSteps(u, g2l, G))
<1>. DEFINE S == MembersOf(G)
            me == Min(S)
            x == Rank(M, me)
            r == <<Receive(x)>>
            f == Barrier
            a == f \o r
            c == a \o Step("init")
            s == c \o Step("find")
            z == f \o Step("find")
<1>1. S \in SUBSET Int /\ IsFiniteSet(S) /\ S \subseteq M /\ S # {}
  BY GroupTypes
<1>2. me \in S
  <2>. HIDE DEF S
  <2>. QED  BY <1>1, RankOfMin
<1>3. x \in Int /\ g2l[me] = x
  <2>1. me \in M
    BY <1>1, <1>2
  <2>. HIDE DEF me
  <2>. QED  BY <2>1, RankOrder
<1>4. /\ (u \in S /\ u # me) => CreateSteps(u, g2l, G) = s
      /\ u \notin S => CreateSteps(u, g2l, G) = z
  BY <1>3, PlainNames DEF CreateSteps
<1>. HIDE DEF S, me, x
<1>5. Talk(f, {}, {}) /\ Len(f) = 1 /\ LeftOf(f, 1).do = "find" /\ f \in Seq(StepRec)
  BY BarrierTalks
<1>6. Talk(r, {}, {x}) /\ Len(r) = 1 /\ LeftOf(r, 1).do = "recv" /\ r \in Seq(StepRec)
  BY <1>3, TalkReceive DEF Talk
<1>. HIDE DEF f, r
<1>7. Talk(a, {}, {x}) /\ Len(a) = 2 /\ LeftOf(a, 1).do = "recv" /\ LeftOf(a, 2).do = "find"
  <2>1. Talk(f \o r, {} \union {}, {} \union {x})
    BY <1>5, <1>6, TalkConcat
  <2>2. {} \union {x} = {x} /\ {} \union {} = {}
    OBVIOUS
  <2>3. /\ Len(f \o r) = Len(f) + Len(r)
        /\ \A l \in 1 .. Len(f) + Len(r) : LeftOf(f \o r, l) =
               IF l <= Len(r) THEN LeftOf(r, l) ELSE LeftOf(f, l - Len(r))
    BY <1>5, <1>6, LeftOfConcat, Zenon
  <2>4. Len(a) = 2 /\ LeftOf(a, 1) = LeftOf(r, 1) /\ LeftOf(a, 2) = LeftOf(f, 1)
    BY <1>5, <1>6, <2>3
  <2>. QED  BY <1>5, <1>6, <2>1, <2>2, <2>4, Zenon
<1>. HIDE DEF a
<1>8. /\ Talk(c, {}, {x}) /\ Len(c) = Len(a) + 1 /\ LeftOf(c, 1).do = "init"
      /\ \A l \in 2 .. Len(a) + 1 : l - 1 \in 1 .. Len(a) /\ LeftOf(c, l) = LeftOf(a, l - 1)
  BY <1>7, AppendInit
<1>. HIDE DEF c
<1>9. /\ Talk(s, {}, {x}) /\ Len(s) = Len(c) + 1 /\ LeftOf(s, 1).do = "find"
      /\ \A l \in 2 .. Len(c) + 1 : l - 1 \in 1 .. Len(c) /\ LeftOf(s, l) = LeftOf(c, l - 1)
  BY <1>8, AppendFind
<1>10. /\ Talk(z, {}, {}) /\ Len(z) = Len(f) + 1 /\ LeftOf(z, 1).do = "find"
       /\ \A l \in 2 .. Len(f) + 1 : l - 1 \in 1 .. Len(f) /\ LeftOf(z, l) = LeftOf(f, l - 1)
  BY <1>5, AppendFind
<1>. HIDE DEF s, z
<1>11. Len(c) = 3 /\ Len(s) = 4 /\ Len(z) = 2
  BY <1>5, <1>7, <1>8, <1>9, <1>10
<1>12. LeftOf(c, 2) = LeftOf(a, 1) /\ LeftOf(c, 3) = LeftOf(a, 2)
  BY <1>7, <1>8
<1>13. LeftOf(s, 2) = LeftOf(c, 1) /\ LeftOf(s, 3) = LeftOf(c, 2) /\ LeftOf(s, 4) = LeftOf(c, 3)
  BY <1>9, <1>11
<1>14. LeftOf(z, 2) = LeftOf(f, 1)
  BY <1>5, <1>10
<1>15. IsMembers(s, M, S)
  BY <1>7, <1>8, <1>9, <1>11, <1>12, <1>13, Zenon DEF IsMembers, x, me
<1>16. IsBystanders(z)
  BY <1>5, <1>10, <1>11, <1>14, Zenon DEF IsBystanders
<1>. QED  BY <1>4, <1>15, <1>16, Zenon DEF S, me, s, z

-----------------------------------------------------------------------------
(* What it means for a program that it is well formed.                     *)

\* The operations.
Kinds == {"create", "destroy", "bcast", "scatter", "gather", "allgather", "lockinit", "lockfree"}

\* A set of units that make a call together.
IsTeam(S) ==
    /\ S \in SUBSET Units /\ S \in SUBSET Int /\ IsFiniteSet(S) /\ S # {}
    /\ Cardinality(S) \in Nat \ {0}
    /\ \A u \in S : Rank(S, u) \in 0 .. Cardinality(S) - 1

\* A set of units can be ranked.
LEMMA TeamOfUnits ==
    ASSUME NEW S \in SUBSET Units, S # {}
    PROVE  IsTeam(S)
<1>1. S \in SUBSET Int /\ IsFiniteSet(S)
  <2>1. S \in SUBSET Int
    BY UnitsFinite
  <2>2. IsFiniteSet(S)
    BY UnitsFinite, FS_Subset
  <2>. QED  BY <2>1, <2>2
<1>2. Cardinality(S) \in Nat \ {0}
  BY <1>1, FS_EmptySet, FS_CardinalityType
<1>. QED  BY <1>1, <1>2, RankOrder DEF IsTeam

\* The operations of a program are numbered from 1.
LEMMA ProgramDomain ==
    ASSUME NEW p, WellFormed(p)
    PROVE  DOMAIN p = 1 .. Len(p) /\ Len(p) \in Nat
  BY DEF WellFormed

\* An operation on a team comes after its creation and not after its destruction.
LEMMA ProgramOn ==
    ASSUME NEW p, WellFormed(p), NEW i \in DOMAIN p, p[i].on # 0
    PROVE  /\ p[i].on \in DOMAIN p /\ p[i].on < i /\ p[p[i].on].kind = "create"
           /\ \A d \in DOMAIN p : p[d].kind = "destroy" /\ p[d].on = p[i].on => i <= d
<1>. DEFINE c == p[i].on
<1>1. DOMAIN p = 1 .. Len(p) /\ Len(p) \in Nat
  BY ProgramDomain
<1>2. Lives(p, c, i, "destroy") /\ p[c].kind = "create"
  BY DEF WellFormed
<1>3. c \in 1 .. i - 1 /\ \A j \in c .. i - 1 : ~(p[j].kind = "destroy" /\ p[j].on = c)
  BY <1>2 DEF Lives
<1>4. ASSUME NEW d \in DOMAIN p, p[d].kind = "destroy", p[d].on = c PROVE i <= d
  <2>1. p[d].on # 0
    BY <1>4
  <2>2. Lives(p, c, d, "destroy")
    BY <1>4, <2>1 DEF WellFormed
  <2>3. c \in 1 .. d - 1
    BY <2>2 DEF Lives
  <2>. QED  BY <1>1, <1>3, <1>4, <2>3
<1>. QED  BY <1>1, <1>2, <1>3, <1>4

\* The arguments of the operations of a program.
LEMMA ProgramKinds ==
    ASSUME NEW p, WellFormed(p), NEW i \in DOMAIN p
    PROVE  /\ p[i].kind \in Kinds
           /\ p[i].kind = "create" => /\ GroupOK(p[i].group) /\ MembersOf(p[i].group) # {}
                                      /\ MembersOf(p[i].group) \subseteq Mem(p, i)
           /\ p[i].kind = "destroy" => p[i].on # 0
           /\ p[i].kind \in {"bcast", "scatter", "gather"} => p[i].arg \in 0 .. Cardinality(Mem(p, i)) - 1
           /\ p[i].kind = "lockfree" => /\ Lives(p, p[i].arg, i, "lockfree")
                                        /\ p[p[i].arg].kind = "lockinit" /\ p[p[i].arg].on = p[i].on
<1>1. \/ /\ p[i].kind = "create" /\ GroupOK(p[i].group)
         /\ MembersOf(p[i].group) # {} /\ MembersOf(p[i].group) \subseteq Mem(p, i)
      \/ p[i].kind = "destroy" /\ p[i].on # 0
      \/ p[i].kind \in {"bcast", "scatter", "gather"} /\ p[i].arg \in 0 .. Cardinality(Mem(p, i)) - 1
      \/ p[i].kind \in {"allgather", "lockinit"}
      \/ /\ p[i].kind = "lockfree" /\ Lives(p, p[i].arg, i, "lockfree")
         /\ p[p[i].arg].kind = "lockinit" /\ p[p[i].arg].on = p[i].on
  BY DEF WellFormed, Mem
<1>. QED  BY <1>1 DEF Kinds

\* A lock is freed once, on the team that made it.
LEMMA ProgramFree ==
    ASSUME NEW p, WellFormed(p), NEW i \in DOMAIN p, p[i].kind = "lockfree"
    PROVE  /\ p[i].arg \in DOMAIN p /\ p[i].arg < i /\ p[p[i].arg].kind = "lockinit" /\ p[p[i].arg].on = p[i].on
           /\ \A d \in DOMAIN p : p[d].kind = "lockfree" /\ p[d].arg = p[i].arg => d = i
           /\ Mem(p, i) = Mem(p, p[i].arg) /\ For(p, p[i].arg) = Mem(p, i)
<1>1. DOMAIN p = 1 .. Len(p) /\ Len(p) \in Nat
  BY ProgramDomain
<1>2. \A d \in DOMAIN p : p[d].kind = "lockfree" =>
          /\ p[d].arg \in 1 .. d - 1
          /\ \A j \in p[d].arg .. d - 1 : ~(p[j].kind = "lockfree" /\ p[j].arg = p[d].arg)
  BY ProgramKinds DEF Lives
<1>3. p[p[i].arg].kind = "lockinit" /\ p[p[i].arg].on = p[i].on
  BY ProgramKinds
<1>4. ASSUME NEW d \in DOMAIN p, p[d].kind = "lockfree", p[d].arg = p[i].arg PROVE d = i
  BY <1>1, <1>2, <1>4
<1>5. Mem(p, i) = Mem(p, p[i].arg) /\ For(p, p[i].arg) = Mem(p, i)
  BY <1>3 DEF Mem, For
<1>. QED  BY <1>1, <1>2, <1>3, <1>4, <1>5

\* The units of a call, and those for whom it makes something.
LEMMA ProgramTeams ==
    ASSUME NEW p, WellFormed(p), NEW i \in DOMAIN p
    PROVE  /\ IsTeam(Mem(p, i)) /\ IsTeam(For(p, i)) /\ For(p, i) \subseteq Mem(p, i)
           /\ Maker(p, i) \in For(p, i) /\ Maker(p, i) \in Mem(p, i) /\ Maker(p, i) \in Units
           /\ \A u \in For(p, i) : Rank(For(p, i), u) = 0 <=> u = Maker(p, i)
           /\ \A u \in Mem(p, i) : LocalIds(p, p[i].on)[u] = Rank(Mem(p, i), u)
           /\ \A u, v \in Mem(p, i) : Rank(Mem(p, i), u) = Rank(Mem(p, i), v) => u = v
           /\ p[i].on # 0 => Mem(p, i) = For(p, p[i].on)
<1>. DEFINE M == Mem(p, i)
            F == For(p, i)
<1>1. IsTeam(M) /\ \A u \in M : LocalIds(p, p[i].on)[u] = Rank(M, u)
  <2>1. CASE p[i].on = 0
    <3>1. M = Units /\ LocalIds(p, p[i].on) = WorldGroup.g2l
      BY <2>1 DEF Mem, TeamMembers, LocalIds
    <3>2. IsTeam(Units)
      <4>1. Units # {} /\ Units \in SUBSET Units
        BY UnitsAssumption
      <4>. QED  BY <4>1, TeamOfUnits
    <3>3. \A u \in Units : WorldGroup.g2l[u] = Rank(Units, u)
      BY WorldGroupRanks, GroupOKType
    <3>. HIDE DEF M
    <3>. QED  BY <3>1, <3>2, <3>3
  <2>2. CASE p[i].on # 0
    <3>. DEFINE c == p[i].on
    <3>1. c \in DOMAIN p /\ p[c].kind = "create"
      BY <2>2, ProgramOn
    <3>2. M = MembersOf(p[c].group) /\ LocalIds(p, c) = p[c].group.g2l
      BY <2>2 DEF Mem, TeamMembers, LocalIds
    <3>. HIDE DEF c
    <3>3. GroupOK(p[c].group) /\ MembersOf(p[c].group) # {}
      BY <3>1, ProgramKinds
    <3>4. MembersOf(p[c].group) \in SUBSET Units
      BY GroupTypes
    <3>5. \A u \in MembersOf(p[c].group) : p[c].group.g2l[u] = Rank(MembersOf(p[c].group), u)
      BY <3>3, GroupOKType
    <3>. HIDE DEF M
    <3>6. IsTeam(M)
      BY <3>2, <3>3, <3>4, TeamOfUnits
    <3>. QED  BY <3>2, <3>5, <3>6 DEF c
  <2>. QED  BY <2>1, <2>2
<1>2. IsTeam(F) /\ F \subseteq M
  <2>1. CASE p[i].kind = "create"
    <3>1. F = MembersOf(p[i].group)
      BY <2>1 DEF For
    <3>2. MembersOf(p[i].group) # {} /\ MembersOf(p[i].group) \subseteq M
      BY <2>1, ProgramKinds
    <3>3. MembersOf(p[i].group) \in SUBSET Units
      BY GroupTypes
    <3>. HIDE DEF F, M
    <3>. QED  BY <3>1, <3>2, <3>3, TeamOfUnits
  <2>2. CASE p[i].kind # "create"
    <3>1. F = M
      BY <2>2 DEF For
    <3>. QED  BY <1>1, <3>1
  <2>. QED  BY <2>1, <2>2
<1>3. Maker(p, i) = Min(F)
  BY DEF Maker
<1>4. p[i].on # 0 => M = For(p, p[i].on)
  <2>. SUFFICES ASSUME p[i].on # 0 PROVE M = For(p, p[i].on)
    OBVIOUS
  <2>1. p[p[i].on].kind = "create"
    BY ProgramOn
  <2>. QED  BY <2>1 DEF For, Mem, TeamMembers
<1>. HIDE DEF M, F
<1>5. Maker(p, i) \in F /\ \A u \in F : Rank(F, u) = 0 <=> u = Maker(p, i)
  BY <1>2, <1>3, RankOfMin DEF IsTeam
<1>6. \A u, v \in M : Rank(M, u) = Rank(M, v) => u = v
  BY <1>1, RankOrder DEF IsTeam
<1>7. Maker(p, i) \in M /\ Maker(p, i) \in Units
  BY <1>1, <1>2, <1>5 DEF IsTeam
<1>. QED  BY <1>1, <1>2, <1>4, <1>5, <1>6, <1>7 DEF M, F

-----------------------------------------------------------------------------
(* What the proofs use of the steps of a call.                             *)

\* v sends to u in operation i.
Pair(p, i, v, u) ==
    CASE p[i].kind = "create" -> v = Maker(p, i) /\ u \in For(p, i) \ {v}
      [] p[i].kind \in {"bcast", "scatter"} -> Rank(Mem(p, i), v) = p[i].arg /\ Rank(Mem(p, i), u) # p[i].arg
      [] p[i].kind = "gather" -> Rank(Mem(p, i), u) = p[i].arg /\ Rank(Mem(p, i), v) # p[i].arg
      [] p[i].kind = "allgather" -> (Rank(Mem(p, i), v) = 0) # (Rank(Mem(p, i), u) = 0)
      [] p[i].kind = "lockinit" -> Rank(Mem(p, i), v) = 0 /\ Rank(Mem(p, i), u) # 0
      [] OTHER -> FALSE

\* In a call u sends to, and receives from, the units of Pair, each once.
TalkOK(p, u, i) ==
    Talk(Script(p, u, i), {Rank(Mem(p, i), w) : w \in {v \in Mem(p, i) : Pair(p, i, u, v)}},
                          {Rank(Mem(p, i), w) : w \in {v \in Mem(p, i) : Pair(p, i, v, u)}})

\* The barriers of a call, and what comes before which of them.
BarrierOK(p, u, i) ==
    /\ Barriers(p, i) \in 0 .. 3
    /\ \A b \in 1 .. Barriers(p, i) : BarLeft(p, u, i, b) \in 1 .. Size(p, u, i)
    /\ \A a, b \in 1 .. Barriers(p, i) : a < b => BarLeft(p, u, i, b) < BarLeft(p, u, i, a)
    /\ \A l \in 1 .. Size(p, u, i) :
           StepAt(p, u, i, l).do = "find" <=> \E b \in 1 .. Barriers(p, i) : l = BarLeft(p, u, i, b)

\* The steps that change the shared area or the unit's tables.
MakingAt(p, u, i, l) ==
    LET do == StepAt(p, u, i, l).do  kind == p[i].kind
    IN  /\ do \in {"find", "send", "recv", "newteam", "init", "unlink", "delteam",
                   "takelock", "setlock", "droplock"}
        /\ do = "newteam" <=> kind = "create" /\ u = Maker(p, i) /\ l = MakeLeft(p, i)
        /\ do = "init" <=> kind = "create" /\ u \in For(p, i) /\ l = 2
        /\ do = "unlink" <=> kind = "destroy" /\ l = BarLeft(p, u, i, 2) + 1
        /\ do = "delteam" <=> kind = "destroy" /\ Rank(Mem(p, i), u) = 0 /\ l = 1
        /\ do = "takelock" <=> kind = "lockinit" /\ u = Maker(p, i) /\ l = MakeLeft(p, i)
        /\ do = "setlock" <=> kind = "lockinit" /\ l = 1
        /\ do = "droplock" <=> kind = "lockfree" /\ Rank(Mem(p, i), u) = 0 /\ l = 2
        /\ (do = "send" /\ kind \in {"create", "lockinit"}) =>
               /\ u = Maker(p, i) /\ SetLeft(p, i) < l /\ l < MakeLeft(p, i)
               /\ kind = "create" => \E w \in For(p, i) \ {u} :
                      /\ StepAt(p, u, i, l).peer = Rank(Mem(p, i), w)
                      /\ StepAt(p, u, i, l).newid = Rank(For(p, i), w)
        /\ (do = "recv" /\ kind \in {"create", "lockinit"}) =>
               /\ u \in For(p, i) /\ u # Maker(p, i) /\ l = 3
               /\ StepAt(p, u, i, l).peer = Rank(Mem(p, i), Maker(p, i))

\* The steps of a call that make something are where they should be.
MakingOK(p, u, i) == Size(p, u, i) \in Nat /\ \A l \in 1 .. Size(p, u, i) : MakingAt(p, u, i, l)

\* Where the steps are, by kind.
SizeOK(p, u, i) ==
    CASE p[i].kind = "create" ->
            /\ u = Maker(p, i) => Size(p, u, i) = Cardinality(For(p, i)) + 3
            /\ (u \in For(p, i) /\ u # Maker(p, i)) => Size(p, u, i) = 4
            /\ u \notin For(p, i) => Size(p, u, i) = 2
      [] p[i].kind = "destroy" -> Size(p, u, i) = IF Rank(Mem(p, i), u) = 0 THEN 4 ELSE 3
      [] p[i].kind = "lockfree" -> Size(p, u, i) = IF Rank(Mem(p, i), u) = 0 THEN 2 ELSE 1
      [] p[i].kind = "lockinit" -> IF Rank(Mem(p, i), u) = 0 THEN Size(p, u, i) >= 4 ELSE Size(p, u, i) = 4
      [] OTHER -> TRUE

\* All of it.
CallOK(p, u, i) ==
    /\ TalkOK(p, u, i)
    /\ BarrierOK(p, u, i)
    /\ MakingOK(p, u, i)
    /\ SizeOK(p, u, i)

-----------------------------------------------------------------------------
(* The calls, kind by kind.                                                *)

\* dart_team_create, in terms of units.
LEMMA CreateCall ==
    ASSUME NEW p, WellFormed(p), NEW i \in DOMAIN p, NEW u \in Mem(p, i), p[i].kind = "create"
    PROVE  CallOK(p, u, i)
<1>. DEFINE M == Mem(p, i)
            F == For(p, i)
            m == Maker(p, i)
            n == Cardinality(F)
            s == Script(p, u, i)
            D(l) == StepAt(p, u, i, l).do
            To == {Rank(M, w) : w \in {v \in M : Pair(p, i, u, v)}}
            From == {Rank(M, w) : w \in {v \in M : Pair(p, i, v, u)}}
<1>1. /\ IsTeam(M) /\ IsTeam(F) /\ F \subseteq M /\ m \in F /\ F = MembersOf(p[i].group) /\ m = Min(F)
      /\ \A w \in M : LocalIds(p, p[i].on)[w] = Rank(M, w)
  BY ProgramTeams DEF For, Maker
<1>2. GroupOK(p[i].group)
  BY ProgramKinds
<1>3. \A w \in M : Script(p, w, i) = CreateSteps(w, LocalIds(p, p[i].on), p[i].group)
  BY DEF Script, Steps
<1>4. u \in M /\ \A v, w \in M : Pair(p, i, v, w) <=> v = m /\ w \in F \ {v}
  BY DEF Pair
<1>. DEFINE g == p[i].group
            ids == LocalIds(p, p[i].on)
<1>5. IsMakers(Script(p, m, i), M, F)
  <2>1. M \in SUBSET Int /\ IsFiniteSet(M) /\ MembersOf(g) # {} /\ MembersOf(g) \subseteq M
    BY <1>1 DEF IsTeam
  <2>2. m \in M
    BY <1>1
  <2>. HIDE DEF M, F, m, g, ids
  <2>3. IsMakers(CreateSteps(Min(MembersOf(g)), ids, g), M, MembersOf(g))
    BY <1>1, <1>2, <2>1, MakersShape DEF g, ids
  <2>. QED  BY <1>1, <1>3, <2>2, <2>3, Zenon DEF g, ids
<1>6. /\ (u \in F /\ u # m) => IsMembers(s, M, F)
      /\ u \notin F => IsBystanders(s)
  <2>1. M \in SUBSET Int /\ IsFiniteSet(M) /\ MembersOf(g) # {} /\ MembersOf(g) \subseteq M
    BY <1>1 DEF IsTeam
  <2>2. s = CreateSteps(u, ids, g)
    BY <1>3
  <2>. HIDE DEF M, F, m, g, ids, s
  <2>3. /\ (u \in MembersOf(g) /\ u # Min(MembersOf(g))) => IsMembers(CreateSteps(u, ids, g), M, MembersOf(g))
        /\ u \notin MembersOf(g) => IsBystanders(CreateSteps(u, ids, g))
    BY <1>1, <1>2, <2>1, OthersShape DEF g, ids
  <2>. QED  BY <1>1, <2>2, <2>3, Zenon DEF g
<1>7. /\ n \in Nat \ {0} /\ Len(Script(p, m, i)) = n + 3 /\ MakeLeft(p, i) = n + 2 /\ SetLeft(p, i) = 2
      /\ Size(p, u, i) = Len(s)
  <2>1. n \in Nat \ {0} /\ Len(Script(p, m, i)) = n + 3
    BY <1>5, Zenon DEF IsMakers
  <2>2. MakeLeft(p, i) = Len(Script(p, m, i)) - 1
    BY DEF MakeLeft, Size
  <2>3. Size(p, u, i) = Len(s) /\ SetLeft(p, i) = 2
    BY DEF Size, SetLeft
  <2>. HIDE DEF n
  <2>. QED  BY <2>1, <2>2, <2>3
<1>8. /\ Barriers(p, i) = 2 /\ BarLeft(p, u, i, 1) = Len(s) /\ BarLeft(p, u, i, 2) = 1
      /\ \A l : StepAt(p, u, i, l) = LeftOf(s, l)
  BY DEF Barriers, BarLeft, Size, StepAt
<1>9. 1 .. 2 = {1, 2}
  OBVIOUS
<1>. HIDE DEF M, F, m, n, s, g, ids
<1>10. CASE u = m
  <2>1. /\ Talk(s, {Rank(M, w) : w \in F \ {m}}, {}) /\ Len(s) = n + 3
        /\ LeftOf(s, n + 3).do = "find" /\ LeftOf(s, n + 2).do = "newteam"
        /\ \A l \in 3 .. n + 1 :
               /\ LeftOf(s, l).do = "send"
               /\ \E w \in F \ {m} : LeftOf(s, l).peer = Rank(M, w) /\ LeftOf(s, l).newid = Rank(F, w)
        /\ LeftOf(s, 2).do = "init" /\ LeftOf(s, 1).do = "find"
    <3>1. s = Script(p, m, i)
      BY <1>10 DEF s
    <3>. QED  BY ONLY <1>1, <1>5, <3>1 DEF IsMakers, n
  <2>2. TalkOK(p, u, i)
    <3>1. To = {Rank(M, w) : w \in F \ {m}}
      BY <1>1, <1>4, <1>10
    <3>2. From = {}
      <4>1. \A v \in M : ~ Pair(p, i, v, u)
        BY <1>1, <1>4, <1>10
      <4>. QED  BY <4>1
    <3>. HIDE DEF To, From
    <3>3. Talk(s, To, From)
      BY <2>1, <3>1, <3>2
    <3>. QED  BY <3>3 DEF TalkOK, To, From, s, M
  <2>3. BarrierOK(p, u, i)
    <3>1. \A l \in 1 .. Len(s) : LeftOf(s, l).do = "find" <=> (l = Len(s) \/ l = 1)
      BY <1>7, <2>1
    <3>. QED  BY <1>7, <1>8, <1>9, <2>1, <3>1 DEF BarrierOK
  <2>4. MakingOK(p, u, i)
    <3>1. ASSUME NEW l \in 1 .. n + 3 PROVE MakingAt(p, u, i, l)
      <4>1. StepAt(p, u, i, l) = LeftOf(s, l) /\ u \in F /\ MakeLeft(p, i) = n + 2 /\ SetLeft(p, i) = 2
        BY <1>1, <1>7, <1>8, <1>10
      <4>2. CASE l \in {1, n + 3}
        BY <1>7, <1>10, <2>1, <4>1, <4>2 DEF MakingAt, m
      <4>3. CASE l = 2
        BY <1>7, <1>10, <2>1, <4>1, <4>3 DEF MakingAt, m, F
      <4>4. CASE l = n + 2
        BY <1>7, <1>10, <2>1, <4>1, <4>4 DEF MakingAt, m
      <4>5. CASE l \in 3 .. n + 1
        <5>1. /\ LeftOf(s, l).do = "send" /\ l # 2 /\ l # n + 2 /\ 2 < l /\ l < n + 2
              /\ \E w \in F \ {m} : LeftOf(s, l).peer = Rank(M, w) /\ LeftOf(s, l).newid = Rank(F, w)
          BY <1>7, <2>1, <4>5
        <5>. QED  BY <1>10, <4>1, <5>1 DEF MakingAt, m, F, M
      <4>. QED  BY <1>7, <4>2, <4>3, <4>4, <4>5
    <3>. QED  BY <1>7, <2>1, <3>1 DEF MakingOK
  <2>5. SizeOK(p, u, i)
    BY <1>1, <1>7, <1>10, <2>1 DEF SizeOK, F, m, n
  <2>. QED  BY <2>2, <2>3, <2>4, <2>5 DEF CallOK
<1>11. CASE u \in F /\ u # m
  <2>1. /\ Talk(s, {}, {Rank(M, m)}) /\ Len(s) = 4
        /\ LeftOf(s, 4).do = "find" /\ LeftOf(s, 3).do = "recv" /\ LeftOf(s, 2).do = "init"
        /\ LeftOf(s, 1).do = "find"
    BY <1>1, <1>6, <1>11, Zenon DEF IsMembers
  <2>2. TalkOK(p, u, i)
    <3>1. To = {}
      <4>1. \A v \in M : ~ Pair(p, i, u, v)
        BY <1>4, <1>11
      <4>. QED  BY <4>1
    <3>2. From = {Rank(M, m)}
      BY <1>1, <1>4, <1>11
    <3>. HIDE DEF To, From
    <3>3. Talk(s, To, From)
      BY <2>1, <3>1, <3>2
    <3>. QED  BY <3>3 DEF TalkOK, To, From, s, M
  <2>3. BarrierOK(p, u, i)
    <3>1. \A l \in 1 .. Len(s) : LeftOf(s, l).do = "find" <=> (l = Len(s) \/ l = 1)
      BY <2>1
    <3>. QED  BY <1>7, <1>8, <1>9, <2>1, <3>1 DEF BarrierOK
  <2>4. MakingOK(p, u, i)
    <3>1. ASSUME NEW l \in 1 .. 4 PROVE MakingAt(p, u, i, l)
      <4>1. StepAt(p, u, i, l) = LeftOf(s, l) /\ u \in F
        BY <1>8, <1>11
      <4>2. CASE l \in {1, 4}
        BY <1>11, <2>1, <4>1, <4>2 DEF MakingAt, m, F
      <4>3. CASE l = 2
        BY <1>11, <2>1, <4>1, <4>3 DEF MakingAt, m, F
      <4>4. CASE l = 3
        <5>1. LeftOf(s, l).peer = Rank(M, m)
          <6>1. \A k \in 1 .. Len(s) : LeftOf(s, k).do = "recv" => LeftOf(s, k).peer \in {Rank(M, m)}
            BY <2>1 DEF Talk
          <6>. QED  BY <2>1, <4>4, <6>1
        <5>. QED  BY <1>11, <2>1, <4>1, <4>4, <5>1 DEF MakingAt, m, F, M
      <4>. QED  BY <4>2, <4>3, <4>4
    <3>. QED  BY <1>7, <2>1, <3>1 DEF MakingOK
  <2>5. SizeOK(p, u, i)
    BY <1>7, <1>11, <2>1 DEF SizeOK, F, m
  <2>. QED  BY <2>2, <2>3, <2>4, <2>5 DEF CallOK
<1>12. CASE u \notin F
  <2>1. /\ Talk(s, {}, {}) /\ Len(s) = 2 /\ LeftOf(s, 2).do = "find" /\ LeftOf(s, 1).do = "find"
    BY <1>6, <1>12, Zenon DEF IsBystanders
  <2>2. TalkOK(p, u, i)
    <3>1. To = {} /\ From = {}
      <4>1. \A v \in M : ~ Pair(p, i, v, u) /\ ~ Pair(p, i, u, v)
        BY <1>1, <1>4, <1>12
      <4>. QED  BY <4>1
    <3>. HIDE DEF To, From
    <3>3. Talk(s, To, From)
      BY <2>1, <3>1
    <3>. QED  BY <3>3 DEF TalkOK, To, From, s, M
  <2>3. BarrierOK(p, u, i)
    BY <1>7, <1>8, <1>9, <2>1 DEF BarrierOK
  <2>4. MakingOK(p, u, i)
    <3>1. ASSUME NEW l \in 1 .. 2 PROVE MakingAt(p, u, i, l)
      <4>1. StepAt(p, u, i, l).do = "find" /\ u \notin F /\ u # m
        BY <1>1, <1>8, <1>12, <2>1
      <4>. QED  BY <4>1 DEF MakingAt, m, F
    <3>. QED  BY <1>7, <2>1, <3>1 DEF MakingOK
  <2>5. SizeOK(p, u, i)
    BY <1>1, <1>7, <1>12, <2>1 DEF SizeOK, F, m
  <2>. QED  BY <2>2, <2>3, <2>4, <2>5 DEF CallOK
<1>. QED  BY <1>10, <1>11, <1>12

\* The ranks of all members but one.
LEMMA RankSets ==
    ASSUME NEW M, IsTeam(M), NEW root \in 0 .. Cardinality(M) - 1
    PROVE  /\ {Rank(M, w) : w \in {v \in M : Rank(M, v) # root}} = (0 .. Cardinality(M) - 1) \ {root}
           /\ {Rank(M, w) : w \in {v \in M : Rank(M, v) = root}} = {root}
<1>1. \A k \in 0 .. Cardinality(M) - 1 : \E v \in M : Rank(M, v) = k
  BY RankOnto DEF IsTeam
<1>2. \A v \in M : Rank(M, v) \in 0 .. Cardinality(M) - 1
  BY DEF IsTeam
<1>. QED  BY <1>1, <1>2

\* What is common to the calls of a unit by its id in the team.
LEMMA CallParts ==
    ASSUME NEW p, WellFormed(p), NEW i \in DOMAIN p, NEW u \in Mem(p, i)
    PROVE  /\ IsTeam(Mem(p, i)) /\ Rank(Mem(p, i), u) \in 0 .. Cardinality(Mem(p, i)) - 1
           /\ Cardinality(Mem(p, i)) \in Nat \ {0} /\ 0 \in 0 .. Cardinality(Mem(p, i)) - 1
           /\ Size(p, u, i) = Len(Script(p, u, i))
           /\ \A l : StepAt(p, u, i, l) = LeftOf(Script(p, u, i), l)
<1>1. IsTeam(Mem(p, i))
  BY ProgramTeams
<1>. QED  BY <1>1 DEF IsTeam, Size, StepAt

\* A call with no FIFO.
LEMMA SilentTalk ==
    ASSUME NEW p, WellFormed(p), NEW i \in DOMAIN p, NEW u \in Mem(p, i),
           p[i].kind \in {"destroy", "lockfree"}, Talk(Script(p, u, i), {}, {})
    PROVE  TalkOK(p, u, i)
<1>1. \A v, w : ~ Pair(p, i, v, w)
  BY DEF Pair
<1>. DEFINE To == {Rank(Mem(p, i), w) : w \in {v \in Mem(p, i) : Pair(p, i, u, v)}}
            From == {Rank(Mem(p, i), w) : w \in {v \in Mem(p, i) : Pair(p, i, v, u)}}
<1>2. To = {} /\ From = {}
  BY <1>1
<1>. HIDE DEF To, From
<1>3. Talk(Script(p, u, i), To, From)
  BY <1>2
<1>. QED  BY <1>3 DEF TalkOK, To, From

\* dart_team_destroy, in terms of units.
LEMMA DestroyCall ==
    ASSUME NEW p, WellFormed(p), NEW i \in DOMAIN p, NEW u \in Mem(p, i), p[i].kind = "destroy"
    PROVE  CallOK(p, u, i)
<1>. DEFINE s == Script(p, u, i)
            r == Rank(Mem(p, i), u)
<1>1. s = DestroySteps(r)
  BY DEF Script, Steps
<1>2. /\ Size(p, u, i) = Len(s) /\ \A l : StepAt(p, u, i, l) = LeftOf(s, l)
  BY CallParts
<1>3. /\ Barriers(p, i) = 2 /\ BarLeft(p, u, i, 1) = Size(p, u, i) /\ BarLeft(p, u, i, 2) = Size(p, u, i) - 2
  BY DEF Barriers, BarLeft
<1>. HIDE DEF s, r
<1>4. /\ Talk(s, {}, {})
      /\ r = 0 => /\ Len(s) = 4
                  /\ LeftOf(s, 4).do = "find" /\ LeftOf(s, 3).do = "unlink"
                  /\ LeftOf(s, 2).do = "find" /\ LeftOf(s, 1).do = "delteam"
      /\ r # 0 => /\ Len(s) = 3
                  /\ LeftOf(s, 3).do = "find" /\ LeftOf(s, 2).do = "unlink" /\ LeftOf(s, 1).do = "find"
  BY <1>1, DestroyShape
<1>5. TalkOK(p, u, i)
  BY <1>4, SilentTalk DEF s
<1>6. 1 .. 2 = {1, 2} /\ 1 .. 3 = {1, 2, 3} /\ 1 .. 4 = {1, 2, 3, 4}
  OBVIOUS
<1>7. BarrierOK(p, u, i) /\ MakingOK(p, u, i)
  <2>1. CASE r = 0
    <3>1. Len(s) = 4 /\ Size(p, u, i) = 4 /\ BarLeft(p, u, i, 1) = 4 /\ BarLeft(p, u, i, 2) = 2
      <4>1. Len(s) = 4
        BY <1>4, <2>1
      <4>2. Size(p, u, i) = 4
        BY <1>2, <4>1, Zenon
      <4>. QED  BY <1>3, <4>1, <4>2
    <3>2. /\ StepAt(p, u, i, 4).do = "find" /\ StepAt(p, u, i, 3).do = "unlink"
          /\ StepAt(p, u, i, 2).do = "find" /\ StepAt(p, u, i, 1).do = "delteam"
      BY <1>2, <1>4, <2>1
    <3>3. BarrierOK(p, u, i)
      BY <1>3, <1>6, <3>1, <3>2 DEF BarrierOK
    <3>4. ASSUME NEW l \in 1 .. 4 PROVE MakingAt(p, u, i, l)
      BY <1>6, <2>1, <3>1, <3>2, <3>4 DEF MakingAt, r
    <3>. QED  BY <3>1, <3>3, <3>4 DEF MakingOK
  <2>2. CASE r # 0
    <3>1. Len(s) = 3 /\ Size(p, u, i) = 3 /\ BarLeft(p, u, i, 1) = 3 /\ BarLeft(p, u, i, 2) = 1
      <4>1. Len(s) = 3
        BY <1>4, <2>2
      <4>2. Size(p, u, i) = 3
        BY <1>2, <4>1, Zenon
      <4>. QED  BY <1>3, <4>1, <4>2
    <3>2. /\ StepAt(p, u, i, 3).do = "find" /\ StepAt(p, u, i, 2).do = "unlink"
          /\ StepAt(p, u, i, 1).do = "find"
      BY <1>2, <1>4, <2>2
    <3>3. BarrierOK(p, u, i)
      BY <1>3, <1>6, <3>1, <3>2 DEF BarrierOK
    <3>4. ASSUME NEW l \in 1 .. 3 PROVE MakingAt(p, u, i, l)
      BY <1>6, <2>2, <3>1, <3>2, <3>4 DEF MakingAt, r
    <3>. QED  BY <3>1, <3>3, <3>4 DEF MakingOK
  <2>. QED  BY <2>1, <2>2
<1>9. SizeOK(p, u, i)
  BY <1>2, <1>4 DEF SizeOK, r
<1>. QED  BY <1>5, <1>7, <1>9 DEF CallOK

\* dart_team_lock_free, in terms of units.
LEMMA LockFreeCall ==
    ASSUME NEW p, WellFormed(p), NEW i \in DOMAIN p, NEW u \in Mem(p, i), p[i].kind = "lockfree"
    PROVE  CallOK(p, u, i)
<1>. DEFINE s == Script(p, u, i)
            r == Rank(Mem(p, i), u)
<1>1. s = LockFreeSteps(r)
  BY DEF Script, Steps
<1>2. /\ Size(p, u, i) = Len(s) /\ \A l : StepAt(p, u, i, l) = LeftOf(s, l)
  BY CallParts
<1>3. Barriers(p, i) = 1 /\ BarLeft(p, u, i, 1) = 1
  BY DEF Barriers, BarLeft
<1>. HIDE DEF s, r
<1>4. /\ Talk(s, {}, {})
      /\ r = 0 => /\ Len(s) = 2
                  /\ LeftOf(s, 2).do = "droplock" /\ LeftOf(s, 1).do = "find"
      /\ r # 0 => Len(s) = 1 /\ LeftOf(s, 1).do = "find"
  BY <1>1, LockFreeShape
<1>5. TalkOK(p, u, i)
  BY <1>4, SilentTalk DEF s
<1>6. 1 .. 2 = {1, 2} /\ 1 .. 1 = {1}
  OBVIOUS
<1>7. BarrierOK(p, u, i)
  BY <1>2, <1>3, <1>4, <1>6 DEF BarrierOK
<1>8. MakingOK(p, u, i)
  <2>1. ASSUME NEW l \in 1 .. Len(s) PROVE MakingAt(p, u, i, l)
    BY <1>2, <1>3, <1>4, <1>6, <2>1 DEF MakingAt, r
  <2>2. Len(s) \in Nat
    BY <1>4
  <2>. QED  BY <1>2, <2>1, <2>2 DEF MakingOK
<1>9. SizeOK(p, u, i)
  BY <1>2, <1>4 DEF SizeOK, r
<1>. QED  BY <1>5, <1>7, <1>8, <1>9 DEF CallOK

\* A call that sends from, or to, the unit with rank root.
LEMMA RootTalk ==
    ASSUME NEW p, WellFormed(p), NEW i \in DOMAIN p, NEW u \in Mem(p, i),
           NEW root \in 0 .. Cardinality(Mem(p, i)) - 1
    PROVE  LET M == Mem(p, i)  R == (0 .. Cardinality(M) - 1) \ {root}  s == Script(p, u, i)
               r == Rank(M, u)
           IN  /\ (/\ \A v, w \in M : Pair(p, i, v, w) <=> Rank(M, v) = root /\ Rank(M, w) # root
                   /\ Talk(s, IF r = root THEN R ELSE {}, IF r = root THEN {} ELSE {root}))
                  => TalkOK(p, u, i)
               /\ (/\ \A v, w \in M : Pair(p, i, v, w) <=> Rank(M, w) = root /\ Rank(M, v) # root
                   /\ Talk(s, IF r = root THEN {} ELSE {root}, IF r = root THEN R ELSE {}))
                  => TalkOK(p, u, i)
               /\ (/\ \A v, w \in M : Pair(p, i, v, w) <=> (Rank(M, v) = root) # (Rank(M, w) = root)
                   /\ Talk(s, IF r = root THEN R ELSE {root}, IF r = root THEN R ELSE {root}))
                  => TalkOK(p, u, i)
<1>. DEFINE M == Mem(p, i)
            R == (0 .. Cardinality(M) - 1) \ {root}
            s == Script(p, u, i)
            r == Rank(M, u)
            To == {Rank(M, w) : w \in {v \in M : Pair(p, i, u, v)}}
            From == {Rank(M, w) : w \in {v \in M : Pair(p, i, v, u)}}
            Is == {v \in M : Rank(M, v) = root}
            Isnt == {v \in M : Rank(M, v) # root}
<1>1. R = {Rank(M, w) : w \in Isnt} /\ {root} = {Rank(M, w) : w \in Is}
  BY CallParts, RankSets
<1>2. u \in M /\ {Rank(M, w) : w \in {}} = {}
  OBVIOUS
<1>3. Talk(s, To, From) => TalkOK(p, u, i)
  BY DEF TalkOK
<1>. DEFINE RankSet == {v \in M : Pair(p, i, u, v)}
            FromSet == {v \in M : Pair(p, i, v, u)}
<1>4. To = {Rank(M, w) : w \in RankSet} /\ From = {Rank(M, w) : w \in FromSet}
  OBVIOUS
<1>5. ASSUME \A v, w \in M : Pair(p, i, v, w) <=> Rank(M, v) = root /\ Rank(M, w) # root,
             Talk(s, IF r = root THEN R ELSE {}, IF r = root THEN {} ELSE {root})
      PROVE  TalkOK(p, u, i)
  <2>1. /\ RankSet = IF r = root THEN Isnt ELSE {}
        /\ FromSet = IF r = root THEN {} ELSE Is
    <3>. HIDE DEF M
    <3>. QED  BY <1>2, <1>5
  <2>. HIDE DEF To, From, M, R, s, r, RankSet, FromSet, Is, Isnt
  <2>2. To = (IF r = root THEN R ELSE {}) /\ From = (IF r = root THEN {} ELSE {root})
    BY <1>1, <1>2, <1>4, <2>1
  <2>. QED  BY <1>3, <1>5, <2>2
<1>6. ASSUME \A v, w \in M : Pair(p, i, v, w) <=> Rank(M, w) = root /\ Rank(M, v) # root,
             Talk(s, IF r = root THEN {} ELSE {root}, IF r = root THEN R ELSE {})
      PROVE  TalkOK(p, u, i)
  <2>1. /\ RankSet = IF r = root THEN {} ELSE Is
        /\ FromSet = IF r = root THEN Isnt ELSE {}
    <3>. HIDE DEF M
    <3>. QED  BY <1>2, <1>6
  <2>. HIDE DEF To, From, M, R, s, r, RankSet, FromSet, Is, Isnt
  <2>2. To = (IF r = root THEN {} ELSE {root}) /\ From = (IF r = root THEN R ELSE {})
    BY <1>1, <1>2, <1>4, <2>1
  <2>. QED  BY <1>3, <1>6, <2>2
<1>7. ASSUME \A v, w \in M : Pair(p, i, v, w) <=> (Rank(M, v) = root) # (Rank(M, w) = root),
             Talk(s, IF r = root THEN R ELSE {root}, IF r = root THEN R ELSE {root})
      PROVE  TalkOK(p, u, i)
  <2>1. /\ RankSet = IF r = root THEN Isnt ELSE Is
        /\ FromSet = IF r = root THEN Isnt ELSE Is
    <3>. HIDE DEF M
    <3>1. CASE r = root
      BY <1>2, <1>7, <3>1
    <3>2. CASE r # root
      BY <1>2, <1>7, <3>2
    <3>. QED  BY <3>1, <3>2
  <2>. HIDE DEF To, From, M, R, s, r, RankSet, FromSet, Is, Isnt
  <2>2. To = (IF r = root THEN R ELSE {root}) /\ From = (IF r = root THEN R ELSE {root})
    BY <1>1, <1>2, <1>4, <2>1
  <2>. QED  BY <1>3, <1>7, <2>2
<1>. QED  BY <1>5, <1>6, <1>7, Zenon

\* A call that only talks makes nothing.
LEMMA PlainMaking ==
    ASSUME NEW p, NEW i \in DOMAIN p, NEW u \in Mem(p, i),
           p[i].kind \in {"bcast", "scatter", "gather", "allgather"}, Size(p, u, i) \in Nat,
           \A l \in 1 .. Size(p, u, i) : StepAt(p, u, i, l).do \in {"find", "send", "recv"}
    PROVE  MakingOK(p, u, i) /\ SizeOK(p, u, i)
<1>1. ASSUME NEW l \in 1 .. Size(p, u, i) PROVE MakingAt(p, u, i, l)
  BY DEF MakingAt
<1>. QED  BY <1>1 DEF MakingOK, SizeOK

\* dart_bcast, in terms of units.
LEMMA BcastCall ==
    ASSUME NEW p, WellFormed(p), NEW i \in DOMAIN p, NEW u \in Mem(p, i), p[i].kind = "bcast"
    PROVE  CallOK(p, u, i)
<1>. DEFINE s == Script(p, u, i)
            r == Rank(Mem(p, i), u)
            n == Cardinality(Mem(p, i))
            root == p[i].arg
            k == Len(ScatterSteps(r, n, root))
            R == (0 .. n - 1) \ {root}
<1>1. s = BcastSteps(r, n, root)
  BY DEF Script, Steps
<1>2. /\ Size(p, u, i) = Len(s) /\ (\A l : StepAt(p, u, i, l) = LeftOf(s, l))
      /\ r \in 0 .. n - 1 /\ n \in Nat /\ root \in 0 .. n - 1
  BY CallParts, ProgramKinds
<1>3. Barriers(p, i) = 2 /\ BarLeft(p, u, i, 1) = Size(p, u, i) /\ BarLeft(p, u, i, 2) = 1
  BY DEF Barriers, BarLeft
<1>4. \A v, w \in Mem(p, i) : Pair(p, i, v, w) <=> Rank(Mem(p, i), v) = root /\ Rank(Mem(p, i), w) # root
  BY DEF Pair
<1>. HIDE DEF s, r, n, root, k
<1>5. /\ Talk(s, IF r = root THEN R ELSE {}, IF r = root THEN {} ELSE {root})
      /\ k \in Nat /\ Len(s) = k + 2 /\ LeftOf(s, 1).do = "find" /\ LeftOf(s, k + 2).do = "find"
      /\ \A l \in 2 .. k + 1 : LeftOf(s, l).do = IF r = root THEN "send" ELSE "recv"
  <2>1. IsBcast(s, k, n, r, root)
    BY <1>1, <1>2, BcastShape DEF k
  <2>. QED  BY <2>1, Zenon DEF IsBcast
<1>6. TalkOK(p, u, i)
  BY <1>2, <1>4, <1>5, RootTalk DEF s, r, n
<1>7. \A l \in 2 .. k + 1 : StepAt(p, u, i, l).do \in {"send", "recv"}
  BY <1>2, <1>5
<1>8. StepAt(p, u, i, 1).do = "find" /\ StepAt(p, u, i, k + 2).do = "find" /\ Size(p, u, i) = k + 2
  BY <1>2, <1>5, Zenon
<1>9. 1 .. 2 = {1, 2}
  OBVIOUS
<1>10. BarrierOK(p, u, i)
  <2>1. \A l \in 1 .. k + 2 : StepAt(p, u, i, l).do = "find" <=> l \in {1, k + 2}
    BY <1>5, <1>7, <1>8
  <2>. QED  BY <1>3, <1>5, <1>8, <1>9, <2>1 DEF BarrierOK
<1>11. MakingOK(p, u, i) /\ SizeOK(p, u, i)
  <2>1. \A l \in 1 .. k + 2 : StepAt(p, u, i, l).do \in {"find", "send", "recv"}
    BY <1>5, <1>7, <1>8
  <2>. QED  BY <1>5, <1>8, <2>1, PlainMaking
<1>. QED  BY <1>6, <1>10, <1>11 DEF CallOK

\* dart_scatter, in terms of units.
LEMMA ScatterCall ==
    ASSUME NEW p, WellFormed(p), NEW i \in DOMAIN p, NEW u \in Mem(p, i), p[i].kind = "scatter"
    PROVE  CallOK(p, u, i)
<1>. DEFINE s == Script(p, u, i)
            r == Rank(Mem(p, i), u)
            n == Cardinality(Mem(p, i))
            root == p[i].arg
            R == (0 .. n - 1) \ {root}
<1>1. s = ScatterSteps(r, n, root)
  BY DEF Script, Steps
<1>2. /\ Size(p, u, i) = Len(s) /\ (\A l : StepAt(p, u, i, l) = LeftOf(s, l))
      /\ r \in 0 .. n - 1 /\ n \in Nat /\ root \in 0 .. n - 1
  BY CallParts, ProgramKinds
<1>3. Barriers(p, i) = 0
  BY DEF Barriers
<1>4. \A v, w \in Mem(p, i) : Pair(p, i, v, w) <=> Rank(Mem(p, i), v) = root /\ Rank(Mem(p, i), w) # root
  BY DEF Pair
<1>. HIDE DEF s, r, n, root
<1>5. /\ Talk(s, IF r = root THEN R ELSE {}, IF r = root THEN {} ELSE {root})
      /\ Chatter(s) /\ Len(s) \in Nat
  <2>1. Talk(s, IF r = root THEN R ELSE {}, IF r = root THEN {} ELSE {root}) /\ Chatter(s)
    BY <1>1, <1>2, HalvesTalk
  <2>. HIDE DEF R
  <2>2. s \in Seq(StepRec)
    BY <2>1 DEF Talk
  <2>. QED  BY <2>1, <2>2, LeftOfType
<1>6. TalkOK(p, u, i)
  BY <1>2, <1>4, <1>5, RootTalk DEF s, r, n
<1>7. \A l \in 1 .. Size(p, u, i) : StepAt(p, u, i, l).do \in {"send", "recv"}
  BY <1>2, <1>5 DEF Chatter
<1>8. 1 .. 0 = {}
  OBVIOUS
<1>10. BarrierOK(p, u, i)
  BY <1>3, <1>7, <1>8 DEF BarrierOK
<1>11. MakingOK(p, u, i) /\ SizeOK(p, u, i)
  BY <1>2, <1>5, <1>7, PlainMaking
<1>. QED  BY <1>6, <1>10, <1>11 DEF CallOK

\* dart_gather, in terms of units.
LEMMA GatherCall ==
    ASSUME NEW p, WellFormed(p), NEW i \in DOMAIN p, NEW u \in Mem(p, i), p[i].kind = "gather"
    PROVE  CallOK(p, u, i)
<1>. DEFINE s == Script(p, u, i)
            r == Rank(Mem(p, i), u)
            n == Cardinality(Mem(p, i))
            root == p[i].arg
            k == Len(GatherPart(r, n, root))
            R == (0 .. n - 1) \ {root}
<1>1. s = GatherSteps(r, n, root)
  BY DEF Script, Steps
<1>2. /\ Size(p, u, i) = Len(s) /\ (\A l : StepAt(p, u, i, l) = LeftOf(s, l))
      /\ r \in 0 .. n - 1 /\ n \in Nat /\ root \in 0 .. n - 1
  BY CallParts, ProgramKinds
<1>3. Barriers(p, i) = 1 /\ BarLeft(p, u, i, 1) = 1
  BY DEF Barriers, BarLeft
<1>4. \A v, w \in Mem(p, i) : Pair(p, i, v, w) <=> Rank(Mem(p, i), w) = root /\ Rank(Mem(p, i), v) # root
  BY DEF Pair
<1>. HIDE DEF s, r, n, root, k
<1>5. /\ Talk(s, IF r = root THEN {} ELSE {root}, IF r = root THEN R ELSE {})
      /\ k \in Nat /\ Len(s) = k + 1 /\ LeftOf(s, 1).do = "find"
      /\ \A l \in 2 .. k + 1 : LeftOf(s, l).do \in {"send", "recv"}
  <2>1. IsGather(s, k, n, r, root)
    BY <1>1, <1>2, GatherShape DEF k
  <2>. QED  BY <2>1, Zenon DEF IsGather
<1>6. TalkOK(p, u, i)
  BY <1>2, <1>4, <1>5, RootTalk DEF s, r, n
<1>7. \A l \in 2 .. k + 1 : StepAt(p, u, i, l).do \in {"send", "recv"}
  BY <1>2, <1>5
<1>8. StepAt(p, u, i, 1).do = "find" /\ Size(p, u, i) = k + 1
  BY <1>2, <1>5, Zenon
<1>9. 1 .. 1 = {1}
  OBVIOUS
<1>10. BarrierOK(p, u, i)
  <2>1. \A l \in 1 .. k + 1 : StepAt(p, u, i, l).do = "find" <=> l = 1
    BY <1>5, <1>7, <1>8
  <2>. QED  BY <1>3, <1>5, <1>8, <1>9, <2>1 DEF BarrierOK
<1>11. MakingOK(p, u, i) /\ SizeOK(p, u, i)
  <2>1. \A l \in 1 .. k + 1 : StepAt(p, u, i, l).do \in {"find", "send", "recv"}
    BY <1>5, <1>7, <1>8
  <2>. QED  BY <1>5, <1>8, <2>1, PlainMaking
<1>. QED  BY <1>6, <1>10, <1>11 DEF CallOK

\* dart_allgather, in terms of units.
LEMMA AllgatherCall ==
    ASSUME NEW p, WellFormed(p), NEW i \in DOMAIN p, NEW u \in Mem(p, i), p[i].kind = "allgather"
    PROVE  CallOK(p, u, i)
<1>. DEFINE s == Script(p, u, i)
            r == Rank(Mem(p, i), u)
            n == Cardinality(Mem(p, i))
            k == Len(BcastSteps(r, n, 0))
            R == (0 .. n - 1) \ {0}
<1>1. s = AllgatherSteps(r, n)
  BY DEF Script, Steps
<1>2. /\ Size(p, u, i) = Len(s) /\ (\A l : StepAt(p, u, i, l) = LeftOf(s, l))
      /\ r \in 0 .. n - 1 /\ n \in Nat /\ 0 \in 0 .. n - 1
  BY CallParts
<1>3. /\ Barriers(p, i) = 3 /\ BarLeft(p, u, i, 1) = k + 2 - 1 /\ BarLeft(p, u, i, 2) = k + 2 - 2
      /\ BarLeft(p, u, i, 3) = 1
  BY DEF Barriers, BarLeft
<1>4. \A v, w \in Mem(p, i) : Pair(p, i, v, w) <=> (Rank(Mem(p, i), v) = 0) # (Rank(Mem(p, i), w) = 0)
  BY DEF Pair
<1>. HIDE DEF s, r, n, k
<1>5. /\ Talk(s, IF r = 0 THEN R ELSE {0}, IF r = 0 THEN R ELSE {0})
      /\ k \in Nat /\ k >= 2 /\ Len(s) \in Nat /\ Len(s) >= k + 1
      /\ LeftOf(s, 1).do = "find" /\ LeftOf(s, k).do = "find" /\ LeftOf(s, k + 1).do = "find"
      /\ \A l \in 2 .. k - 1 : LeftOf(s, l).do \in {"send", "recv"}
      /\ \A l \in k + 2 .. Len(s) : LeftOf(s, l).do \in {"send", "recv"}
  <2>1. IsAllgather(s, k, n, r)
    BY <1>1, <1>2, AllgatherShape DEF k
  <2>. QED  BY <2>1, Zenon DEF IsAllgather
<1>6. TalkOK(p, u, i)
  BY <1>2, <1>4, <1>5, RootTalk DEF s, r, n
<1>7. /\ \A l \in 2 .. k - 1 : StepAt(p, u, i, l).do \in {"send", "recv"}
      /\ \A l \in k + 2 .. Size(p, u, i) : StepAt(p, u, i, l).do \in {"send", "recv"}
  BY <1>2, <1>5
<1>8. /\ StepAt(p, u, i, 1).do = "find" /\ StepAt(p, u, i, k).do = "find" /\ StepAt(p, u, i, k + 1).do = "find"
      /\ Size(p, u, i) \in Nat /\ Size(p, u, i) >= k + 1
  BY <1>2, <1>5, Zenon
<1>9. 1 .. 3 = {1, 2, 3}
  OBVIOUS
<1>10. BarLeft(p, u, i, 1) = k + 1 /\ BarLeft(p, u, i, 2) = k
  BY <1>3, <1>5
<1>11. \A l \in 1 .. Size(p, u, i) : l = 1 \/ l = k \/ l = k + 1 \/ l \in 2 .. k - 1 \/ l \in k + 2 .. Size(p, u, i)
  BY <1>5, <1>8
<1>12. BarrierOK(p, u, i)
  <2>1. \A l \in 1 .. Size(p, u, i) : StepAt(p, u, i, l).do = "find" <=> l \in {1, k, k + 1}
    BY <1>5, <1>7, <1>8, <1>11
  <2>. QED  BY <1>3, <1>5, <1>8, <1>9, <1>10, <2>1 DEF BarrierOK
<1>13. MakingOK(p, u, i) /\ SizeOK(p, u, i)
  <2>1. \A l \in 1 .. Size(p, u, i) : StepAt(p, u, i, l).do \in {"find", "send", "recv"}
    BY <1>7, <1>8, <1>11
  <2>. QED  BY <1>8, <2>1, PlainMaking
<1>. QED  BY <1>6, <1>12, <1>13 DEF CallOK

\* dart_team_lock_init, in terms of units.
LEMMA LockInitCall ==
    ASSUME NEW p, WellFormed(p), NEW i \in DOMAIN p, NEW u \in Mem(p, i), p[i].kind = "lockinit"
    PROVE  CallOK(p, u, i)
<1>. DEFINE s == Script(p, u, i)
            M == Mem(p, i)
            m == Maker(p, i)
            r == Rank(M, u)
            n == Cardinality(M)
            k == Len(ScatterSteps(r, n, 0))
            R == (0 .. n - 1) \ {0}
<1>1. s = LockInitSteps(r, n)
  BY DEF Script, Steps
<1>2. /\ Size(p, u, i) = Len(s) /\ (\A l : StepAt(p, u, i, l) = LeftOf(s, l))
      /\ r \in 0 .. n - 1 /\ n \in Nat /\ 0 \in 0 .. n - 1
  BY CallParts
<1>3. /\ Barriers(p, i) = 2 /\ BarLeft(p, u, i, 1) = Size(p, u, i) - (IF r = 0 THEN 1 ELSE 0)
      /\ BarLeft(p, u, i, 2) = 2
  BY DEF Barriers, BarLeft
<1>4. \A v, w \in M : Pair(p, i, v, w) <=> Rank(M, v) = 0 /\ Rank(M, w) # 0
  BY DEF Pair
<1>5. For(p, i) = M /\ u \in M /\ (r = 0 <=> u = m) /\ SetLeft(p, i) = 1 /\ Rank(M, m) = 0
  <2>1. For(p, i) = M /\ SetLeft(p, i) = 1
    BY DEF For, SetLeft
  <2>2. m \in For(p, i) /\ \A v \in For(p, i) : Rank(For(p, i), v) = 0 <=> v = m
    BY ProgramTeams
  <2>. QED  BY <2>1, <2>2
<1>6. MakeLeft(p, i) = Size(p, m, i) - 0
  BY DEF MakeLeft
<1>. HIDE DEF s, r, n, k, M, m
<1>7. /\ Talk(s, IF r = 0 THEN R ELSE {}, IF r = 0 THEN {} ELSE {0})
      /\ k \in Nat /\ Len(s) = IF r = 0 THEN k + 4 ELSE k + 3
      /\ LeftOf(s, 1).do = "setlock" /\ LeftOf(s, 2).do = "find" /\ LeftOf(s, k + 3).do = "find"
      /\ \A l \in 3 .. k + 2 : LeftOf(s, l).do = IF r = 0 THEN "send" ELSE "recv"
      /\ r = 0 => LeftOf(s, k + 4).do = "takelock"
      /\ r # 0 => k = 1
  <2>1. IsLockInit(s, k, n, r)
    BY <1>1, <1>2, LockInitShape DEF k
  <2>. QED  BY <2>1, Zenon DEF IsLockInit
<1>8. TalkOK(p, u, i)
  BY <1>2, <1>4, <1>7, RootTalk DEF s, r, n, M
<1>9. 1 .. 2 = {1, 2}
  OBVIOUS
<1>10. CASE r = 0
  <2>1. Len(s) = k + 4
    BY <1>7, <1>10
  <2>2. Size(p, u, i) = k + 4
    BY <1>2, <2>1, Zenon
  <2>3. BarLeft(p, u, i, 1) = k + 3 /\ u = m
    BY <1>3, <1>5, <1>7, <1>10, <2>2
  <2>4. MakeLeft(p, i) = k + 4
    BY <1>6, <1>7, <2>2, <2>3
  <2>5. /\ StepAt(p, u, i, 1).do = "setlock" /\ StepAt(p, u, i, 2).do = "find" /\ StepAt(p, u, i, k + 3).do = "find"
        /\ StepAt(p, u, i, k + 4).do = "takelock"
        /\ \A l \in 3 .. k + 2 : StepAt(p, u, i, l).do = "send"
    BY <1>2, <1>7, <1>10
  <2>6. \A l \in 1 .. k + 4 : l \in {1, 2, k + 3, k + 4} \/ l \in 3 .. k + 2
    BY <1>7
  <2>7. BarrierOK(p, u, i)
    <3>1. \A l \in 1 .. k + 4 : StepAt(p, u, i, l).do = "find" <=> l \in {2, k + 3}
      BY <1>7, <2>5, <2>6
    <3>. QED  BY <1>3, <1>7, <1>9, <2>2, <2>3, <3>1 DEF BarrierOK
  <2>8. ASSUME NEW l \in 1 .. k + 4 PROVE MakingAt(p, u, i, l)
    <3>1. CASE l \in 3 .. k + 2
      <4>1. StepAt(p, u, i, l).do = "send" /\ 1 < l /\ l < k + 4
        BY <1>7, <2>5, <3>1
      <4>. QED  BY <1>5, <1>10, <2>3, <2>4, <3>1, <4>1 DEF MakingAt, m, r, M
    <3>2. CASE l \in {2, k + 3}
      <4>1. StepAt(p, u, i, l).do = "find" /\ l # 1 /\ l # k + 4
        BY <1>7, <2>5, <3>2
      <4>. QED  BY <2>3, <2>4, <4>1 DEF MakingAt, m
    <3>3. CASE l = 1
      <4>1. StepAt(p, u, i, l).do = "setlock" /\ l # k + 4
        BY <1>7, <2>5, <3>3
      <4>. QED  BY <2>3, <2>4, <3>3, <4>1 DEF MakingAt, m
    <3>4. CASE l = k + 4
      <4>1. StepAt(p, u, i, l).do = "takelock" /\ l # 1
        BY <1>7, <2>5, <3>4
      <4>. QED  BY <2>3, <2>4, <3>4, <4>1 DEF MakingAt, m
    <3>. QED  BY <2>6, <3>1, <3>2, <3>3, <3>4
  <2>9. MakingOK(p, u, i)
    BY <1>7, <2>2, <2>8 DEF MakingOK
  <2>10. SizeOK(p, u, i)
    BY <1>7, <1>10, <2>2 DEF SizeOK, r, M
  <2>. QED  BY <1>8, <2>7, <2>9, <2>10 DEF CallOK
<1>11. CASE r # 0
  <2>1. Len(s) = 4 /\ k = 1
    BY <1>7, <1>11
  <2>2. Size(p, u, i) = 4
    BY <1>2, <2>1, Zenon
  <2>3. BarLeft(p, u, i, 1) = 4 /\ u # m
    BY <1>3, <1>5, <1>11, <2>2
  <2>4. k + 3 = 4 /\ 3 \in 3 .. k + 2
    BY <2>1
  <2>5. /\ StepAt(p, u, i, 1).do = "setlock" /\ StepAt(p, u, i, 2).do = "find" /\ StepAt(p, u, i, 4).do = "find"
        /\ StepAt(p, u, i, 3).do = "recv"
    BY <1>2, <1>7, <1>11, <2>4
  <2>6. StepAt(p, u, i, 3).peer = 0
    <3>1. \A l \in 1 .. Len(s) : LeftOf(s, l).do = "recv" => LeftOf(s, l).peer \in {0}
      BY <1>7, <1>11 DEF Talk
    <3>. QED  BY <1>2, <2>1, <2>5, <3>1
  <2>7. 1 .. 4 = {1, 2, 3, 4}
    OBVIOUS
  <2>8. BarrierOK(p, u, i)
    BY <1>3, <1>9, <2>2, <2>3, <2>5, <2>7 DEF BarrierOK
  <2>9. ASSUME NEW l \in 1 .. 4 PROVE MakingAt(p, u, i, l)
    <3>1. l = 1 \/ l = 2 \/ l = 3 \/ l = 4
      BY <2>7
    <3>. QED  BY <1>5, <1>11, <2>3, <2>5, <2>6, <3>1 DEF MakingAt, m, M
  <2>10. MakingOK(p, u, i)
    BY <2>2, <2>9 DEF MakingOK
  <2>11. SizeOK(p, u, i)
    BY <1>11, <2>2 DEF SizeOK, r, M
  <2>. QED  BY <1>8, <2>8, <2>10, <2>11 DEF CallOK
<1>. QED  BY <1>10, <1>11

\* Every call is as its kind demands.
LEMMA CallIs ==
    ASSUME NEW p, WellFormed(p), NEW i \in DOMAIN p, NEW u \in Mem(p, i)
    PROVE  CallOK(p, u, i)
<1>1. p[i].kind \in Kinds
  BY ProgramKinds
<1>. QED  BY <1>1, CreateCall, DestroyCall, BcastCall, ScatterCall, GatherCall, AllgatherCall,
             LockInitCall, LockFreeCall DEF Kinds

\* Sends and receptions, in terms of units.
LEMMA TalkPairs ==
    ASSUME NEW p, WellFormed(p), NEW i \in DOMAIN p, NEW u \in Mem(p, i), NEW v \in Mem(p, i)
    PROVE  /\ Pair(p, i, u, v) => \E l \in 1 .. Size(p, u, i) : SendsTo(p, u, i, l, v)
           /\ Pair(p, i, v, u) => \E l \in 1 .. Size(p, u, i) : ReceivesFrom(p, u, i, l, v)
           /\ \A l \in 1 .. Size(p, u, i) : SendsTo(p, u, i, l, v) => Pair(p, i, u, v)
           /\ \A l \in 1 .. Size(p, u, i) : ReceivesFrom(p, u, i, l, v) => Pair(p, i, v, u)
           /\ \A k, l \in 1 .. Size(p, u, i) : SendsTo(p, u, i, k, v) /\ SendsTo(p, u, i, l, v) => k = l
           /\ \A k, l \in 1 .. Size(p, u, i) : ReceivesFrom(p, u, i, k, v) /\ ReceivesFrom(p, u, i, l, v) => k = l
<1>. DEFINE M == Mem(p, i)
            s == Script(p, u, i)
            To == {Rank(M, w) : w \in {x \in M : Pair(p, i, u, x)}}
            From == {Rank(M, w) : w \in {x \in M : Pair(p, i, x, u)}}
<1>1. Talk(s, To, From)
  BY CallIs DEF CallOK, TalkOK
<1>2. /\ Size(p, u, i) = Len(s) /\ (\A l : StepAt(p, u, i, l) = LeftOf(s, l))
  BY CallParts
<1>3. \A x, w \in M : Rank(M, x) = Rank(M, w) => x = w
  BY ProgramTeams
<1>4. /\ \A l : SendsTo(p, u, i, l, v) <=> LeftOf(s, l).do = "send" /\ LeftOf(s, l).peer = Rank(M, v)
      /\ \A l : ReceivesFrom(p, u, i, l, v) <=> LeftOf(s, l).do = "recv" /\ LeftOf(s, l).peer = Rank(M, v)
  BY <1>2 DEF SendsTo, ReceivesFrom
<1>5. v \in M
  OBVIOUS
<1>6. Rank(M, v) \in To <=> Pair(p, i, u, v)
  <2>. HIDE DEF M
  <2>. QED  BY <1>3, <1>5
<1>7. Rank(M, v) \in From <=> Pair(p, i, v, u)
  <2>. HIDE DEF M
  <2>. QED  BY <1>3, <1>5
<1>. HIDE DEF M, s, To, From
<1>8. /\ \A l \in 1 .. Len(s) : LeftOf(s, l).do = "send" => LeftOf(s, l).peer \in To
      /\ \A l \in 1 .. Len(s) : LeftOf(s, l).do = "recv" => LeftOf(s, l).peer \in From
      /\ \A x \in To : \E l \in 1 .. Len(s) : LeftOf(s, l).do = "send" /\ LeftOf(s, l).peer = x
      /\ \A x \in From : \E l \in 1 .. Len(s) : LeftOf(s, l).do = "recv" /\ LeftOf(s, l).peer = x
      /\ \A k, l \in 1 .. Len(s) :
           (/\ LeftOf(s, k).do \in {"send", "recv"} /\ LeftOf(s, k).do = LeftOf(s, l).do
            /\ LeftOf(s, k).peer = LeftOf(s, l).peer) => k = l
  BY <1>1 DEF Talk
<1>9. ASSUME NEW k \in 1 .. Len(s), NEW l \in 1 .. Len(s), SendsTo(p, u, i, k, v), SendsTo(p, u, i, l, v)
      PROVE  k = l
  <2>1. LeftOf(s, k).do \in {"send", "recv"} /\ LeftOf(s, k).do = LeftOf(s, l).do /\ LeftOf(s, k).peer = LeftOf(s, l).peer
    BY <1>4, <1>9
  <2>. QED  BY <1>8, <2>1
<1>10. ASSUME NEW k \in 1 .. Len(s), NEW l \in 1 .. Len(s), ReceivesFrom(p, u, i, k, v), ReceivesFrom(p, u, i, l, v)
      PROVE  k = l
  <2>1. LeftOf(s, k).do \in {"send", "recv"} /\ LeftOf(s, k).do = LeftOf(s, l).do /\ LeftOf(s, k).peer = LeftOf(s, l).peer
    BY <1>4, <1>10
  <2>. QED  BY <1>8, <2>1
<1>11. Pair(p, i, u, v) => \E l \in 1 .. Len(s) : SendsTo(p, u, i, l, v)
  BY <1>4, <1>6, <1>8
<1>12. Pair(p, i, v, u) => \E l \in 1 .. Len(s) : ReceivesFrom(p, u, i, l, v)
  BY <1>4, <1>7, <1>8
<1>13. \A l \in 1 .. Len(s) : SendsTo(p, u, i, l, v) => Pair(p, i, u, v)
  BY <1>4, <1>6, <1>8
<1>14. \A l \in 1 .. Len(s) : ReceivesFrom(p, u, i, l, v) => Pair(p, i, v, u)
  BY <1>4, <1>7, <1>8
<1>. QED  BY <1>2, <1>9, <1>10, <1>11, <1>12, <1>13, <1>14, Zenon

\* The peer of a send or a reception is a member.
LEMMA TalkPeers ==
    ASSUME NEW p, WellFormed(p), NEW i \in DOMAIN p, NEW u \in Mem(p, i), NEW l \in 1 .. Size(p, u, i)
    PROVE  /\ StepAt(p, u, i, l).do = "send" => \E v \in Mem(p, i) : SendsTo(p, u, i, l, v)
           /\ StepAt(p, u, i, l).do = "recv" => \E v \in Mem(p, i) : ReceivesFrom(p, u, i, l, v)
<1>. DEFINE M == Mem(p, i)
            s == Script(p, u, i)
            To == {Rank(M, w) : w \in {x \in M : Pair(p, i, u, x)}}
            From == {Rank(M, w) : w \in {x \in M : Pair(p, i, x, u)}}
<1>1. Talk(s, To, From)
  BY CallIs DEF CallOK, TalkOK
<1>2. /\ Size(p, u, i) = Len(s) /\ (\A k : StepAt(p, u, i, k) = LeftOf(s, k))
  BY CallParts
<1>3. /\ \A x \in To : \E w \in M : x = Rank(M, w)
      /\ \A x \in From : \E w \in M : x = Rank(M, w)
  OBVIOUS
<1>. HIDE DEF To, From, s
<1>4. /\ LeftOf(s, l).do = "send" => LeftOf(s, l).peer \in To
      /\ LeftOf(s, l).do = "recv" => LeftOf(s, l).peer \in From
  BY <1>1, <1>2 DEF Talk
<1>. QED  BY <1>2, <1>3, <1>4 DEF SendsTo, ReceivesFrom

\* The types of the variables.
TypesOK(p) ==
    /\ prog = p
    /\ pos \in [Units -> 1 .. Len(p) + 1]
    /\ todo \in [Units -> Seq(StepRec)]
    /\ inside \in [Units -> TeamSlots \union {NoSlot}]
    /\ buf \in [Units -> Message]
    /\ handle \in [Units -> [DOMAIN p -> Int]]
    /\ holder \in [LockSlots -> Int]
    /\ area \in [teams : [TeamSlots -> [inuse : BOOLEAN, id : Int,
                             barr : [procs : Int, asleep : SUBSET Units, woken : SUBSET Units, torn : BOOLEAN]]],
                 locks : [LockSlots -> [inuse : BOOLEAN, team : Int]],
                 nextid : Int]
    /\ teams \in [Units -> [TeamSlots -> [id : Int, valid : BOOLEAN, myid : Int, group : GroupRec]]]
    /\ pipes \in [DOMAIN pipes -> [opened : BOOLEAN, queue : Seq(Message)]]

GhostsOK(p, ids, left, over) ==
    /\ ids \in [DOMAIN p -> Int]
    /\ left \in [Units -> [DOMAIN p -> Nat]]
    /\ over \in [DOMAIN p -> Nat]

\* Where u is: what is left of its operations, and that what it has to do is
\* what is left of the call.
SameStep(do, s) == s = do \/ (s.do = "find" /\ do.do \in {"await", "wait", "lost"})

\* Every unit is in an operation of its own; left counts the steps that are left.
PlaceOK(p, ids, left, u) ==
    /\ pos[u] \in DOMAIN p => u \in Mem(p, pos[u])
    /\ buf[u].op <= pos[u]
    /\ ~Started(u) => todo[u] = <<>>
    /\ pos[u] \notin DOMAIN p => ~Started(u)
    /\ \A i \in DOMAIN p : u \in Mem(p, i) =>
           left[u][i] = IF ~Live(p, ids, i) \/ i > pos[u] \/ (i = pos[u] /\ ~Started(u)) THEN Size(p, u, i)
                        ELSE IF i < pos[u] THEN 0 ELSE Len(todo[u])
    /\ todo[u] # <<>> =>
        /\ Live(p, ids, pos[u]) /\ Len(todo[u]) <= Size(p, u, pos[u])
        /\ \A k \in 1 .. Len(todo[u]) : SameStep(LeftOf(todo[u], k), StepAt(p, u, pos[u], k))
        /\ \A k \in 1 .. Len(todo[u]) - 1 : LeftOf(todo[u], k).do \notin {"await", "wait", "lost"}

\* u in a barrier.
Waiting(u) == todo[u] # <<>> /\ Head(todo[u]).do = "wait"
Entering(u) == todo[u] # <<>> /\ Head(todo[u]).do = "await"

\* Who is in a barrier is in that of a slot in use for its team.
InsideOK(u) ==
    /\ (inside[u] # NoSlot) <=> (Waiting(u) \/ Entering(u))
    /\ \A s \in TeamSlots : LET b == area.teams[s].barr IN
           /\ (u \in b.asleep \union b.woken) => (inside[u] = s /\ Waiting(u))
           /\ ~(u \in b.asleep /\ u \in b.woken)
           /\ (inside[u] = s /\ Waiting(u)) => (u \in b.asleep \union b.woken)
           /\ (inside[u] = s /\ u \notin b.woken) =>
                  (area.teams[s].inuse /\ area.teams[s].id = T(u))

\* The barriers that are over are those that every member has left or has been
\* woken in.
Woken(u) == inside[u] # NoSlot /\ u \in area.teams[inside[u]].barr.woken

\* over[i] counts the barriers of operation i that are over, for every member.
OverOK(p, ids, left, over, u) ==
    \A i \in DOMAIN p : u \in Mem(p, i) /\ Live(p, ids, i) =>
        \A b \in 1 .. Barriers(p, i) :
            (b <= over[i]) <=> (\/ left[u][i] < BarLeft(p, u, i, b)
                              \/ (i = pos[u] /\ left[u][i] = BarLeft(p, u, i, b) /\ Woken(u)))

\* The ids of teams and locks, and who has them.
IdsOK(p, ids, left) ==
    /\ \A c \in DOMAIN p : ids[c] # NoTeam =>
           ids[c] \in Ids(p, c) /\ Live(p, ids, c) /\ left[Maker(p, c)][c] < MakeLeft(p, c)
    /\ \A c, d \in DOMAIN p :
           (p[c].kind = "create" /\ p[d].kind = "create" /\ ids[c] # NoTeam /\ ids[c] = ids[d]) => c = d

\* A program that makes fewer teams than there are slots: slot 0 is the world's.
Few(p) == Cardinality({c \in DOMAIN p : p[c].kind = "create"}) < MaxTeams

\* nextid has been raised once for every team, and with few of them every one has
\* got its slot.
CountOK(p, ids, left) ==
    /\ area.nextid \in 1 .. Len(p) + 1
    /\ area.nextid <= 1 + Cardinality({c \in DOMAIN p :
           p[c].kind = "create" /\ left[Maker(p, c)][c] < MakeLeft(p, c)})
    /\ \A c \in DOMAIN p : p[c].kind = "create" /\ ids[c] # NoTeam => ids[c] < area.nextid
    /\ \A c \in DOMAIN p :
           p[c].kind = "create" /\ left[Maker(p, c)][c] < MakeLeft(p, c) /\ ids[c] = NoTeam => ~ Few(p)

\* The handles a program has are the ids it has been told.
HandlesOK(p, ids, left, u) ==
    \A c \in DOMAIN p :
        handle[u][c] = IF u \in For(p, c) /\ left[u][c] < SetLeft(p, c) THEN ids[c] ELSE NoTeam

\* A message buffer holds what the call has been told.
BufOK(p, ids, left, u) ==
    LET c == pos[u]
    IN  (/\ c \in DOMAIN p /\ Started(u) /\ todo[u] # <<>>
         /\ p[c].kind \in {"create", "lockinit"} /\ u \in For(p, c) /\ Informed(p, left, u, c))
        => MessageOK(p, ids, c, u, buf[u])

\* The shared area and the tables of the units.
AreaOK(p, ids, left) ==
    /\ area.teams[0].inuse /\ area.teams[0].id = TeamAll
    /\ area.teams[0].barr.procs = Cardinality(Units)
    /\ \A s \in TeamSlots \ {0} : area.teams[s].inuse => area.teams[s].id \in 1 .. area.nextid - 1
    /\ \A s, r \in TeamSlots :
           (area.teams[s].inuse /\ area.teams[r].inuse /\ area.teams[s].id = area.teams[r].id) => s = r
    /\ \A s \in TeamSlots : ~area.teams[s].inuse => area.teams[s].barr.asleep = {}
    /\ \A c \in DOMAIN p : p[c].kind = "create" /\ ids[c] # NoTeam /\ ~Deleted(p, left, c) =>
           \E s \in TeamSlots : /\ area.teams[s].inuse /\ area.teams[s].id = ids[c]
                                /\ area.teams[s].barr.procs = Cardinality(For(p, c))

\* A unit's table has the teams it is a member of, in the slots of the area.
TableOK(p, ids, left, u) ==
    ~Lost(u) =>
        /\ teams[u][0] = [id |-> TeamAll, valid |-> TRUE, myid |-> u, group |-> WorldGroup]
        /\ \A s \in TeamSlots : teams[u][s].valid => teams[u][s].id # NoTeam
        /\ \A c \in DOMAIN p, s \in TeamSlots :
               (/\ p[c].kind = "create" /\ ids[c] # NoTeam /\ ~Deleted(p, left, c)
                /\ u \in For(p, c) /\ left[u][c] < 2
                /\ area.teams[s].inuse /\ area.teams[s].id = ids[c])
               => teams[u][s] = [id |-> ids[c], valid |-> TRUE,
                                 myid |-> Rank(For(p, c), u), group |-> p[c].group]

\* The FIFO of a team from v to u.
Pipe(p, ids, c, v, u) == <<TeamId(ids, c), Rank(TeamMembers(p, c), v), Rank(TeamMembers(p, c), u)>>

\* The FIFOs that exist are those of the members that have made and not unlinked
\* them.
PipesOK(p, ids, left) ==
    /\ DOMAIN pipes \in SUBSET ((0 .. area.nextid - 1) \X Int \X Int)
    /\ \A c \in Teams(p, ids) : \A v, u \in TeamMembers(p, c) :
           (Pipe(p, ids, c, v, u) \in DOMAIN pipes) <=> There(p, left, c, u)

\* What has been received had been sent.
ReceivedOK(p, left) ==
    \A i \in DOMAIN p : \A u, v \in Mem(p, i) : Got(p, left, u, i, v) => Sent(p, left, v, i, u)

\* A FIFO holds, in the order of the operations, what has been sent through it and
\* not been received.
QueueOK(p, ids, left, c, v, u, q) ==
    /\ \A j, k \in DOMAIN q : j < k => q[j].op < q[k].op
    /\ \A k \in DOMAIN q : /\ q[k].op \in DOMAIN p /\ p[q[k].op].on = c
                           /\ Sent(p, left, v, q[k].op, u) /\ ~Got(p, left, u, q[k].op, v)
                           /\ MessageOK(p, ids, q[k].op, u, q[k])
    /\ \A i \in DOMAIN p : p[i].on = c /\ Sent(p, left, v, i, u) /\ ~Got(p, left, u, i, v) =>
           \E k \in DOMAIN q : q[k].op = i

\* Every FIFO does.
QueuesOK(p, ids, left) ==
    \A c \in Teams(p, ids) : \A v, u \in TeamMembers(p, c) :
        Pipe(p, ids, c, v, u) \in DOMAIN pipes =>
            QueueOK(p, ids, left, c, v, u, pipes[Pipe(p, ids, c, v, u)].queue)

\* Locks that have not been given back have slots in use, and different ones.
LocksOK(p, ids, left) ==
    \A c, d \in DOMAIN p :
        (/\ p[c].kind = "lockinit" /\ p[d].kind = "lockinit" /\ ids[c] # NoTeam /\ ids[d] # NoTeam
         /\ ~Dropped(p, left, c) /\ ~Dropped(p, left, d))
        => area.locks[ids[c]].inuse /\ (ids[c] = ids[d] => c = d)

\* The coupling of the state with p and the three functions.
Coupled(p, ids, left, over) ==
    /\ p \in Programs
    /\ TypesOK(p)
    /\ GhostsOK(p, ids, left, over)
    /\ \A u \in Units : PlaceOK(p, ids, left, u)
    /\ \A u \in Units : InsideOK(u)
    /\ \A u \in Units : OverOK(p, ids, left, over, u)
    /\ IdsOK(p, ids, left)
    /\ CountOK(p, ids, left)
    /\ \A u \in Units : HandlesOK(p, ids, left, u)
    /\ \A u \in Units : BufOK(p, ids, left, u)
    /\ AreaOK(p, ids, left)
    /\ \A u \in Units : TableOK(p, ids, left, u)
    /\ PipesOK(p, ids, left)
    /\ ReceivedOK(p, left)
    /\ QueuesOK(p, ids, left)
    /\ LocksOK(p, ids, left)

\* The inductive invariant: some values of the three functions fit the state.
IInv == \E p, ids, left, over : Coupled(p, ids, left, over)

-----------------------------------------------------------------------------
(* What the invariant says of a unit and its team.                         *)

\* The program of a state of the coupling, and its types.
LEMMA ProgIs ==
    ASSUME NEW p, NEW ids, NEW left, NEW over, Coupled(p, ids, left, over)
    PROVE  /\ p \in Programs /\ WellFormed(p) /\ DOMAIN p = 1 .. Len(p) /\ Len(p) \in Nat /\ prog = p
           /\ GhostsOK(p, ids, left, over) /\ TypesOK(p)
  BY ProgramsAssumption, ProgramDomain DEF Coupled, TypesOK

\* A call has a number of steps, and its barriers are among them.
LEMMA SizeType ==
    ASSUME NEW p, WellFormed(p), NEW i \in DOMAIN p, NEW u \in Mem(p, i)
    PROVE  /\ Size(p, u, i) \in Nat
           /\ \A b \in 1 .. Barriers(p, i) : /\ BarLeft(p, u, i, b) \in 1 .. Size(p, u, i)
                                             /\ BarLeft(p, u, i, b) \in Nat
<1>1. MakingOK(p, u, i) /\ BarrierOK(p, u, i)
  BY CallIs DEF CallOK
<1>. QED  BY <1>1 DEF MakingOK, BarrierOK

\* The steps left of the operations of a unit.
LEMMA LeftIs ==
    ASSUME NEW p, NEW ids, NEW left, NEW over, Coupled(p, ids, left, over),
           NEW u \in Units, NEW i \in DOMAIN p, u \in Mem(p, i)
    PROVE  /\ left[u][i] \in Nat /\ left[u][i] <= Size(p, u, i) /\ Size(p, u, i) \in Nat
           /\ pos[u] \in Nat /\ i \in Nat
           /\ ~ Live(p, ids, i) \/ i > pos[u] \/ (i = pos[u] /\ ~ Started(u)) => left[u][i] = Size(p, u, i)
           /\ Live(p, ids, i) /\ i < pos[u] => left[u][i] = 0
           /\ Live(p, ids, i) /\ i = pos[u] /\ Started(u) => left[u][i] = Len(todo[u])
<1>1. WellFormed(p) /\ DOMAIN p = 1 .. Len(p) /\ Len(p) \in Nat /\ TypesOK(p) /\ GhostsOK(p, ids, left, over)
  BY ProgIs
<1>2. PlaceOK(p, ids, left, u)
  BY DEF Coupled
<1>3. Size(p, u, i) \in Nat
  BY <1>1, SizeType
<1>4. left[u][i] \in Nat
  BY <1>1 DEF GhostsOK
<1>5. pos[u] \in Nat /\ i \in Nat
  BY <1>1 DEF TypesOK
<1>6. left[u][i] = IF ~Live(p, ids, i) \/ i > pos[u] \/ (i = pos[u] /\ ~Started(u)) THEN Size(p, u, i)
                   ELSE IF i < pos[u] THEN 0 ELSE Len(todo[u])
  BY <1>2 DEF PlaceOK
<1>7. ASSUME i = pos[u], Started(u), Live(p, ids, i) PROVE Len(todo[u]) <= Size(p, u, i)
  <2>1. CASE todo[u] = <<>>
    <3>1. Len(todo[u]) = 0
      BY <2>1
    <3>. QED  BY <1>3, <3>1
  <2>2. CASE todo[u] # <<>>
    BY <1>2, <1>7, <2>2 DEF PlaceOK
  <2>. QED  BY <2>1, <2>2
<1>8. /\ ~ Live(p, ids, i) \/ i > pos[u] \/ (i = pos[u] /\ ~ Started(u)) => left[u][i] = Size(p, u, i)
      /\ Live(p, ids, i) /\ i < pos[u] => left[u][i] = 0
      /\ Live(p, ids, i) /\ i = pos[u] /\ Started(u) => left[u][i] = Len(todo[u])
  BY <1>5, <1>6
<1>. HIDE DEF Live, Size
<1>9. left[u][i] <= Size(p, u, i)
  BY <1>3, <1>4, <1>5, <1>7, <1>8
<1>. QED  BY <1>3, <1>4, <1>5, <1>8, <1>9

\* A unit in an operation.
LEMMA Underway ==
    ASSUME NEW p, NEW ids, NEW left, NEW over, Coupled(p, ids, left, over),
           NEW u \in Units, todo[u] # <<>>
    PROVE  /\ pos[u] \in DOMAIN p /\ u \in Mem(p, pos[u]) /\ Started(u) /\ Live(p, ids, pos[u])
           /\ left[u][pos[u]] = Len(todo[u]) /\ Len(todo[u]) \in 1 .. Size(p, u, pos[u])
           /\ todo[u] \in Seq(StepRec) /\ Head(todo[u]) = LeftOf(todo[u], Len(todo[u]))
           /\ SameStep(Head(todo[u]), StepAt(p, u, pos[u], Len(todo[u])))
<1>1. WellFormed(p) /\ DOMAIN p = 1 .. Len(p) /\ Len(p) \in Nat /\ TypesOK(p) /\ GhostsOK(p, ids, left, over)
  BY ProgIs
<1>2. PlaceOK(p, ids, left, u)
  BY DEF Coupled
<1>3. pos[u] \in DOMAIN p /\ Started(u)
  BY <1>2 DEF PlaceOK
<1>4. u \in Mem(p, pos[u]) /\ Live(p, ids, pos[u]) /\ Len(todo[u]) <= Size(p, u, pos[u])
  BY <1>2, <1>3 DEF PlaceOK
<1>5. todo[u] \in Seq(StepRec)
  BY <1>1 DEF TypesOK
<1>6. Len(todo[u]) \in Nat /\ Len(todo[u]) >= 1 /\ Head(todo[u]) = todo[u][1]
  BY <1>5
<1>7. Head(todo[u]) = LeftOf(todo[u], Len(todo[u]))
  BY <1>6 DEF LeftOf
<1>8. SameStep(LeftOf(todo[u], Len(todo[u])), StepAt(p, u, pos[u], Len(todo[u])))
  BY <1>2, <1>6 DEF PlaceOK
<1>9. left[u][pos[u]] = Len(todo[u])
  BY <1>3, <1>4, LeftIs
<1>10. Size(p, u, pos[u]) \in Nat
  BY <1>1, <1>3, <1>4, SizeType
<1>. QED  BY <1>3, <1>4, <1>5, <1>6, <1>7, <1>8, <1>9, <1>10

\* A unit about to take a step that is none of a barrier.
LEMMA AtStep ==
    ASSUME NEW p, NEW ids, NEW left, NEW over, Coupled(p, ids, left, over),
           NEW u \in Units, NEW do, At(u, do), do \notin {"await", "wait", "lost"}
    PROVE  /\ todo[u] # <<>> /\ inside[u] = NoSlot /\ Head(todo[u]) = StepAt(p, u, pos[u], Len(todo[u]))
           /\ StepAt(p, u, pos[u], Len(todo[u])).do = do /\ ~ Woken(u) /\ ~ Lost(u)
<1>1. todo[u] # <<>> /\ inside[u] = NoSlot /\ Head(todo[u]).do = do
  BY DEF At
<1>2. SameStep(Head(todo[u]), StepAt(p, u, pos[u], Len(todo[u])))
  BY <1>1, Underway
<1>3. Head(todo[u]) = StepAt(p, u, pos[u], Len(todo[u]))
  BY <1>1, <1>2 DEF SameStep
<1>4. ~ Lost(u)
  <2>1. Head(Step("lost")).do = "lost"
    BY DEF Step
  <2>. QED  BY <1>1, <2>1 DEF Lost
<1>. QED  BY <1>1, <1>3, <1>4 DEF Woken

-----------------------------------------------------------------------------
\* The id of the team of an operation.
LEMMA TeamOfIs ==
    ASSUME NEW p, NEW ids, NEW left, NEW over, Coupled(p, ids, left, over),
           NEW u \in Units, NEW i \in DOMAIN p, u \in Mem(p, i), i <= pos[u]
    PROVE  TeamOf(u, i) = TeamId(ids, p[i].on)
<1>1. WellFormed(p) /\ DOMAIN p = 1 .. Len(p) /\ Len(p) \in Nat /\ prog = p
  BY ProgIs
<1>2. CASE p[i].on = 0
  BY <1>1, <1>2 DEF TeamOf, TeamId
<1>3. CASE p[i].on # 0
  <2>. DEFINE c == p[i].on
  <2>1. c \in DOMAIN p /\ c < i /\ p[c].kind = "create"
    BY <1>1, <1>3, ProgramOn
  <2>2. Mem(p, i) = For(p, c)
    BY <1>1, <1>3, ProgramTeams
  <2>. HIDE DEF c
  <2>3. u \in For(p, c) /\ u \in Mem(p, c)
    BY <1>1, <2>1, <2>2, ProgramTeams
  <2>4. handle[u][c] = IF u \in For(p, c) /\ left[u][c] < SetLeft(p, c) THEN ids[c] ELSE NoTeam
    BY <2>1 DEF Coupled, HandlesOK
  <2>5. handle[u][c] = ids[c]
    <3>1. CASE Live(p, ids, c)
      <4>1. c < pos[u] /\ pos[u] \in Nat
        BY <1>1, <2>1, <2>3, LeftIs
      <4>2. left[u][c] = 0
        BY <2>1, <2>3, <3>1, <4>1, LeftIs
      <4>3. SetLeft(p, c) = 2
        BY <2>1 DEF SetLeft
      <4>. QED  BY <2>3, <2>4, <4>2, <4>3
    <3>2. CASE ~ Live(p, ids, c)
      <4>1. ids[c] = NoTeam
        BY <2>1, <3>2 DEF Coupled, IdsOK
      <4>. QED  BY <2>4, <4>1
    <3>. QED  BY <3>1, <3>2
  <2>. QED  BY <1>1, <1>3, <2>5 DEF TeamOf, TeamId, c
<1>. QED  BY <1>2, <1>3

\* Which barriers of an operation are over is for all members to see.
LEMMA OverIs ==
    ASSUME NEW p, NEW ids, NEW left, NEW over, Coupled(p, ids, left, over),
           NEW u \in Units, NEW i \in DOMAIN p, u \in Mem(p, i), Live(p, ids, i),
           NEW b \in 1 .. Barriers(p, i)
    PROVE  /\ over[i] \in Nat
           /\ (b <= over[i]) <=> (\/ left[u][i] < BarLeft(p, u, i, b)
                                  \/ (i = pos[u] /\ left[u][i] = BarLeft(p, u, i, b) /\ Woken(u)))
  BY DEF Coupled, OverOK, GhostsOK

\* A team is there as long as a member has not met the last barrier of its
\* destruction.
LEMMA TeamStays ==
    ASSUME NEW p, NEW ids, NEW left, NEW over, Coupled(p, ids, left, over),
           NEW c \in DOMAIN p, p[c].kind = "create", ids[c] # NoTeam, NEW u \in For(p, c),
           \A d \in DOMAIN p : p[d].kind = "destroy" /\ p[d].on = c =>
               /\ ~ (left[u][d] < BarLeft(p, u, d, 2))
               /\ ~ (d = pos[u] /\ left[u][d] = BarLeft(p, u, d, 2) /\ Woken(u))
    PROVE  ~ Deleted(p, left, c)
<1>1. WellFormed(p) /\ DOMAIN p = 1 .. Len(p) /\ Len(p) \in Nat /\ c # 0
  BY ProgIs
<1>2. SUFFICES ASSUME NEW d \in DOMAIN p, p[d].kind = "destroy", p[d].on = c, left[Maker(p, c)][d] < 1
               PROVE  FALSE
  BY DEF Deleted
<1>. DEFINE m == Maker(p, c)
<1>3. Mem(p, d) = For(p, c) /\ m \in Mem(p, d) /\ m \in Units /\ u \in Mem(p, d) /\ u \in Units
  <2>1. Mem(p, d) = For(p, c)
    BY <1>1, <1>2, ProgramTeams
  <2>2. m \in For(p, c) /\ m \in Units /\ IsTeam(For(p, c))
    BY <1>1, ProgramTeams
  <2>. QED  BY <2>1, <2>2 DEF IsTeam
<1>4. Live(p, ids, d) /\ Barriers(p, d) = 2 /\ 2 \in 1 .. 2
  BY <1>2 DEF Live, Barriers
<1>5. BarLeft(p, m, d, 2) \in Nat /\ BarLeft(p, m, d, 2) >= 1 /\ left[m][d] \in Nat
  <2>1. \A b \in 1 .. 2 : BarLeft(p, m, d, b) \in 1 .. Size(p, m, d) /\ BarLeft(p, m, d, b) \in Nat
    BY <1>1, <1>3, <1>4, SizeType
  <2>2. left[m][d] \in Nat
    BY <1>3, LeftIs
  <2>. QED  BY <2>1, <2>2
<1>6. left[m][d] < BarLeft(p, m, d, 2)
  BY <1>2, <1>5
<1>7. 2 <= over[d]
  BY <1>3, <1>4, <1>6, OverIs
<1>8. \/ left[u][d] < BarLeft(p, u, d, 2)
      \/ (d = pos[u] /\ left[u][d] = BarLeft(p, u, d, 2) /\ Woken(u))
  BY <1>3, <1>4, <1>7, OverIs
<1>. QED  BY <1>2, <1>8

\* Where the steps of a destruction are.
LEMMA DestroyPlaces ==
    ASSUME NEW p, WellFormed(p), NEW d \in DOMAIN p, p[d].kind = "destroy"
    PROVE  /\ p[d].on # 0 /\ p[d].on \in DOMAIN p /\ p[p[d].on].kind = "create" /\ p[d].on < d
           /\ Mem(p, d) = For(p, p[d].on) /\ Maker(p, p[d].on) \in Mem(p, d) /\ Maker(p, p[d].on) \in Units
           /\ \A u \in Mem(p, d) : u \in Units /\ (Rank(Mem(p, d), u) = 0 <=> u = Maker(p, p[d].on))
           /\ Barriers(p, d) = 2
           /\ \A u \in Mem(p, d) : u = Maker(p, p[d].on) =>
                  Size(p, u, d) = 4 /\ BarLeft(p, u, d, 1) = 4 /\ BarLeft(p, u, d, 2) = 2
           /\ \A u \in Mem(p, d) : u # Maker(p, p[d].on) =>
                  Size(p, u, d) = 3 /\ BarLeft(p, u, d, 1) = 3 /\ BarLeft(p, u, d, 2) = 1
<1>. DEFINE c == p[d].on
            M == Mem(p, d)
<1>1. c # 0
  BY ProgramKinds
<1>2. c \in DOMAIN p /\ p[c].kind = "create" /\ c < d /\ M = For(p, c)
  BY <1>1, ProgramOn, ProgramTeams
<1>. HIDE DEF c, M
<1>3. /\ Maker(p, c) \in M /\ Maker(p, c) \in Units
      /\ \A u \in M : u \in Units /\ (Rank(M, u) = 0 <=> u = Maker(p, c))
  <2>1. IsTeam(For(p, c)) /\ \A u \in For(p, c) : Rank(For(p, c), u) = 0 <=> u = Maker(p, c)
    BY <1>2, ProgramTeams
  <2>2. Maker(p, c) \in For(p, c) /\ Maker(p, c) \in Units
    BY <1>2, ProgramTeams
  <2>. QED  BY <1>2, <2>1, <2>2 DEF IsTeam
<1>4. Barriers(p, d) = 2
  BY DEF Barriers
<1>5. \A u \in M : /\ Size(p, u, d) = IF u = Maker(p, c) THEN 4 ELSE 3
                   /\ BarLeft(p, u, d, 1) = Size(p, u, d) /\ BarLeft(p, u, d, 2) = Size(p, u, d) - 2
  <2>. SUFFICES ASSUME NEW u \in M
                PROVE  /\ Size(p, u, d) = IF u = Maker(p, c) THEN 4 ELSE 3
                       /\ BarLeft(p, u, d, 1) = Size(p, u, d) /\ BarLeft(p, u, d, 2) = Size(p, u, d) - 2
    OBVIOUS
  <2>1. SizeOK(p, u, d)
    BY CallIs DEF CallOK, M
  <2>2. Size(p, u, d) = IF Rank(M, u) = 0 THEN 4 ELSE 3
    BY <2>1 DEF SizeOK, M
  <2>3. BarLeft(p, u, d, 1) = Size(p, u, d) /\ BarLeft(p, u, d, 2) = Size(p, u, d) - 2
    BY DEF BarLeft
  <2>. QED  BY <1>3, <2>2, <2>3
<1>6. ASSUME NEW u \in M, u = Maker(p, c)
      PROVE  Size(p, u, d) = 4 /\ BarLeft(p, u, d, 1) = 4 /\ BarLeft(p, u, d, 2) = 2
  <2>1. Size(p, u, d) = 4
    BY <1>5, <1>6
  <2>. QED  BY <1>5, <2>1
<1>7. ASSUME NEW u \in M, u # Maker(p, c)
      PROVE  Size(p, u, d) = 3 /\ BarLeft(p, u, d, 1) = 3 /\ BarLeft(p, u, d, 2) = 1
  <2>1. Size(p, u, d) = 3
    BY <1>5, <1>7
  <2>. QED  BY <1>5, <2>1
<1>. QED  BY <1>1, <1>2, <1>3, <1>4, <1>6, <1>7 DEF M, c

\* The team of the operation a unit is in, or enters next.
LEMMA CurrentTeam ==
    ASSUME NEW p, NEW ids, NEW left, NEW over, Coupled(p, ids, left, over),
           NEW u \in Units, pos[u] \in DOMAIN p, u \in Mem(p, pos[u]), Live(p, ids, pos[u]),
           p[pos[u]].on # 0, ~ Woken(u), Started(u) => todo[u] # <<>>
    PROVE  LET c == p[pos[u]].on
           IN  /\ c \in DOMAIN p /\ c < pos[u] /\ p[c].kind = "create" /\ ids[c] # NoTeam
               /\ u \in For(p, c) /\ left[u][c] = 0 /\ ~ Deleted(p, left, c)
<1>. DEFINE i == pos[u]
            c == p[i].on
<1>1. WellFormed(p) /\ DOMAIN p = 1 .. Len(p) /\ Len(p) \in Nat /\ prog = p
  BY ProgIs
<1>2. /\ c \in DOMAIN p /\ c < i /\ p[c].kind = "create"
      /\ \A d \in DOMAIN p : p[d].kind = "destroy" /\ p[d].on = c => i <= d
  BY <1>1, ProgramOn
<1>3. ids[c] # NoTeam
  BY DEF Live
<1>4. u \in For(p, c) /\ u \in Mem(p, c)
  BY <1>1, <1>2, ProgramTeams
<1>5. Live(p, ids, c)
  BY <1>2, <1>3 DEF Coupled, IdsOK
<1>6. left[u][c] = 0
  BY <1>2, <1>4, <1>5, LeftIs
<1>7. ASSUME NEW d \in DOMAIN p, p[d].kind = "destroy", p[d].on = c
      PROVE  /\ u \in Mem(p, d) /\ Live(p, ids, d) /\ left[u][d] >= 1 /\ left[u][d] \in Nat
             /\ d > i \/ ~ Started(u) => left[u][d] = Size(p, u, d)
  <2>1. i <= d /\ i \in Nat /\ d \in Nat
    BY <1>1, <1>2, <1>7
  <2>2. u \in Mem(p, d) /\ Size(p, u, d) >= 1
    BY <1>1, <1>4, <1>7, DestroyPlaces
  <2>3. Live(p, ids, d)
    BY <1>3, <1>7 DEF Live
  <2>4. CASE d > i \/ ~ Started(u)
    <3>1. left[u][d] = Size(p, u, d) /\ left[u][d] \in Nat
      BY <2>1, <2>2, <2>4, LeftIs
    <3>. QED  BY <2>2, <2>3, <3>1
  <2>5. CASE ~ (d > i \/ ~ Started(u))
    <3>1. d = i /\ Started(u)
      BY <2>1, <2>5
    <3>2. left[u][d] = Len(todo[u]) /\ Len(todo[u]) >= 1 /\ Len(todo[u]) \in Nat
      BY <3>1, Underway
    <3>. QED  BY <2>2, <2>3, <2>5, <3>2
  <2>. QED  BY <2>4, <2>5
<1>. HIDE DEF i, c
<1>8. ~ Deleted(p, left, c)
  <2>1. CASE u = Maker(p, c)
    <3>1. SUFFICES ASSUME NEW d \in DOMAIN p, p[d].kind = "destroy", p[d].on = c, left[u][d] < 1
                   PROVE  FALSE
      BY <2>1 DEF Deleted
    <3>. QED  BY <1>7, <3>1
  <2>2. CASE u # Maker(p, c)
    <3>1. ASSUME NEW d \in DOMAIN p, p[d].kind = "destroy", p[d].on = c
          PROVE  ~ (left[u][d] < BarLeft(p, u, d, 2))
      <4>1. BarLeft(p, u, d, 2) = 1
        BY <1>1, <1>7, <2>2, <3>1, DestroyPlaces
      <4>. QED  BY <1>7, <3>1, <4>1
    <3>. QED  BY <1>2, <1>3, <1>4, <3>1, TeamStays
  <2>. QED  BY <2>1, <2>2
<1>. QED  BY <1>2, <1>3, <1>4, <1>6, <1>8 DEF i, c

\* The least of one number.
LEMMA MinOfOne == \A s \in Int : Min({s}) = s
<1>. SUFFICES ASSUME NEW s \in Int PROVE Min({s}) = s
  OBVIOUS
<1>1. {s} \in SUBSET Int /\ IsFiniteSet({s}) /\ {s} # {}
  BY FS_Singleton
<1>. QED  BY <1>1, RankOfMin

\* The slot of a team that is there, and what its members know of it.
TeamGroup(p, c) == IF c = 0 THEN WorldGroup ELSE p[c].group

\* s is the slot of team c.
SlotIs(p, ids, c, s) ==
    /\ s \in TeamSlots /\ SlotsOf(area, TeamId(ids, c)) = {s}
    /\ FindTeam(area, TeamId(ids, c)) = s /\ SlotFor(area, TeamId(ids, c)) = s
    /\ area.teams[s].inuse /\ area.teams[s].id = TeamId(ids, c)
    /\ area.teams[s].barr.procs = Cardinality(TeamMembers(p, c))

\* The entry of u for team c.
EntryOf(p, ids, c, u) ==
    [id |-> TeamId(ids, c), valid |-> TRUE, myid |-> Rank(TeamMembers(p, c), u), group |-> TeamGroup(p, c)]

\* A team that exists has one slot, the one dart_shmem_team_get_slot finds, and
\* its members that know it have their entry there.
LEMMA TeamHasSlot ==
    ASSUME NEW p, NEW ids, NEW left, NEW over, Coupled(p, ids, left, over),
           NEW c \in Teams(p, ids), c # 0 => ~ Deleted(p, left, c)
    PROVE  LET s == SlotFor(area, TeamId(ids, c))
           IN  /\ SlotIs(p, ids, c, s)
               /\ \A u \in TeamMembers(p, c) :
                      (u \in Units /\ ~ Lost(u) /\ (c # 0 => left[u][c] < 2)) => teams[u][s] = EntryOf(p, ids, c, u)
<1>1. WellFormed(p) /\ DOMAIN p = 1 .. Len(p) /\ Len(p) \in Nat /\ prog = p
  BY ProgIs
<1>. DEFINE t == TeamId(ids, c)
<1>2. AreaOK(p, ids, left)
  BY DEF Coupled
<1>3. PICK s \in TeamSlots : /\ area.teams[s].inuse /\ area.teams[s].id = t
                             /\ area.teams[s].barr.procs = Cardinality(TeamMembers(p, c))
                             /\ c = 0 => s = 0
  <2>1. CASE c = 0
    <3>1. t = 0 /\ TeamMembers(p, c) = Units /\ 0 \in TeamSlots
      BY <2>1, SizesAssumption DEF TeamId, TeamAll, TeamMembers, TeamSlots
    <3>. QED  BY <1>2, <2>1, <3>1 DEF AreaOK, TeamAll
  <2>2. CASE c # 0
    <3>1. c \in DOMAIN p /\ p[c].kind = "create" /\ ids[c] # NoTeam
      BY <2>2 DEF Teams
    <3>2. t = ids[c] /\ TeamMembers(p, c) = For(p, c)
      BY <2>2, <3>1 DEF TeamId, TeamMembers, For
    <3>. QED  BY <1>2, <2>2, <3>1, <3>2 DEF AreaOK
  <2>. QED  BY <2>1, <2>2
<1>4. \A r \in TeamSlots : area.teams[r].inuse /\ area.teams[r].id = t => r = s
  BY <1>2, <1>3 DEF AreaOK
<1>5. SlotsOf(area, t) = {s}
  BY <1>3, <1>4 DEF SlotsOf
<1>6. s \in Int
  BY SizesAssumption DEF TeamSlots
<1>7. FindTeam(area, t) = s
  <2>1. {s} # {} /\ Min({s}) = s
    BY <1>6, MinOfOne
  <2>. QED  BY <1>5, <2>1 DEF FindTeam
<1>8. SlotFor(area, t) = s
  <2>1. CASE c = 0
    BY <1>3, <2>1 DEF SlotFor, TeamId
  <2>2. CASE c # 0
    <3>1. c \in DOMAIN p /\ p[c].kind = "create" /\ ids[c] # NoTeam
      BY <2>2 DEF Teams
    <3>2. t \in Ids(p, c)
      BY <2>2, <3>1 DEF Coupled, IdsOK, TeamId
    <3>3. t # TeamAll
      BY <1>1, <3>1, <3>2 DEF Ids, TeamAll
    <3>. QED  BY <1>7, <3>3 DEF SlotFor
  <2>. QED  BY <2>1, <2>2
<1>9. SlotIs(p, ids, c, s)
  BY <1>3, <1>5, <1>7, <1>8 DEF SlotIs
<1>10. ASSUME NEW u \in TeamMembers(p, c), u \in Units, ~ Lost(u), c # 0 => left[u][c] < 2
       PROVE  teams[u][s] = EntryOf(p, ids, c, u)
  <2>1. TableOK(p, ids, left, u)
    BY <1>10 DEF Coupled
  <2>2. CASE c = 0
    <3>1. TeamMembers(p, c) = Units /\ TeamId(ids, c) = TeamAll /\ TeamGroup(p, c) = WorldGroup
      BY <2>2 DEF TeamMembers, TeamId, TeamGroup
    <3>2. Rank(Units, u) = u
      BY <1>10, RankOfUnit
    <3>3. s = 0
      BY <1>3, <2>2
    <3>4. teams[u][0] = [id |-> TeamAll, valid |-> TRUE, myid |-> u, group |-> WorldGroup]
      BY <1>10, <2>1 DEF TableOK
    <3>. QED  BY <3>1, <3>2, <3>3, <3>4 DEF EntryOf
  <2>3. CASE c # 0
    <3>1. c \in DOMAIN p /\ p[c].kind = "create" /\ ids[c] # NoTeam
      BY <2>3 DEF Teams
    <3>2. t = ids[c] /\ TeamMembers(p, c) = For(p, c) /\ TeamGroup(p, c) = p[c].group
      BY <2>3, <3>1 DEF TeamId, TeamMembers, For, TeamGroup
    <3>3. teams[u][s] = [id |-> ids[c], valid |-> TRUE, myid |-> Rank(For(p, c), u), group |-> p[c].group]
      BY <1>3, <1>10, <2>1, <2>3, <3>1, <3>2 DEF TableOK
    <3>. QED  BY <3>2, <3>3 DEF EntryOf
  <2>. QED  BY <2>2, <2>3
<1>. QED  BY <1>8, <1>9, <1>10

\* What a unit finds when it looks its team up.
LEMMA LookUp ==
    ASSUME NEW p, NEW ids, NEW left, NEW over, Coupled(p, ids, left, over),
           NEW u \in Units, pos[u] \in DOMAIN p, u \in Mem(p, pos[u]), Live(p, ids, pos[u]),
           ~ Woken(u), ~ Lost(u), Started(u) => todo[u] # <<>>
    PROVE  LET i == pos[u]  c == p[i].on  M == Mem(p, i)
           IN  /\ T(u) = TeamId(ids, c) /\ c \in Teams(p, ids) /\ M = TeamMembers(p, c)
               /\ c # 0 => ~ Deleted(p, left, c) /\ left[u][c] = 0
               /\ SlotIs(p, ids, c, SlotFor(area, T(u)))
               /\ Entry(u, T(u)) = EntryOf(p, ids, c, u)
               /\ Valid(u, T(u)) /\ SizeOf(u, T(u)) = Cardinality(M) /\ MyId(u, T(u)) = Rank(M, u)
               /\ StepsOf(u, i) = Script(p, u, i)
<1>. DEFINE i == pos[u]
            c == p[i].on
            M == Mem(p, i)
            s == SlotFor(area, T(u))
<1>1. WellFormed(p) /\ DOMAIN p = 1 .. Len(p) /\ Len(p) \in Nat /\ prog = p
  BY ProgIs
<1>2. T(u) = TeamId(ids, c)
  <2>1. i <= pos[u]
    BY <1>1
  <2>. QED  BY <2>1, TeamOfIs DEF T
<1>3. M = TeamMembers(p, c)
  BY DEF Mem
<1>4. c # 0 => /\ c \in DOMAIN p /\ p[c].kind = "create" /\ ids[c] # NoTeam
               /\ ~ Deleted(p, left, c) /\ left[u][c] = 0
  BY CurrentTeam
<1>5. c \in Teams(p, ids)
  BY <1>4 DEF Teams
<1>6. SlotIs(p, ids, c, s) /\ teams[u][s] = EntryOf(p, ids, c, u)
  <2>. HIDE DEF i, c
  <2>. QED  BY <1>2, <1>3, <1>4, <1>5, TeamHasSlot DEF i, c
<1>7. Entry(u, T(u)) = EntryOf(p, ids, c, u)
  BY <1>6 DEF Entry
<1>8. Valid(u, T(u))
  <2>1. s \in TeamSlots
    BY <1>6 DEF SlotIs
  <2>2. teams[u][s].valid /\ teams[u][s].id = T(u)
    BY <1>2, <1>6 DEF EntryOf
  <2>. QED  BY <2>1, <2>2 DEF Valid
<1>9. /\ T(u) = TeamAll <=> c = 0
      /\ Entry(u, T(u)).group.nmem = Cardinality(M) /\ Entry(u, T(u)).group.g2l = LocalIds(p, c)
  <2>1. CASE c = 0
    <3>1. T(u) = TeamAll /\ Entry(u, T(u)).group = WorldGroup /\ M = Units
      BY <1>2, <1>3, <1>7, <2>1 DEF TeamId, EntryOf, TeamGroup, TeamMembers
    <3>2. WorldGroup.nmem = Cardinality(Units)
      BY WorldGroupRanks, GroupOKType
    <3>. QED  BY <2>1, <3>1, <3>2 DEF LocalIds
  <2>2. CASE c # 0
    <3>1. T(u) = ids[c] /\ Entry(u, T(u)).group = p[c].group /\ M = MembersOf(p[c].group)
      BY <1>2, <1>3, <1>7, <2>2 DEF TeamId, EntryOf, TeamGroup, TeamMembers
    <3>2. GroupOK(p[c].group)
      BY <1>1, <1>4, <2>2, ProgramKinds
    <3>3. p[c].group.nmem = Cardinality(MembersOf(p[c].group))
      BY <3>2, GroupOKType
    <3>4. ids[c] \in Ids(p, c)
      BY <1>4, <2>2 DEF Coupled, IdsOK
    <3>5. ids[c] # TeamAll
      BY <1>1, <1>4, <2>2, <3>4 DEF Ids, TeamAll
    <3>. QED  BY <2>2, <3>1, <3>3, <3>5 DEF LocalIds
  <2>. QED  BY <2>1, <2>2
<1>10. SizeOf(u, T(u)) = Cardinality(M)
  <2>1. CASE c = 0
    BY <1>3, <1>9, <2>1 DEF SizeOf, TeamMembers
  <2>2. CASE c # 0
    BY <1>9, <2>2 DEF SizeOf
  <2>. QED  BY <2>1, <2>2
<1>11. MyId(u, T(u)) = Rank(M, u)
  <2>1. CASE c = 0
    <3>1. Rank(Units, u) = u
      BY RankOfUnit
    <3>. QED  BY <1>3, <1>9, <2>1, <3>1 DEF MyId, TeamMembers
  <2>2. CASE c # 0
    BY <1>3, <1>7, <1>9, <2>2 DEF MyId, EntryOf
  <2>. QED  BY <2>1, <2>2
<1>12. StepsOf(u, i) = Script(p, u, i)
  BY <1>1, <1>9, <1>10, <1>11 DEF StepsOf, T, Script
<1>. QED  BY <1>2, <1>3, <1>4, <1>5, <1>6, <1>7, <1>8, <1>10, <1>11, <1>12

\* The FIFOs of different teams and units have different names.
LEMMA PipeNamesDiffer ==
    ASSUME NEW p, NEW ids, NEW left, WellFormed(p), IdsOK(p, ids, left),
           NEW c \in Teams(p, ids), NEW d \in Teams(p, ids),
           NEW v \in TeamMembers(p, c), NEW u \in TeamMembers(p, c),
           NEW x \in TeamMembers(p, d), NEW y \in TeamMembers(p, d),
           Pipe(p, ids, c, v, u) = Pipe(p, ids, d, x, y)
    PROVE  c = d /\ v = x /\ u = y
<1>1. DOMAIN p = 1 .. Len(p) /\ Len(p) \in Nat
  BY ProgramDomain
<1>2. /\ TeamId(ids, c) = TeamId(ids, d)
      /\ Rank(TeamMembers(p, c), v) = Rank(TeamMembers(p, d), x)
      /\ Rank(TeamMembers(p, c), u) = Rank(TeamMembers(p, d), y)
  BY DEF Pipe
<1>3. \A b \in Teams(p, ids) : b # 0 => b \in DOMAIN p /\ p[b].kind = "create" /\ ids[b] # NoTeam /\ ids[b] \in 1 .. Len(p)
  BY DEF Teams, IdsOK, Ids
<1>4. c = d
  <2>1. CASE c = 0 \/ d = 0
    BY <1>1, <1>2, <1>3, <2>1 DEF TeamId, TeamAll
  <2>2. CASE c # 0 /\ d # 0
    BY <1>2, <1>3, <2>2 DEF TeamId, IdsOK
  <2>. QED  BY <2>1, <2>2
<1>5. TeamMembers(p, c) \in SUBSET Int /\ IsFiniteSet(TeamMembers(p, c))
  <2>1. CASE c = 0
    <3>1. TeamMembers(p, c) = Units
      BY <2>1 DEF TeamMembers
    <3>. QED  BY <3>1, UnitsFinite
  <2>2. CASE c # 0
    <3>1. TeamMembers(p, c) = MembersOf(p[c].group)
      BY <2>2 DEF TeamMembers
    <3>. QED  BY <3>1, GroupTypes
  <2>. QED  BY <2>1, <2>2
<1>6. \A a, b \in TeamMembers(p, c) : Rank(TeamMembers(p, c), a) = Rank(TeamMembers(p, c), b) => a = b
  BY <1>5, RankOrder
<1>. QED  BY <1>2, <1>4, <1>6

\* The members of what create and lockinit make receive in their second step.
LEMMA RecvAtThree ==
    ASSUME NEW p, WellFormed(p), NEW c \in DOMAIN p, p[c].kind \in {"create", "lockinit"},
           NEW u \in For(p, c), u # Maker(p, c)
    PROVE  Size(p, u, c) = 4 /\ ReceivesFrom(p, u, c, 3, Maker(p, c)) /\ StepAt(p, u, c, 3).do = "recv"
<1>1. u \in Mem(p, c)
  BY ProgramTeams
<1>2. MakingOK(p, u, c) /\ BarrierOK(p, u, c) /\ SizeOK(p, u, c)
  BY <1>1, CallIs DEF CallOK
<1>3. p[c].kind = "lockinit" => Rank(Mem(p, c), u) # 0
  <2>1. p[c].kind = "lockinit" => For(p, c) = Mem(p, c)
    BY DEF For
  <2>. QED  BY <2>1, ProgramTeams
<1>4. Size(p, u, c) = 4
  BY <1>2, <1>3 DEF SizeOK
<1>5. /\ Barriers(p, c) = 2 /\ BarLeft(p, u, c, 1) = 4
      /\ BarLeft(p, u, c, 2) = IF p[c].kind = "create" THEN 1 ELSE 2
  BY <1>3, <1>4 DEF Barriers, BarLeft
<1>6. StepAt(p, u, c, 3).do # "find"
  <2>1. StepAt(p, u, c, 3).do = "find" <=> \E b \in 1 .. 2 : 3 = BarLeft(p, u, c, b)
    BY <1>2, <1>4, <1>5 DEF BarrierOK
  <2>2. 1 .. 2 = {1, 2}
    OBVIOUS
  <2>. QED  BY <1>5, <2>1, <2>2
<1>7. MakingAt(p, u, c, 3)
  BY <1>2, <1>4 DEF MakingOK
<1>8. StepAt(p, u, c, 3).do = "recv" /\ StepAt(p, u, c, 3).peer = Rank(Mem(p, c), Maker(p, c))
  BY <1>6, <1>7 DEF MakingAt
<1>. QED  BY <1>4, <1>8 DEF ReceivesFrom

-----------------------------------------------------------------------------
(* What changes when a unit has taken a step.                              *)

\* What a step with l left of operation i changes for u in the operators over left.
Stepped(p, left, next, u, i, do, l) ==
    /\ next \in [Units -> [DOMAIN p -> Nat]]
    /\ next[u][i] = l - 1 /\ left[u][i] = l /\ l \in Nat /\ l >= 1
    /\ \A w \in Units, j \in DOMAIN p : next[w][j] # left[w][j] => w = u /\ j = i
    /\ \A c \in DOMAIN p : p[c].kind = "create" =>
           (Deleted(p, next, c) <=> (Deleted(p, left, c) \/ (do = "delteam" /\ p[i].on = c)))
    /\ \A c \in DOMAIN p, w \in Units : w \in TeamMembers(p, c) /\ p[c].kind = "create" =>
           (Unlinked(p, next, c, w) <=> (Unlinked(p, left, c, w) \/ (do = "unlink" /\ p[i].on = c /\ w = u)))
    /\ \A c \in DOMAIN p, w \in Units : w \in For(p, c) /\ p[c].kind = "create" =>
           (next[w][c] < 2 <=> (left[w][c] < 2 \/ (do = "init" /\ i = c /\ w = u)))
    /\ \A c \in DOMAIN p : p[c].kind = "lockinit" =>
           (Dropped(p, next, c) <=> (Dropped(p, left, c) \/ (do = "droplock" /\ p[i].arg = c)))
    /\ \A c \in DOMAIN p : p[c].kind \in {"create", "lockinit"} =>
           (next[Maker(p, c)][c] < MakeLeft(p, c) <=>
               (left[Maker(p, c)][c] < MakeLeft(p, c) \/ (do \in {"newteam", "takelock"} /\ i = c)))
    /\ \A c \in DOMAIN p, w \in Units : w \in For(p, c) /\ w # Maker(p, c) /\ p[c].kind \in {"create", "lockinit"} =>
           (next[w][c] < 3 <=> (left[w][c] < 3 \/ (do = "recv" /\ i = c /\ w = u)))
    /\ \A c \in DOMAIN p, w \in Units : w \in For(p, c) /\ p[c].kind \in {"create", "lockinit"} =>
           (next[w][c] < SetLeft(p, c) <=>
               (left[w][c] < SetLeft(p, c) \/ (do \in {"init", "setlock"} /\ i = c /\ w = u)))
    /\ \A j \in DOMAIN p : \A v \in Mem(p, j) : \A w :
           (Sent(p, next, v, j, w) <=> (Sent(p, left, v, j, w) \/ (v = u /\ j = i /\ SendsTo(p, u, i, l, w))))
    /\ \A j \in DOMAIN p : \A v \in Mem(p, j) : \A w :
           (Got(p, next, v, j, w) <=> (Got(p, left, v, j, w) \/ (v = u /\ j = i /\ ReceivesFrom(p, u, i, l, w))))

\* One step less of one call of one unit: what this changes in the operators over
\* what is left.
LEMMA StepChanges ==
    ASSUME NEW p, WellFormed(p), NEW left \in [Units -> [DOMAIN p -> Nat]], NEW u \in Units, NEW i \in DOMAIN p,
           u \in Mem(p, i), left[u][i] \in 1 .. Size(p, u, i), NEW next, next = [left EXCEPT ![u][i] = @ - 1]
    PROVE  Stepped(p, left, next, u, i, StepAt(p, u, i, left[u][i]).do, left[u][i])
<1>. DEFINE l == left[u][i]
            do == StepAt(p, u, i, l).do
<1>1. l \in Nat /\ l >= 1 /\ l \in 1 .. Size(p, u, i) /\ Size(p, u, i) \in Nat
  BY SizeType
<1>2. /\ next \in [Units -> [DOMAIN p -> Nat]] /\ next[u][i] = l - 1
      /\ \A w \in Units, j \in DOMAIN p : w # u \/ j # i => next[w][j] = left[w][j]
  <2>1. l - 1 \in Nat
    BY <1>1
  <2>2. next = [left EXCEPT ![u] = [left[u] EXCEPT ![i] = l - 1]]
    OBVIOUS
  <2>3. [left[u] EXCEPT ![i] = l - 1] \in [DOMAIN p -> Nat]
    BY <2>1
  <2>. HIDE DEF l
  <2>. QED  BY <2>1, <2>2, <2>3
<1>. HIDE DEF l
<1>3. \A w \in Units, j \in DOMAIN p : \/ w = u /\ j = i /\ next[w][j] = l - 1 /\ left[w][j] = l
                                       \/ ~ (w = u /\ j = i) /\ next[w][j] = left[w][j]
  BY <1>2 DEF l
<1>4. MakingAt(p, u, i, l) /\ SizeOK(p, u, i)
  BY <1>1, CallIs DEF CallOK, MakingOK
<1>5. \A w \in Units, j \in DOMAIN p : left[w][j] \in Nat /\ next[w][j] \in Nat
  BY <1>2
<1>6. \A w \in Units, j \in DOMAIN p, k \in Int :
          next[w][j] < k <=> (left[w][j] < k \/ (w = u /\ j = i /\ l = k))
  <2>. SUFFICES ASSUME NEW w \in Units, NEW j \in DOMAIN p, NEW k \in Int
                PROVE  next[w][j] < k <=> (left[w][j] < k \/ (w = u /\ j = i /\ l = k))
    OBVIOUS
  <2>. QED  BY <1>1, <1>3, <1>5
<1>7. ASSUME NEW c \in DOMAIN p, p[c].kind = "create"
      PROVE  Deleted(p, next, c) <=> (Deleted(p, left, c) \/ (do = "delteam" /\ p[i].on = c))
  <2>1. ASSUME NEW d \in DOMAIN p, p[d].kind = "destroy", p[d].on = c
        PROVE  next[Maker(p, c)][d] < 1 <=> (left[Maker(p, c)][d] < 1 \/ (d = i /\ do = "delteam"))
    <3>1. /\ Maker(p, c) \in Units /\ Maker(p, c) \in Mem(p, d)
          /\ \A w \in Mem(p, d) : Rank(Mem(p, d), w) = 0 <=> w = Maker(p, c)
      BY <2>1, DestroyPlaces
    <3>2. next[Maker(p, c)][d] < 1 <=> (left[Maker(p, c)][d] < 1 \/ (Maker(p, c) = u /\ d = i /\ l = 1))
      BY <1>6, <3>1
    <3>3. d = i => (do = "delteam" <=> Maker(p, c) = u /\ l = 1)
      BY <1>4, <2>1, <3>1 DEF MakingAt
    <3>. HIDE DEF do
    <3>. QED  BY <3>2, <3>3
  <2>2. do = "delteam" => p[i].kind = "destroy"
    BY <1>4 DEF MakingAt
  <2>. HIDE DEF do
  <2>. QED  BY <2>1, <2>2 DEF Deleted
<1>8. ASSUME NEW c \in DOMAIN p, NEW w \in Units, w \in TeamMembers(p, c), p[c].kind = "create"
      PROVE  Unlinked(p, next, c, w) <=> (Unlinked(p, left, c, w) \/ (do = "unlink" /\ p[i].on = c /\ w = u))
  <2>1. ASSUME NEW d \in DOMAIN p, p[d].kind = "destroy", p[d].on = c
        PROVE  next[w][d] < BarLeft(p, w, d, 2) + 1 <=>
                   (left[w][d] < BarLeft(p, w, d, 2) + 1 \/ (d = i /\ w = u /\ do = "unlink"))
    <3>1. w \in Mem(p, d) /\ Barriers(p, d) = 2
      <4>1. c # 0
        BY <2>1, DestroyPlaces
      <4>. QED  BY <1>8, <2>1, <4>1, DestroyPlaces DEF Mem
    <3>2. BarLeft(p, w, d, 2) + 1 \in Int
      <4>1. \A b \in 1 .. 2 : BarLeft(p, w, d, b) \in Nat
        BY <3>1, SizeType
      <4>. QED  BY <4>1
    <3>3. next[w][d] < BarLeft(p, w, d, 2) + 1 <=>
              (left[w][d] < BarLeft(p, w, d, 2) + 1 \/ (w = u /\ d = i /\ l = BarLeft(p, w, d, 2) + 1))
      BY <1>6, <3>2
    <3>4. d = i => (do = "unlink" <=> l = BarLeft(p, u, d, 2) + 1)
      BY <1>4, <2>1 DEF MakingAt
    <3>. HIDE DEF do
    <3>. QED  BY <3>3, <3>4
  <2>2. do = "unlink" => p[i].kind = "destroy"
    BY <1>4 DEF MakingAt
  <2>. HIDE DEF do
  <2>. QED  BY <2>1, <2>2 DEF Unlinked
<1>9. ASSUME NEW c \in DOMAIN p, NEW w \in Units, w \in For(p, c), p[c].kind = "create"
      PROVE  next[w][c] < 2 <=> (left[w][c] < 2 \/ (do = "init" /\ i = c /\ w = u))
  <2>1. next[w][c] < 2 <=> (left[w][c] < 2 \/ (w = u /\ c = i /\ l = 2))
    BY <1>6
  <2>2. (i = c /\ w = u) => (do = "init" <=> l = 2)
    BY <1>4, <1>9 DEF MakingAt
  <2>. HIDE DEF do
  <2>. QED  BY <2>1, <2>2
<1>10. ASSUME NEW c \in DOMAIN p, p[c].kind = "lockinit"
       PROVE  Dropped(p, next, c) <=> (Dropped(p, left, c) \/ (do = "droplock" /\ p[i].arg = c))
  <2>1. ASSUME NEW d \in DOMAIN p, p[d].kind = "lockfree", p[d].arg = c
        PROVE  next[Maker(p, c)][d] < 2 <=> (left[Maker(p, c)][d] < 2 \/ (d = i /\ do = "droplock"))
    <3>1. Mem(p, d) = Mem(p, c) /\ For(p, c) = Mem(p, c)
      BY <2>1, ProgramFree
    <3>2. /\ Maker(p, c) \in Units /\ Maker(p, c) \in Mem(p, d)
          /\ \A x \in Mem(p, d) : Rank(Mem(p, d), x) = 0 <=> x = Maker(p, c)
      BY <3>1, ProgramTeams
    <3>3. next[Maker(p, c)][d] < 2 <=> (left[Maker(p, c)][d] < 2 \/ (Maker(p, c) = u /\ d = i /\ l = 2))
      BY <1>6, <3>2
    <3>4. d = i => (do = "droplock" <=> Maker(p, c) = u /\ l = 2)
      BY <1>4, <2>1, <3>2 DEF MakingAt
    <3>. HIDE DEF do
    <3>. QED  BY <3>3, <3>4
  <2>2. do = "droplock" => p[i].kind = "lockfree"
    BY <1>4 DEF MakingAt
  <2>. HIDE DEF do
  <2>. QED  BY <2>1, <2>2 DEF Dropped
<1>11. ASSUME NEW c \in DOMAIN p, p[c].kind \in {"create", "lockinit"}
       PROVE  next[Maker(p, c)][c] < MakeLeft(p, c) <=>
                 (left[Maker(p, c)][c] < MakeLeft(p, c) \/ (do \in {"newteam", "takelock"} /\ i = c))
  <2>1. Maker(p, c) \in Units /\ Maker(p, c) \in Mem(p, c)
    BY ProgramTeams
  <2>2. MakeLeft(p, c) \in Int
    <3>1. Size(p, Maker(p, c), c) \in Nat
      BY <2>1, SizeType
    <3>. QED  BY <3>1 DEF MakeLeft
  <2>3. next[Maker(p, c)][c] < MakeLeft(p, c) <=>
            (left[Maker(p, c)][c] < MakeLeft(p, c) \/ (Maker(p, c) = u /\ c = i /\ l = MakeLeft(p, c)))
    BY <1>6, <2>1, <2>2
  <2>4. i = c => (do \in {"newteam", "takelock"} <=> (u = Maker(p, c) /\ l = MakeLeft(p, c)))
    BY <1>4, <1>11 DEF MakingAt
  <2>. HIDE DEF do
  <2>. QED  BY <2>3, <2>4
<1>12. ASSUME NEW c \in DOMAIN p, NEW w \in Units, w \in For(p, c), w # Maker(p, c),
              p[c].kind \in {"create", "lockinit"}
       PROVE  next[w][c] < 3 <=> (left[w][c] < 3 \/ (do = "recv" /\ i = c /\ w = u))
  <2>1. next[w][c] < 3 <=> (left[w][c] < 3 \/ (w = u /\ c = i /\ l = 3))
    BY <1>6
  <2>2. (i = c /\ w = u /\ do = "recv") => l = 3
    BY <1>4, <1>12 DEF MakingAt
  <2>3. (i = c /\ w = u /\ l = 3) => do = "recv"
    BY <1>12, RecvAtThree
  <2>. HIDE DEF do
  <2>. QED  BY <2>1, <2>2, <2>3
<1>13. ASSUME NEW c \in DOMAIN p, NEW w \in Units, w \in For(p, c), p[c].kind \in {"create", "lockinit"}
       PROVE  next[w][c] < SetLeft(p, c) <=>
                  (left[w][c] < SetLeft(p, c) \/ (do \in {"init", "setlock"} /\ i = c /\ w = u))
  <2>1. SetLeft(p, c) \in Int
    BY DEF SetLeft
  <2>2. next[w][c] < SetLeft(p, c) <=> (left[w][c] < SetLeft(p, c) \/ (w = u /\ c = i /\ l = SetLeft(p, c)))
    BY <1>6, <2>1
  <2>3. (i = c /\ w = u) => (do \in {"init", "setlock"} <=> l = SetLeft(p, c))
    BY <1>4, <1>13 DEF MakingAt, SetLeft
  <2>. HIDE DEF do
  <2>. QED  BY <2>2, <2>3
<1>14. ASSUME NEW j \in DOMAIN p, NEW v \in Mem(p, j), NEW w
       PROVE  /\ Sent(p, next, v, j, w) <=> (Sent(p, left, v, j, w) \/ (v = u /\ j = i /\ SendsTo(p, u, i, l, w)))
              /\ Got(p, next, v, j, w) <=> (Got(p, left, v, j, w) \/ (v = u /\ j = i /\ ReceivesFrom(p, u, i, l, w)))
  <2>1. v \in Units
    BY ProgramTeams DEF IsTeam
  <2>2. \A k \in 1 .. Size(p, v, j) : next[v][j] < k <=> (left[v][j] < k \/ (v = u /\ j = i /\ l = k))
    BY <1>6, <2>1
  <2>3. (v = u /\ j = i) => l \in 1 .. Size(p, v, j)
    BY <1>1
  <2>. QED  BY <2>2, <2>3 DEF Sent, Got
<1>15. \A w \in Units, j \in DOMAIN p : next[w][j] # left[w][j] => w = u /\ j = i
  BY <1>3
<1>. HIDE DEF do
<1>16. Stepped(p, left, next, u, i, do, l)
  <2>1. /\ next \in [Units -> [DOMAIN p -> Nat]]
        /\ next[u][i] = l - 1 /\ left[u][i] = l /\ l \in Nat /\ l >= 1
    BY <1>1, <1>2 DEF l
  <2>. QED  BY <2>1, <1>7, <1>8, <1>9, <1>10, <1>11, <1>12, <1>13, <1>14, <1>15, Zenon DEF Stepped
<1>. QED  BY <1>16 DEF do, l

-----------------------------------------------------------------------------
(* What is left of a call when its first step is gone, or is replaced.     *)

\* A list of steps without its first.
LEMMA LeftOfTail ==
    ASSUME NEW s \in Seq(StepRec), s # <<>>
    PROVE  /\ Tail(s) \in Seq(StepRec) /\ Len(Tail(s)) = Len(s) - 1 /\ Len(s) \in Nat /\ Len(s) >= 1
           /\ \A k \in 1 .. Len(s) - 1 : LeftOf(Tail(s), k) = LeftOf(s, k)
<1>1. Len(s) \in Nat /\ Len(s) >= 1 /\ Tail(s) \in Seq(StepRec) /\ Len(Tail(s)) = Len(s) - 1
  OBVIOUS
<1>2. \A j \in 1 .. Len(s) - 1 : Tail(s)[j] = s[j + 1]
  OBVIOUS
<1>3. ASSUME NEW k \in 1 .. Len(s) - 1 PROVE LeftOf(Tail(s), k) = LeftOf(s, k)
  <2>1. Len(Tail(s)) - k + 1 \in 1 .. Len(s) - 1 /\ Len(Tail(s)) - k + 1 + 1 = Len(s) - k + 1
    BY <1>1
  <2>2. Tail(s)[Len(Tail(s)) - k + 1] = s[Len(s) - k + 1]
    BY <1>2, <2>1
  <2>. QED  BY <2>2 DEF LeftOf
<1>. QED  BY <1>1, <1>3

\* A list of steps whose first has become another.
LEMMA LeftOfReplaced ==
    ASSUME NEW s \in Seq(StepRec), s # <<>>, NEW name \in StepNames
    PROVE  LET q == Step(name) \o Tail(s)
           IN  /\ q \in Seq(StepRec) /\ Len(q) = Len(s) /\ q # <<>>
               /\ Head(q).do = name /\ LeftOf(q, Len(s)) = Head(q)
               /\ \A k \in 1 .. Len(s) - 1 : LeftOf(q, k) = LeftOf(s, k)
<1>. DEFINE e == [do |-> name, peer |-> 0, newid |-> 0]
            t == Tail(s)
            q == <<e>> \o t
<1>1. Step(name) = <<e>>
  BY DEF Step
<1>2. /\ t \in Seq(StepRec) /\ Len(t) = Len(s) - 1 /\ Len(s) \in Nat /\ Len(s) >= 1
      /\ \A k \in 1 .. Len(s) - 1 : LeftOf(t, k) = LeftOf(s, k)
  BY LeftOfTail
<1>3. e \in StepRec /\ e.do = name
  BY DEF StepRec
<1>. HIDE DEF e, t
<1>4. q \in Seq(StepRec) /\ Len(q) = 1 + Len(t) /\ q[1] = e /\ Head(q) = q[1] /\ q # <<>>
  BY <1>2, <1>3
<1>5. Len(q) = Len(s)
  BY <1>2, <1>4
<1>6. \A j \in 1 .. Len(t) : q[j + 1] = t[j]
  BY <1>2, <1>3
<1>. HIDE DEF q
<1>7. LeftOf(q, Len(s)) = Head(q)
  <2>1. Len(q) - Len(s) + 1 = 1
    BY <1>2, <1>5
  <2>. QED  BY <1>4, <2>1 DEF LeftOf
<1>8. ASSUME NEW k \in 1 .. Len(s) - 1 PROVE LeftOf(q, k) = LeftOf(t, k)
  <2>1. Len(t) - k + 1 \in 1 .. Len(t) /\ Len(q) - k + 1 = Len(t) - k + 1 + 1
    BY <1>2, <1>4
  <2>2. q[Len(q) - k + 1] = t[Len(t) - k + 1]
    BY <1>6, <2>1
  <2>. QED  BY <2>2 DEF LeftOf
<1>. QED  BY <1>1, <1>2, <1>3, <1>4, <1>5, <1>7, <1>8 DEF q, t

-----------------------------------------------------------------------------
(* The place of a unit when what it has to do has changed.                 *)

\* q is what u has left of its call.
Remains(p, u, i, q) ==
    /\ q \in Seq(StepRec) /\ Len(q) <= Size(p, u, i)
    /\ \A k \in 1 .. Len(q) : SameStep(LeftOf(q, k), StepAt(p, u, i, k))
    /\ \A k \in 1 .. Len(q) - 1 : LeftOf(q, k).do \notin {"await", "wait", "lost"}

\* The places of the units when one of them has another list of steps to do.
LEMMA PlaceChange ==
    ASSUME NEW p, WellFormed(p), NEW ids, NEW left, NEW over, TypesOK(p), GhostsOK(p, ids, left, over),
           \A w \in Units : PlaceOK(p, ids, left, w),
           NEW u \in Units, todo[u] # <<>>, NEW q, Remains(p, u, pos[u], q),
           todo'[u] = q, \A w \in Units : w # u => todo'[w] = todo[w],
           pos' = pos, \A w \in Units : buf'[w].op = buf[w].op,
           NEW next, next[u][pos[u]] = Len(q),
           \A w \in Units, j \in DOMAIN p : next[w][j] # left[w][j] => w = u /\ j = pos[u]
    PROVE  \A w \in Units : PlaceOK(p, ids, next, w)'
<1>1. /\ pos \in [Units -> 1 .. Len(p) + 1] /\ todo \in [Units -> Seq(StepRec)]
      /\ left \in [Units -> [DOMAIN p -> Nat]]
  BY DEF TypesOK, GhostsOK
<1>2. DOMAIN p = 1 .. Len(p) /\ Len(p) \in Nat
  BY ProgramDomain
<1>3. pos[u] \in DOMAIN p /\ Started(u) /\ u \in Mem(p, pos[u]) /\ Live(p, ids, pos[u])
  BY DEF PlaceOK
<1>4. ASSUME NEW w \in Units PROVE Started(w)' <=> Started(w)
  BY <1>4 DEF Started
<1>5. \A j \in DOMAIN p : j # pos[u] => next[u][j] = left[u][j]
  OBVIOUS
<1>6. ASSUME NEW w \in Units, w # u PROVE PlaceOK(p, ids, next, w)'
  <2>1. PlaceOK(p, ids, left, w)
    BY <1>6
  <2>2. /\ todo'[w] = todo[w] /\ pos'[w] = pos[w] /\ buf'[w].op = buf[w].op
        /\ \A j \in DOMAIN p : next[w][j] = left[w][j]
    BY <1>6
  <2>. QED  BY <1>4, <2>1, <2>2 DEF PlaceOK
<1>7. PlaceOK(p, ids, next, u)'
  <2>. DEFINE i == pos[u]
  <2>1. PlaceOK(p, ids, left, u)
    OBVIOUS
  <2>2. /\ pos'[u] = i /\ i \in DOMAIN p /\ u \in Mem(p, i) /\ buf'[u].op = buf[u].op /\ buf[u].op <= i
        /\ Started(u)' /\ Started(u) /\ Live(p, ids, i) /\ todo'[u] = q /\ pos[u] = i
    BY <1>3, <1>4, <1>5, <2>1 DEF PlaceOK
  <2>. HIDE DEF i
  <2>3. ASSUME NEW j \in DOMAIN p, u \in Mem(p, j)
        PROVE  next[u][j] = IF ~Live(p, ids, j) \/ j > i \/ (j = i /\ ~ Started(u)') THEN Size(p, u, j)
                            ELSE IF j < i THEN 0 ELSE Len(q)
    <3>1. left[u][j] = IF ~Live(p, ids, j) \/ j > i \/ (j = i /\ ~ Started(u)) THEN Size(p, u, j)
                       ELSE IF j < i THEN 0 ELSE Len(todo[u])
      BY <2>1, <2>2, <2>3 DEF PlaceOK
    <3>2. i \in Int /\ j \in Int
      BY <1>2, <2>2
    <3>3. CASE j = i
      <4>1. next[u][j] = Len(q)
        BY <1>5, <2>2, <3>3
      <4>. QED  BY <2>2, <3>2, <3>3, <4>1
    <3>4. CASE j # i
      <4>1. next[u][j] = left[u][j]
        BY <1>5, <2>2, <3>4
      <4>. QED  BY <2>2, <3>1, <3>2, <3>4, <4>1
    <3>. QED  BY <3>3, <3>4
  <2>4. /\ Len(q) <= Size(p, u, i)
        /\ \A k \in 1 .. Len(q) : SameStep(LeftOf(q, k), StepAt(p, u, i, k))
        /\ \A k \in 1 .. Len(q) - 1 : LeftOf(q, k).do \notin {"await", "wait", "lost"}
    BY <2>2 DEF Remains
  <2>. QED  BY <2>2, <2>3, <2>4 DEF PlaceOK
<1>. QED  BY <1>6, <1>7

\* What remains when a step has been taken.
LEMMA RemainsTail ==
    ASSUME NEW p, NEW ids, NEW left, NEW over, Coupled(p, ids, left, over),
           NEW u \in Units, todo[u] # <<>>
    PROVE  /\ Remains(p, u, pos[u], Tail(todo[u])) /\ Len(Tail(todo[u])) = Len(todo[u]) - 1
           /\ Tail(todo[u]) # <<>> => Head(Tail(todo[u])).do \notin {"await", "wait", "lost"}
<1>. DEFINE s == todo[u]
            i == pos[u]
<1>1. s \in Seq(StepRec) /\ Len(s) \in 1 .. Size(p, u, i)
  BY Underway
<1>2. /\ \A k \in 1 .. Len(s) : SameStep(LeftOf(s, k), StepAt(p, u, i, k))
      /\ \A k \in 1 .. Len(s) - 1 : LeftOf(s, k).do \notin {"await", "wait", "lost"}
  BY DEF Coupled, PlaceOK
<1>3. Size(p, u, i) \in Nat
  BY Underway, ProgIs, SizeType
<1>. HIDE DEF s, i
<1>4. s # <<>>
  BY DEF s
<1>5. /\ Tail(s) \in Seq(StepRec) /\ Len(Tail(s)) = Len(s) - 1 /\ Len(s) \in Nat /\ Len(s) >= 1
      /\ \A k \in 1 .. Len(s) - 1 : LeftOf(Tail(s), k) = LeftOf(s, k)
  BY <1>1, <1>4, LeftOfTail
<1>6. Remains(p, u, i, Tail(s))
  <2>1. Len(Tail(s)) <= Size(p, u, i)
    BY <1>1, <1>3, <1>5
  <2>2. \A k \in 1 .. Len(Tail(s)) : k \in 1 .. Len(s) - 1 /\ k \in 1 .. Len(s)
    BY <1>5
  <2>3. \A k \in 1 .. Len(Tail(s)) - 1 : k \in 1 .. Len(s) - 1
    BY <1>5
  <2>. QED  BY <1>2, <1>5, <2>1, <2>2, <2>3 DEF Remains
<1>7. ASSUME Tail(s) # <<>> PROVE Head(Tail(s)).do \notin {"await", "wait", "lost"}
  <2>. DEFINE t == Tail(s)
  <2>1. t \in Seq(StepRec) /\ t # <<>> /\ Len(t) = Len(s) - 1
    BY <1>5, <1>7
  <2>. HIDE DEF t
  <2>2. Len(t) \in Nat /\ Len(t) >= 1 /\ Head(t) = t[1]
    BY <2>1
  <2>3. Head(t) = LeftOf(t, Len(t)) /\ Len(t) \in 1 .. Len(s) - 1
    BY <1>5, <2>1, <2>2 DEF LeftOf
  <2>. QED  BY <1>2, <1>5, <2>3 DEF t
<1>. QED  BY <1>5, <1>6, <1>7 DEF s, i

\* The barriers that are over when a unit has taken a step that is none, or
\* has left one.
LEMMA OverChange ==
    ASSUME NEW p, WellFormed(p), NEW ids, NEW left, NEW over,
           \A w \in Units : OverOK(p, ids, left, over, w),
           NEW u \in Units, NEW i \in DOMAIN p, pos[u] = i, u \in Mem(p, i),
           left \in [Units -> [DOMAIN p -> Nat]],
           NEW next, NEW do, NEW l, Stepped(p, left, next, u, i, do, l),
           \A b \in 1 .. Barriers(p, i) : l = BarLeft(p, u, i, b) => Woken(u),
           pos' = pos, ~ Woken(u)', \A w \in Units : w # u => (Woken(w)' <=> Woken(w))
    PROVE  \A w \in Units : OverOK(p, ids, next, over, w)'
<1>1. /\ next[u][i] = l - 1 /\ left[u][i] = l /\ l \in Nat /\ l >= 1
      /\ \A w \in Units, j \in DOMAIN p : next[w][j] # left[w][j] => w = u /\ j = i
  BY DEF Stepped
<1>2. SUFFICES ASSUME NEW w \in Units, NEW j \in DOMAIN p, w \in Mem(p, j), Live(p, ids, j),
                      NEW b \in 1 .. Barriers(p, j)
               PROVE  b <= over[j] <=> (\/ next[w][j] < BarLeft(p, w, j, b)
                                        \/ (j = pos'[w] /\ next[w][j] = BarLeft(p, w, j, b) /\ Woken(w)'))
  BY DEF OverOK
<1>3. b <= over[j] <=> (\/ left[w][j] < BarLeft(p, w, j, b)
                        \/ (j = pos[w] /\ left[w][j] = BarLeft(p, w, j, b) /\ Woken(w)))
  BY <1>2 DEF OverOK
<1>4. BarLeft(p, w, j, b) \in Nat
  BY <1>2, SizeType
<1>5. CASE w = u /\ j = i
  <2>1. /\ next[w][j] < BarLeft(p, w, j, b) <=> (l < BarLeft(p, w, j, b) \/ l = BarLeft(p, w, j, b))
        /\ l = BarLeft(p, w, j, b) => Woken(u)
    BY <1>1, <1>4, <1>5
  <2>. QED  BY <1>1, <1>3, <1>5, <2>1
<1>6. CASE ~ (w = u /\ j = i)
  <2>1. next[w][j] = left[w][j]
    BY <1>1, <1>6
  <2>2. j = pos[w] => (Woken(w)' <=> Woken(w))
    BY <1>6
  <2>. QED  BY <1>3, <2>1, <2>2
<1>. QED  BY <1>5, <1>6

\* Who is in which barrier, when no barrier changes.
LEMMA InsideFrame ==
    ASSUME \A w \in Units : InsideOK(w), inside' = inside,
           \A w \in Units : (Waiting(w)' <=> Waiting(w)) /\ (Entering(w)' <=> Entering(w)),
           \A s \in TeamSlots : /\ area'.teams[s].barr.asleep = area.teams[s].barr.asleep
                                /\ area'.teams[s].barr.woken = area.teams[s].barr.woken,
           \A w \in Units : \A s \in TeamSlots :
               (inside[w] = s /\ w \notin area.teams[s].barr.woken) =>
                   /\ area'.teams[s].inuse = area.teams[s].inuse
                   /\ area'.teams[s].id = area.teams[s].id /\ T(w)' = T(w)
    PROVE  \A w \in Units : InsideOK(w)'
<1>. SUFFICES ASSUME NEW w \in Units PROVE InsideOK(w)'
  OBVIOUS
<1>1. (inside'[w] # NoSlot) <=> (Waiting(w)' \/ Entering(w)')
  BY DEF InsideOK
<1>2. ASSUME NEW s \in TeamSlots
      PROVE  LET b == area'.teams[s].barr IN
             /\ (w \in b.asleep \union b.woken) => (inside'[w] = s /\ Waiting(w)')
             /\ ~(w \in b.asleep /\ w \in b.woken)
             /\ (inside'[w] = s /\ Waiting(w)') => (w \in b.asleep \union b.woken)
             /\ (inside'[w] = s /\ w \notin b.woken) =>
                    (area'.teams[s].inuse /\ area'.teams[s].id = T(w)')
  <2>. DEFINE b == area.teams[s].barr
              b2 == area'.teams[s].barr
  <2>1. b2.asleep = b.asleep /\ b2.woken = b.woken
    OBVIOUS
  <2>2. /\ (w \in b.asleep \union b.woken) => (inside[w] = s /\ Waiting(w))
        /\ ~(w \in b.asleep /\ w \in b.woken)
        /\ (inside[w] = s /\ Waiting(w)) => (w \in b.asleep \union b.woken)
        /\ (inside[w] = s /\ w \notin b.woken) =>
               (area.teams[s].inuse /\ area.teams[s].id = T(w))
    BY DEF InsideOK
  <2>3. (inside[w] = s /\ w \notin b.woken) =>
            (area'.teams[s].inuse = area.teams[s].inuse
             /\ area'.teams[s].id = area.teams[s].id /\ T(w)' = T(w))
    OBVIOUS
  <2>4. (Waiting(w)' <=> Waiting(w)) /\ inside'[w] = inside[w]
    OBVIOUS
  <2>. HIDE DEF b, b2
  <2>5. /\ (w \in b2.asleep \union b2.woken) => (inside'[w] = s /\ Waiting(w)')
        /\ ~(w \in b2.asleep /\ w \in b2.woken)
        /\ (inside'[w] = s /\ Waiting(w)') => (w \in b2.asleep \union b2.woken)
        /\ (inside'[w] = s /\ w \notin b2.woken) =>
               (area'.teams[s].inuse /\ area'.teams[s].id = T(w)')
    BY <2>1, <2>2, <2>3, <2>4
  <2>. QED  BY <2>5 DEF b2
<1>. QED  BY <1>1, <1>2 DEF InsideOK

\* What is left of u's call is one step shorter.
Forward(p, u) ==
    \E q : /\ Remains(p, u, pos[u], q) /\ Len(q) = Len(todo[u]) - 1
           /\ q # <<>> => Head(q).do \notin {"await", "wait"}
           /\ todo' = [todo EXCEPT ![u] = q]

\* The steps other than those of a barrier.
LEMMA PlainStep ==
    ASSUME NEW p, NEW ids, NEW left, NEW over, Coupled(p, ids, left, over),
           NEW u \in Units, NEW do, At(u, do), do \notin {"find", "await", "wait", "lost"},
           Advance(u) \/ Forward(p, u), pos' = pos, prog' = prog, inside' = inside, \A w \in Units : buf'[w].op = buf[w].op,
           \A s \in TeamSlots : area'.teams[s].barr.woken = area.teams[s].barr.woken,
           NEW next, next = [left EXCEPT ![u][pos[u]] = @ - 1],
           NEW ids2, NEW over2, GhostsOK(p, ids2, left, over2),
           \A w \in Units : PlaceOK(p, ids2, left, w) /\ OverOK(p, ids2, left, over2, w)
    PROVE  /\ Stepped(p, left, next, u, pos[u], do, Len(todo[u])) /\ GhostsOK(p, ids2, next, over2)
           /\ \A w \in Units : PlaceOK(p, ids2, next, w)' /\ OverOK(p, ids2, next, over2, w)'
           /\ \A w \in Units : (Waiting(w)' <=> Waiting(w)) /\ (Entering(w)' <=> Entering(w))
           /\ \A w \in Units : ~ Lost(w)' => ~ Lost(w)
           /\ \A w \in Units : (todo'[w] # <<>> => todo[w] # <<>>) /\ (w # u => todo'[w] = todo[w])
           /\ todo' \in [Units -> Seq(StepRec)]
<1>. DEFINE i == pos[u]
            l == Len(todo[u])
<1>1. WellFormed(p) /\ DOMAIN p = 1 .. Len(p) /\ Len(p) \in Nat /\ TypesOK(p) /\ GhostsOK(p, ids, left, over)
  BY ProgIs
<1>2. /\ todo[u] # <<>> /\ inside[u] = NoSlot /\ Head(todo[u]) = StepAt(p, u, i, l)
      /\ StepAt(p, u, i, l).do = do /\ ~ Woken(u) /\ ~ Lost(u) /\ Head(todo[u]).do = do
  BY AtStep DEF At
<1>3. /\ i \in DOMAIN p /\ u \in Mem(p, i) /\ Started(u) /\ left[u][i] = l /\ l \in 1 .. Size(p, u, i)
      /\ todo[u] \in Seq(StepRec)
  BY <1>2, Underway
<1>4. /\ left \in [Units -> [DOMAIN p -> Nat]] /\ todo \in [Units -> Seq(StepRec)]
  BY <1>1 DEF GhostsOK, TypesOK
<1>5. Stepped(p, left, next, u, i, do, l)
  <2>1. left[u][i] \in 1 .. Size(p, u, i)
    BY <1>3
  <2>2. Stepped(p, left, next, u, i, StepAt(p, u, i, left[u][i]).do, left[u][i])
    BY <1>1, <1>3, <1>4, <2>1, StepChanges
  <2>. QED  BY <1>2, <1>3, <2>2
<1>6. GhostsOK(p, ids2, next, over2)
  BY <1>5 DEF GhostsOK, Stepped
<1>7. PICK q : /\ Remains(p, u, i, q) /\ Len(q) = l - 1
               /\ q # <<>> => Head(q).do \notin {"await", "wait"}
               /\ todo' = [todo EXCEPT ![u] = q]
  <2>1. CASE Forward(p, u)
    BY <2>1 DEF Forward
  <2>2. CASE Advance(u)
    <3>1. /\ Remains(p, u, i, Tail(todo[u])) /\ Len(Tail(todo[u])) = l - 1
          /\ Tail(todo[u]) # <<>> => Head(Tail(todo[u])).do \notin {"await", "wait", "lost"}
      BY <1>2, RemainsTail
    <3>2. todo' = [todo EXCEPT ![u] = Tail(todo[u])]
      BY <2>2 DEF Advance
    <3>. QED  BY <3>1, <3>2
  <2>. QED  BY <2>1, <2>2
<1>8. todo' = [todo EXCEPT ![u] = q]
  BY <1>7
<1>9. todo'[u] = q /\ \A w \in Units : w # u => todo'[w] = todo[w]
  BY <1>4, <1>8
<1>10. \A w \in Units : PlaceOK(p, ids2, next, w)'
  <2>1. /\ WellFormed(p) /\ TypesOK(p) /\ GhostsOK(p, ids2, left, over2) /\ todo[u] # <<>>
        /\ Remains(p, u, pos[u], q) /\ todo'[u] = q /\ next[u][pos[u]] = Len(q)
        /\ \A w \in Units : PlaceOK(p, ids2, left, w)
        /\ \A w \in Units : w # u => todo'[w] = todo[w]
        /\ pos' = pos /\ \A w \in Units : buf'[w].op = buf[w].op
        /\ \A w \in Units, j \in DOMAIN p : next[w][j] # left[w][j] => w = u /\ j = pos[u]
    BY <1>1, <1>2, <1>5, <1>7, <1>9 DEF Stepped
  <2>. HIDE DEF i, l
  <2>. QED  BY ONLY <2>1, u \in Units, PlaceChange
<1>11. \A w \in Units : Woken(w)' <=> Woken(w)
  <2>1. inside \in [Units -> TeamSlots \union {NoSlot}]
    BY <1>1 DEF TypesOK
  <2>2. \A w \in Units : inside[w] # NoSlot => area'.teams[inside[w]].barr.woken = area.teams[inside[w]].barr.woken
    BY <2>1
  <2>. QED  BY <2>2 DEF Woken
<1>12. \A w \in Units : OverOK(p, ids2, next, over2, w)'
  <2>1. ASSUME NEW b \in 1 .. Barriers(p, i), l = BarLeft(p, u, i, b) PROVE FALSE
    <3>1. BarrierOK(p, u, i)
      BY <1>1, <1>3, CallIs DEF CallOK
    <3>2. StepAt(p, u, i, l).do = "find"
      BY <1>3, <2>1, <3>1 DEF BarrierOK
    <3>. QED  BY <1>2, <3>2
  <2>2. ~ Woken(u)' /\ \A w \in Units : w # u => (Woken(w)' <=> Woken(w))
    BY <1>2, <1>11
  <2>3. \A w \in Units : OverOK(p, ids2, left, over2, w)
    OBVIOUS
  <2>. HIDE DEF i, l
  <2>4. pos[u] = i
    BY DEF i
  <2>. QED  BY <1>1, <1>3, <1>4, <1>5, <2>1, <2>2, <2>3, <2>4, OverChange, ZenonT(30)
<1>13. ASSUME NEW w \in Units
       PROVE  (Waiting(w)' <=> Waiting(w)) /\ (Entering(w)' <=> Entering(w))
  <2>1. CASE w = u
    BY <1>2, <1>7, <1>9, <2>1 DEF Waiting, Entering
  <2>2. CASE w # u
    BY <1>9, <2>2 DEF Waiting, Entering
  <2>. QED  BY <2>1, <2>2
<1>14. \A w \in Units : ~ Lost(w)' => ~ Lost(w)
  BY <1>2, <1>9 DEF Lost
<1>15. todo' \in [Units -> Seq(StepRec)]
  <2>1. q \in Seq(StepRec)
    BY <1>7 DEF Remains
  <2>. QED  BY <1>4, <1>8, <2>1
<1>. QED  BY <1>2, <1>5, <1>6, <1>9, <1>10, <1>12, <1>13, <1>14, <1>15

-----------------------------------------------------------------------------
(* The parts of the invariant that a step does not disturb.                *)

\* A step that makes nothing leaves the ids right.
LEMMA IdsStep ==
    ASSUME NEW p, NEW ids, NEW left, IdsOK(p, ids, left),
           NEW next, NEW u, NEW i, NEW do, NEW l, Stepped(p, left, next, u, i, do, l)
    PROVE  IdsOK(p, ids, next)
<1>1. \A c \in DOMAIN p : ids[c] # NoTeam =>
          ids[c] \in Ids(p, c) /\ Live(p, ids, c) /\ left[Maker(p, c)][c] < MakeLeft(p, c)
  BY DEF IdsOK
<1>2. ASSUME NEW c \in DOMAIN p, ids[c] # NoTeam PROVE next[Maker(p, c)][c] < MakeLeft(p, c)
  <2>1. p[c].kind \in {"create", "lockinit"}
    BY <1>1, <1>2 DEF Ids
  <2>. QED  BY <1>1, <1>2, <2>1 DEF Stepped
<1>. QED  BY <1>1, <1>2 DEF IdsOK

\* The teams whose creation has come to its first step of making.
Counted(p, left) == {c \in DOMAIN p : p[c].kind = "create" /\ left[Maker(p, c)][c] < MakeLeft(p, c)}

\* A program has finitely many operations of any sort.
LEMMA CountedFinite ==
    ASSUME NEW p, WellFormed(p), NEW left, NEW S, S \subseteq DOMAIN p
    PROVE  IsFiniteSet(S) /\ Cardinality(S) \in Nat /\ Cardinality(S) <= Len(p)
<1>1. DOMAIN p = 1 .. Len(p) /\ Len(p) \in Nat
  BY ProgramDomain
<1>2. IsFiniteSet(1 .. Len(p)) /\ Cardinality(1 .. Len(p)) = Len(p)
  <2>1. 1 \in Int /\ Len(p) \in Int
    BY <1>1
  <2>2. Cardinality(1 .. Len(p)) = IF 1 > Len(p) THEN 0 ELSE Len(p) - 1 + 1
    BY <2>1, FS_Interval
  <2>3. IsFiniteSet(1 .. Len(p))
    BY <2>1, FS_Interval
  <2>. QED  BY <1>1, <2>2, <2>3
<1>3. S \in SUBSET (1 .. Len(p))
  BY <1>1
<1>. QED  BY <1>2, <1>3, FS_Subset, FS_CardinalityType

\* A step that makes no team leaves nextid right.
LEMMA CountStep ==
    ASSUME NEW p, WellFormed(p), NEW ids, NEW left, CountOK(p, ids, left),
           NEW next, NEW u, NEW i, NEW do, NEW l, Stepped(p, left, next, u, i, do, l),
           area'.nextid = area.nextid,
           do \in {"newteam", "takelock"} => ~ Few(p) \/ p[i].kind = "lockinit"
    PROVE  CountOK(p, ids, next)'
<1>. DEFINE S == Counted(p, left)
            R == Counted(p, next)
<1>1. S \subseteq R /\ R \subseteq DOMAIN p
  BY DEF Stepped, Counted
<1>. HIDE DEF S, R
<1>2. IsFiniteSet(R) /\ Cardinality(R) \in Nat
  BY <1>1, CountedFinite
<1>3. Cardinality(S) <= Cardinality(R) /\ Cardinality(S) \in Nat
  BY <1>1, <1>2, FS_Subset, FS_CardinalityType
<1>4. /\ area.nextid \in 1 .. Len(p) + 1 /\ area.nextid <= 1 + Cardinality(S)
      /\ \A c \in DOMAIN p : p[c].kind = "create" /\ ids[c] # NoTeam => ids[c] < area.nextid
  BY DEF CountOK, S, Counted
<1>5. Len(p) \in Nat
  BY ProgramDomain
<1>6. area'.nextid \in 1 .. Len(p) + 1 /\ area'.nextid <= 1 + Cardinality(R)
  BY <1>2, <1>3, <1>4, <1>5
<1>7. \A c \in DOMAIN p :
          p[c].kind = "create" /\ next[Maker(p, c)][c] < MakeLeft(p, c) /\ ids[c] = NoTeam => ~ Few(p)
  <2>1. SUFFICES ASSUME NEW c \in DOMAIN p, p[c].kind = "create", next[Maker(p, c)][c] < MakeLeft(p, c),
                        ids[c] = NoTeam
                 PROVE  ~ Few(p)
    OBVIOUS
  <2>2. left[Maker(p, c)][c] < MakeLeft(p, c) \/ (do \in {"newteam", "takelock"} /\ i = c)
    BY <2>1, Zenon DEF Stepped
  <2>3. left[Maker(p, c)][c] < MakeLeft(p, c) => ~ Few(p)
    BY <2>1 DEF CountOK
  <2>. QED  BY <2>1, <2>2, <2>3
<1>. QED  BY <1>4, <1>6, <1>7 DEF CountOK, R, Counted

\* A step that hands out nothing leaves the handles right.
LEMMA HandlesStep ==
    ASSUME NEW p, NEW ids, NEW left, IdsOK(p, ids, left), \A w \in Units : HandlesOK(p, ids, left, w),
           NEW next, NEW u, NEW i, NEW do, NEW l, Stepped(p, left, next, u, i, do, l),
           handle' = handle, do \in {"init", "setlock"} => ids[i] = NoTeam
    PROVE  \A w \in Units : HandlesOK(p, ids, next, w)'
<1>. SUFFICES ASSUME NEW w \in Units, NEW c \in DOMAIN p
              PROVE  handle'[w][c] = IF w \in For(p, c) /\ next[w][c] < SetLeft(p, c) THEN ids[c] ELSE NoTeam
  BY DEF HandlesOK
<1>1. handle[w][c] = IF w \in For(p, c) /\ left[w][c] < SetLeft(p, c) THEN ids[c] ELSE NoTeam
  BY DEF HandlesOK
<1>2. CASE ids[c] = NoTeam
  BY <1>1, <1>2
<1>3. CASE ids[c] # NoTeam
  <2>1. p[c].kind \in {"create", "lockinit"}
    BY <1>3 DEF IdsOK, Ids
  <2>2. w \in For(p, c) => (next[w][c] < SetLeft(p, c) <=>
               (left[w][c] < SetLeft(p, c) \/ (do \in {"init", "setlock"} /\ i = c /\ w = u)))
    BY <2>1 DEF Stepped
  <2>. QED  BY <1>1, <1>3, <2>2
<1>. QED  BY <1>2, <1>3

\* A step of u leaves the message buffer of another unit right.
LEMMA BufOther ==
    ASSUME NEW p, NEW ids, NEW left, NEW w \in Units, BufOK(p, ids, left, w),
           NEW next, NEW u, NEW i, NEW do, NEW l, Stepped(p, left, next, u, i, do, l),
           w # u, buf'[w] = buf[w], pos' = pos, todo'[w] # <<>> => todo[w] # <<>>
    PROVE  BufOK(p, ids, next, w)'
<1>1. \A c \in DOMAIN p : next[w][c] = left[w][c]
  BY DEF Stepped
<1>. QED  BY <1>1 DEF BufOK, Started, Informed

\* A step that writes no message buffer leaves them right.
LEMMA BufStep ==
    ASSUME NEW p, NEW ids, NEW left, \A w \in Units : BufOK(p, ids, left, w),
           NEW next, NEW u, NEW i, NEW do, NEW l, Stepped(p, left, next, u, i, do, l),
           \A w \in Units : todo'[w] # <<>> => todo[w] # <<>>,
           buf' = buf, pos' = pos, do \notin {"newteam", "takelock", "recv"}
    PROVE  \A w \in Units : BufOK(p, ids, next, w)'
<1>. SUFFICES ASSUME NEW w \in Units PROVE BufOK(p, ids, next, w)'
  OBVIOUS
<1>1. BufOK(p, ids, left, w)
  OBVIOUS
<1>2. \A c \in DOMAIN p : p[c].kind \in {"create", "lockinit"} /\ w \in For(p, c) =>
          (Informed(p, next, w, c) => Informed(p, left, w, c))
  <2>. SUFFICES ASSUME NEW c \in DOMAIN p, p[c].kind \in {"create", "lockinit"}, w \in For(p, c),
                       Informed(p, next, w, c)
                PROVE  Informed(p, left, w, c)
    OBVIOUS
  <2>1. CASE w = Maker(p, c)
    <3>1. next[Maker(p, c)][c] < MakeLeft(p, c) <=>
             (left[Maker(p, c)][c] < MakeLeft(p, c) \/ (do \in {"newteam", "takelock"} /\ i = c))
      BY DEF Stepped
    <3>. QED  BY <2>1, <3>1 DEF Informed
  <2>2. CASE w # Maker(p, c)
    <3>1. next[w][c] < 3 <=> (left[w][c] < 3 \/ (do = "recv" /\ i = c /\ w = u))
      BY <2>2 DEF Stepped
    <3>. QED  BY <2>2, <3>1 DEF Informed
  <2>. QED  BY <2>1, <2>2
<1>. QED  BY <1>1, <1>2 DEF BufOK, Started

\* A step that takes and clears no slot leaves the area right.
LEMMA AreaStep ==
    ASSUME NEW p, NEW ids, NEW left, AreaOK(p, ids, left),
           NEW next, NEW u, NEW i, NEW do, NEW l, Stepped(p, left, next, u, i, do, l),
           \A s \in TeamSlots : /\ area'.teams[s].inuse = area.teams[s].inuse
                                /\ area'.teams[s].id = area.teams[s].id
                                /\ area'.teams[s].barr.procs = area.teams[s].barr.procs
                                /\ ~ area.teams[s].inuse => area'.teams[s].barr.asleep = {},
           area'.nextid = area.nextid
    PROVE  AreaOK(p, ids, next)'
<1>1. 0 \in TeamSlots
  BY SizesAssumption DEF TeamSlots
<1>2. \A c \in DOMAIN p : p[c].kind = "create" /\ ids[c] # NoTeam /\ ~ Deleted(p, next, c) => ~ Deleted(p, left, c)
  BY DEF Stepped
<1>3. /\ area'.teams[0].inuse /\ area'.teams[0].id = TeamAll
      /\ area'.teams[0].barr.procs = Cardinality(Units)
  BY <1>1 DEF AreaOK
<1>4. /\ \A s \in TeamSlots \ {0} : area'.teams[s].inuse => area'.teams[s].id \in 1 .. area'.nextid - 1
      /\ \A s \in TeamSlots : ~area'.teams[s].inuse => area'.teams[s].barr.asleep = {}
  BY DEF AreaOK
<1>5. \A s, r \in TeamSlots :
          (area'.teams[s].inuse /\ area'.teams[r].inuse /\ area'.teams[s].id = area'.teams[r].id) => s = r
  BY DEF AreaOK
<1>6. \A c \in DOMAIN p : p[c].kind = "create" /\ ids[c] # NoTeam /\ ~Deleted(p, next, c) =>
          \E s \in TeamSlots : /\ area'.teams[s].inuse /\ area'.teams[s].id = ids[c]
                               /\ area'.teams[s].barr.procs = Cardinality(For(p, c))
  <2>. SUFFICES ASSUME NEW c \in DOMAIN p, p[c].kind = "create", ids[c] # NoTeam, ~Deleted(p, next, c)
                PROVE  \E s \in TeamSlots : /\ area'.teams[s].inuse /\ area'.teams[s].id = ids[c]
                                            /\ area'.teams[s].barr.procs = Cardinality(For(p, c))
    OBVIOUS
  <2>1. PICK s \in TeamSlots : /\ area.teams[s].inuse /\ area.teams[s].id = ids[c]
                               /\ area.teams[s].barr.procs = Cardinality(For(p, c))
    BY <1>2 DEF AreaOK
  <2>. QED  BY <2>1
<1>. QED  BY <1>3, <1>4, <1>5, <1>6 DEF AreaOK

\* A step that writes no table leaves them right.
LEMMA TableStep ==
    ASSUME NEW p, NEW ids, NEW left, \A w \in Units : TableOK(p, ids, left, w),
           NEW next, NEW u, NEW i, NEW do, NEW l, Stepped(p, left, next, u, i, do, l),
           \A s \in TeamSlots : /\ area'.teams[s].inuse => area.teams[s].inuse
                                /\ area'.teams[s].id = area.teams[s].id,
           \A w \in Units : ~ Lost(w)' => ~ Lost(w) /\ teams'[w] = teams[w],
           do = "init" => ids[i] = NoTeam
    PROVE  \A w \in Units : TableOK(p, ids, next, w)'
<1>. SUFFICES ASSUME NEW w \in Units, ~ Lost(w)' PROVE TableOK(p, ids, next, w)'
  BY DEF TableOK
<1>1. /\ teams[w][0] = [id |-> TeamAll, valid |-> TRUE, myid |-> w, group |-> WorldGroup]
      /\ \A s \in TeamSlots : teams[w][s].valid => teams[w][s].id # NoTeam
      /\ teams'[w] = teams[w]
  BY DEF TableOK
<1>2. ASSUME NEW c \in DOMAIN p, NEW s \in TeamSlots,
             p[c].kind = "create", ids[c] # NoTeam, ~Deleted(p, next, c), w \in For(p, c), next[w][c] < 2,
             area'.teams[s].inuse, area'.teams[s].id = ids[c]
      PROVE  teams[w][s] = [id |-> ids[c], valid |-> TRUE, myid |-> Rank(For(p, c), w), group |-> p[c].group]
  <2>1. ~Deleted(p, left, c) /\ left[w][c] < 2
    BY <1>2 DEF Stepped
  <2>2. TableOK(p, ids, left, w) /\ ~ Lost(w)
    OBVIOUS
  <2>. QED  BY <1>2, <2>1, <2>2 DEF TableOK
<1>. QED  BY <1>1, <1>2 DEF TableOK

\* The members of a team are units.
LEMMA TeamMembersUnits ==
    ASSUME NEW p, NEW c, NEW u \in TeamMembers(p, c)
    PROVE  u \in Units
  BY DEF TeamMembers, MembersOf

\* The FIFOs of Team::All are never unlinked.
LEMMA WorldStays ==
    ASSUME NEW p, WellFormed(p), NEW left, NEW w
    PROVE  ~ Unlinked(p, left, 0, w)
  BY ProgramKinds DEF Unlinked

\* A step that makes and unlinks no FIFO leaves them right.
LEMMA PipesStep ==
    ASSUME NEW p, WellFormed(p), NEW ids, NEW left, PipesOK(p, ids, left),
           NEW next, NEW u, NEW i, NEW do, NEW l, Stepped(p, left, next, u, i, do, l),
           DOMAIN pipes' = DOMAIN pipes, (0 .. area.nextid - 1) \subseteq (0 .. area'.nextid - 1),
           do # "unlink", do = "init" => ids[i] = NoTeam
    PROVE  PipesOK(p, ids, next)'
<1>1. /\ DOMAIN pipes \in SUBSET ((0 .. area.nextid - 1) \X Int \X Int)
      /\ \A c \in Teams(p, ids) : \A v, w \in TeamMembers(p, c) :
             (Pipe(p, ids, c, v, w) \in DOMAIN pipes) <=> There(p, left, c, w)
  BY DEF PipesOK
<1>2. ASSUME NEW c \in Teams(p, ids), NEW w \in TeamMembers(p, c)
      PROVE  There(p, next, c, w) <=> There(p, left, c, w)
  <2>1. w \in Units
    BY <1>2, TeamMembersUnits
  <2>2. CASE c = 0
    <3>1. ~ Unlinked(p, left, 0, w) /\ ~ Unlinked(p, next, 0, w)
      BY WorldStays
    <3>. QED  BY <2>2, <3>1 DEF There
  <2>3. CASE c # 0
    <3>1. c \in DOMAIN p /\ p[c].kind = "create" /\ ids[c] # NoTeam
      BY <1>2, <2>3 DEF Teams
    <3>2. w \in For(p, c)
      BY <1>2, <2>3, <3>1 DEF TeamMembers, For
    <3>3. next[w][c] < 2 <=> left[w][c] < 2
      BY <2>1, <3>1, <3>2 DEF Stepped
    <3>4. Unlinked(p, next, c, w) <=> Unlinked(p, left, c, w)
      BY <1>2, <2>1, <3>1 DEF Stepped
    <3>. QED  BY <3>3, <3>4 DEF There
  <2>. QED  BY <2>2, <2>3
<1>. QED  BY <1>1, <1>2 DEF PipesOK

\* The queues, when nobody sends or receives.
LEMMA QueueSame ==
    ASSUME NEW p, NEW ids, NEW left, NEW c, NEW v \in TeamMembers(p, c), NEW w \in TeamMembers(p, c), NEW q,
           QueueOK(p, ids, left, c, v, w, q), NEW next,
           \A j \in DOMAIN p : p[j].on = c =>
               /\ Sent(p, next, v, j, w) <=> Sent(p, left, v, j, w)
               /\ Got(p, next, w, j, v) <=> Got(p, left, w, j, v)
    PROVE  QueueOK(p, ids, next, c, v, w, q)
<1>. QED  BY DEF QueueOK

\* A step that neither sends nor receives leaves the contents of the FIFOs right.
LEMMA QueuesStep ==
    ASSUME NEW p, NEW ids, NEW left, QueuesOK(p, ids, left),
           NEW next, NEW u, NEW i, NEW do, NEW l, Stepped(p, left, next, u, i, do, l),
           \A name \in DOMAIN pipes' : name \in DOMAIN pipes /\ pipes'[name].queue = pipes[name].queue,
           \A w : ~ SendsTo(p, u, i, l, w) /\ ~ ReceivesFrom(p, u, i, l, w)
    PROVE  QueuesOK(p, ids, next)'
<1>1. ASSUME NEW c \in Teams(p, ids), NEW v \in TeamMembers(p, c), NEW w \in TeamMembers(p, c),
             Pipe(p, ids, c, v, w) \in DOMAIN pipes'
      PROVE  QueueOK(p, ids, next, c, v, w, pipes'[Pipe(p, ids, c, v, w)].queue)
  <2>1. QueueOK(p, ids, left, c, v, w, pipes[Pipe(p, ids, c, v, w)].queue)
    BY <1>1 DEF QueuesOK
  <2>2. \A j \in DOMAIN p : p[j].on = c =>
            /\ Sent(p, next, v, j, w) <=> Sent(p, left, v, j, w)
            /\ Got(p, next, w, j, v) <=> Got(p, left, w, j, v)
    <3>1. \A j \in DOMAIN p : p[j].on = c => v \in Mem(p, j) /\ w \in Mem(p, j)
      BY DEF Mem
    <3>. QED  BY <3>1 DEF Stepped
  <2>3. pipes'[Pipe(p, ids, c, v, w)].queue = pipes[Pipe(p, ids, c, v, w)].queue
    BY <1>1
  <2>4. QueueOK(p, ids, next, c, v, w, pipes[Pipe(p, ids, c, v, w)].queue)
    BY <2>1, <2>2, QueueSame
  <2>. QED  BY <2>3, <2>4
<1>. QED  BY <1>1 DEF QueuesOK

\* A step that does not receive: what was received had been sent.
LEMMA ReceivedStep ==
    ASSUME NEW p, NEW left, ReceivedOK(p, left),
           NEW next, NEW u, NEW i, NEW do, NEW l, Stepped(p, left, next, u, i, do, l),
           \A w : ~ ReceivesFrom(p, u, i, l, w)
    PROVE  ReceivedOK(p, next)
<1>. SUFFICES ASSUME NEW j \in DOMAIN p, NEW v \in Mem(p, j), NEW w \in Mem(p, j), Got(p, next, w, j, v)
              PROVE  Sent(p, next, v, j, w)
  BY DEF ReceivedOK
<1>1. Got(p, left, w, j, v)
  BY DEF Stepped
<1>2. Sent(p, left, v, j, w)
  BY <1>1 DEF ReceivedOK
<1>. QED  BY <1>2 DEF Stepped

\* A step that takes and frees no lock leaves the locks right.
LEMMA LocksStep ==
    ASSUME NEW p, NEW ids, NEW left, LocksOK(p, ids, left),
           NEW next, NEW u, NEW i, NEW do, NEW l, Stepped(p, left, next, u, i, do, l),
           area'.locks = area.locks
    PROVE  LocksOK(p, ids, next)'
<1>1. \A c \in DOMAIN p : p[c].kind = "lockinit" /\ ~ Dropped(p, next, c) => ~ Dropped(p, left, c)
  BY DEF Stepped
<1>. QED  BY <1>1 DEF LocksOK

-----------------------------------------------------------------------------
(* The parts, when no unit takes a step of a call.                         *)

\* The handles do not depend on the rest of the state.
LEMMA HandlesSame ==
    ASSUME NEW p, NEW ids, NEW left, \A w \in Units : HandlesOK(p, ids, left, w), handle' = handle
    PROVE  \A w \in Units : HandlesOK(p, ids, left, w)'
  BY DEF HandlesOK

\* The area does not depend on the rest of the state.
LEMMA AreaSame ==
    ASSUME NEW p, NEW ids, NEW left, AreaOK(p, ids, left), area' = area
    PROVE  AreaOK(p, ids, left)'
  BY DEF AreaOK

\* The tables depend on the area and on who is lost.
LEMMA TableSame ==
    ASSUME NEW p, NEW ids, NEW left, \A w \in Units : TableOK(p, ids, left, w), area' = area, teams' = teams,
           \A w \in Units : ~ Lost(w)' => ~ Lost(w)
    PROVE  \A w \in Units : TableOK(p, ids, left, w)'
  BY DEF TableOK

\* The FIFOs depend on nextid only.
LEMMA PipesSame ==
    ASSUME NEW p, NEW ids, NEW left, PipesOK(p, ids, left), QueuesOK(p, ids, left), area' = area,
           DOMAIN pipes' = DOMAIN pipes,
           \A name \in DOMAIN pipes' : pipes'[name].queue = pipes[name].queue
    PROVE  PipesOK(p, ids, left)' /\ QueuesOK(p, ids, left)'
<1>1. PipesOK(p, ids, left)'
  BY DEF PipesOK
<1>2. QueuesOK(p, ids, left)'
  <2>1. ASSUME NEW c \in Teams(p, ids), NEW v \in TeamMembers(p, c), NEW w \in TeamMembers(p, c),
               Pipe(p, ids, c, v, w) \in DOMAIN pipes'
        PROVE  QueueOK(p, ids, left, c, v, w, pipes'[Pipe(p, ids, c, v, w)].queue)
    BY <2>1 DEF QueuesOK
  <2>. QED  BY <2>1 DEF QueuesOK
<1>. QED  BY <1>1, <1>2

\* The count of the teams and the locks depend on the area only.
LEMMA CountSame ==
    ASSUME NEW p, NEW ids, NEW left, CountOK(p, ids, left), LocksOK(p, ids, left), area' = area
    PROVE  CountOK(p, ids, left)' /\ LocksOK(p, ids, left)'
  BY DEF CountOK, LocksOK

-----------------------------------------------------------------------------
(* The steps outside calls.                                                *)

\* A unit is a number.
LEMMA UnitsAreInts == \A u \in Units : u \in Int
  BY UnitsFinite

\* The mutexes, and whether a FIFO is open, do not matter.
LEMMA QuietStep ==
    ASSUME NEW p, NEW ids, NEW left, NEW over, Coupled(p, ids, left, over), TypesOK(p)',
           UNCHANGED <<prog, area, teams, handle, pos, todo, inside, buf>>,
           DOMAIN pipes' = DOMAIN pipes,
           \A name \in DOMAIN pipes' : pipes'[name].queue = pipes[name].queue
    PROVE  Coupled(p, ids, left, over)'
<1>1. \A u \in Units : PlaceOK(p, ids, left, u)'
  BY DEF Coupled, PlaceOK, Started
<1>2. \A u \in Units : InsideOK(u)'
  <2>1. \A u \in Units : (Waiting(u)' <=> Waiting(u)) /\ (Entering(u)' <=> Entering(u)) /\ T(u)' = T(u)
    BY DEF Waiting, Entering, T, TeamOf
  <2>. QED  BY <2>1, InsideFrame DEF Coupled
<1>3. \A u \in Units : OverOK(p, ids, left, over, u)'
  BY DEF Coupled, OverOK, Woken
<1>4. \A u \in Units : HandlesOK(p, ids, left, u)'
  BY HandlesSame DEF Coupled
<1>5. \A u \in Units : BufOK(p, ids, left, u)'
  BY DEF Coupled, BufOK, Started
<1>6. AreaOK(p, ids, left)'
  BY AreaSame DEF Coupled
<1>7. \A u \in Units : TableOK(p, ids, left, u)'
  <2>1. \A u \in Units : ~ Lost(u)' => ~ Lost(u)
    BY DEF Lost
  <2>. QED  BY <2>1, TableSame DEF Coupled
<1>8. PipesOK(p, ids, left)' /\ QueuesOK(p, ids, left)'
  BY PipesSame DEF Coupled
<1>9. CountOK(p, ids, left)' /\ LocksOK(p, ids, left)'
  BY CountSame DEF Coupled
<1>10. p \in Programs /\ GhostsOK(p, ids, left, over) /\ IdsOK(p, ids, left) /\ ReceivedOK(p, left)
  BY DEF Coupled
<1>. QED  BY <1>1, <1>2, <1>3, <1>4, <1>5, <1>6, <1>7, <1>8, <1>9, <1>10 DEF Coupled

\* The helper thread opens a FIFO to read (dart_shmem_p2p_init).
LEMMA OpenStep ==
    ASSUME NEW p, NEW ids, NEW left, NEW over, Coupled(p, ids, left, over), NEW u \in Units, OpenToRead(u)
    PROVE  Coupled(p, ids, left, over)'
<1>. DEFINE name == PipeFrom(u, Head(todo[u]).peer)
<1>1. /\ name \in DOMAIN pipes /\ pipes' = [pipes EXCEPT ![name].opened = TRUE]
      /\ UNCHANGED <<prog, area, holder, teams, handle, pos, todo, inside, buf>>
  BY DEF OpenToRead
<1>2. TypesOK(p)
  BY ProgIs
<1>. HIDE DEF name
<1>3. pipes \in [DOMAIN pipes -> [opened : BOOLEAN, queue : Seq(Message)]]
  BY <1>2 DEF TypesOK
<1>4. DOMAIN pipes' = DOMAIN pipes /\ \A x \in DOMAIN pipes' : pipes'[x].queue = pipes[x].queue
  BY <1>1, <1>3
<1>5. pipes' \in [DOMAIN pipes' -> [opened : BOOLEAN, queue : Seq(Message)]]
  BY <1>1, <1>3
<1>6. TypesOK(p)'
  BY <1>1, <1>2, <1>5 DEF TypesOK
<1>. QED  BY <1>1, <1>4, <1>6, QuietStep

\* The calls on locks change who waits for a lock and who holds it, nothing else.
LEMMA HolderStep ==
    ASSUME NEW p, NEW ids, NEW left, NEW over, Coupled(p, ids, left, over), NEW u \in Units,
           AcquireLock(u) \/ GetLock(u) \/ TryAcquireLock(u) \/ ReleaseLock(u)
    PROVE  Coupled(p, ids, left, over)'
<1>1. /\ UNCHANGED <<prog, area, pipes, teams, handle, pos, todo, inside, buf>>
      /\ holder' = holder \/ \E l, x : holder' = [holder EXCEPT ![l] = x] /\ x \in Int
  <2>1. CASE AcquireLock(u)
    BY <2>1 DEF AcquireLock
  <2>2. CASE GetLock(u)
    <3>1. holder' = [holder EXCEPT ![wants[u]] = u]
      BY <2>2 DEF GetLock
    <3>2. u \in Int
      BY UnitsAreInts
    <3>. QED  BY <2>2, <3>1, <3>2 DEF GetLock
  <2>3. CASE TryAcquireLock(u)
    <3>1. \E l : holder' = [holder EXCEPT ![l] = u]
      BY <2>3 DEF TryAcquireLock
    <3>2. u \in Int
      BY UnitsAreInts
    <3>. QED  BY <2>3, <3>1, <3>2 DEF TryAcquireLock
  <2>4. CASE ReleaseLock(u)
    <3>1. PICK l \in LockSlots : holder' = [holder EXCEPT ![l] = -1]
      BY <2>4 DEF ReleaseLock, Nobody
    <3>2. -1 \in Int
      OBVIOUS
    <3>3. UNCHANGED <<prog, area, pipes, teams, handle, pos, todo, inside, buf>>
      BY <2>4 DEF ReleaseLock
    <3>. QED  BY <3>1, <3>2, <3>3
  <2>. QED  BY <2>1, <2>2, <2>3, <2>4
<1>2. TypesOK(p)
  BY ProgIs
<1>3. holder' \in [LockSlots -> Int]
  BY <1>1, <1>2 DEF TypesOK
<1>4. TypesOK(p)'
  BY <1>1, <1>2, <1>3 DEF TypesOK
<1>. QED  BY <1>1, <1>4, QuietStep

\* A unit returns from a call.
LEMMA NextOpIs ==
    ASSUME NEW p, WellFormed(p), NEW u, NEW i \in 1 .. Len(p) + 1
    PROVE  LET n == NextOp(p, u, i)
           IN  /\ n \in i .. Len(p) + 1 /\ (n \in DOMAIN p => u \in Mem(p, n))
               /\ \A j \in DOMAIN p : i <= j /\ j < n => u \notin Mem(p, j)
<1>. DEFINE S == {j \in i .. Len(p) : u \in TeamMembers(p, p[j].on)} \union {Len(p) + 1}
            n == Min(S)
<1>1. DOMAIN p = 1 .. Len(p) /\ Len(p) \in Nat
  BY ProgramDomain
<1>2. S \in SUBSET Int /\ IsFiniteSet(S) /\ S # {}
  <2>1. S \subseteq 1 .. Len(p) + 1
    BY <1>1
  <2>2. IsFiniteSet(1 .. Len(p) + 1)
    BY <1>1, FS_Interval
  <2>3. IsFiniteSet(S)
    BY <2>1, <2>2, FS_Subset
  <2>. QED  BY <2>1, <2>3
<1>3. n \in S /\ \A j \in S : n <= j
  <2>. HIDE DEF S
  <2>. QED  BY <1>2, RankOfMin
<1>4. n \in i .. Len(p) + 1 /\ (n \in DOMAIN p => u \in Mem(p, n))
  <2>. HIDE DEF n
  <2>. QED  BY <1>1, <1>3 DEF Mem
<1>5. \A j \in DOMAIN p : i <= j /\ j < n => u \notin Mem(p, j)
  <2>1. \A j \in DOMAIN p : i <= j /\ u \in Mem(p, j) => j \in S
    BY <1>1 DEF Mem
  <2>2. n \in Int
    BY <1>1, <1>4
  <2>. HIDE DEF S, n
  <2>. QED  BY <1>1, <1>3, <2>1, <2>2
<1>. QED  BY <1>4, <1>5 DEF NextOp

\* A call that has no step left returns.
LEMMA ReturnStep ==
    ASSUME NEW p, NEW ids, NEW left, NEW over, Coupled(p, ids, left, over), NEW u \in Units, Return(u)
    PROVE  Coupled(p, ids, left, over)'
<1>1. /\ WellFormed(p) /\ DOMAIN p = 1 .. Len(p) /\ Len(p) \in Nat /\ TypesOK(p) /\ prog = p
      /\ GhostsOK(p, ids, left, over)
  BY ProgIs
<1>. DEFINE i == pos[u]
            n == NextOp(p, u, i + 1)
<1>2. /\ Idle(u) /\ Started(u) /\ pos' = [pos EXCEPT ![u] = n]
      /\ UNCHANGED <<prog, area, holder, pipes, teams, handle, todo, inside, buf>>
  BY <1>1 DEF Return
<1>3. PlaceOK(p, ids, left, u) /\ InsideOK(u) /\ todo[u] = <<>> /\ inside[u] = NoSlot
  BY <1>2 DEF Coupled, Idle
<1>4. i \in DOMAIN p /\ i \in Nat /\ u \in Mem(p, i) /\ buf[u].op = i
  BY <1>1, <1>2, <1>3 DEF PlaceOK, Started
<1>5. /\ n \in i + 1 .. Len(p) + 1 /\ (n \in DOMAIN p => u \in Mem(p, n))
      /\ \A j \in DOMAIN p : i < j /\ j < n => u \notin Mem(p, j)
  <2>. DEFINE k == i + 1
  <2>1. k \in 1 .. Len(p) + 1
    BY <1>1, <1>4
  <2>4. n = NextOp(p, u, k)
    OBVIOUS
  <2>. HIDE DEF k, n
  <2>2. /\ n \in i + 1 .. Len(p) + 1 /\ (n \in DOMAIN p => u \in Mem(p, n))
        /\ \A j \in DOMAIN p : i + 1 <= j /\ j < n => u \notin Mem(p, j)
    <3>1. /\ n \in k .. Len(p) + 1 /\ (n \in DOMAIN p => u \in Mem(p, n))
          /\ \A j \in DOMAIN p : k <= j /\ j < n => u \notin Mem(p, j)
      BY <1>1, <2>1, <2>4, NextOpIs
    <3>. QED  BY <3>1 DEF k
  <2>3. \A j \in DOMAIN p : i < j => i + 1 <= j
    BY <1>1, <1>4
  <2>. QED  BY <2>2, <2>3
<1>. HIDE DEF n
<1>6. /\ pos' \in [Units -> 1 .. Len(p) + 1] /\ pos'[u] = n /\ \A w \in Units : w # u => pos'[w] = pos[w]
      /\ n \in Nat /\ n > i
  BY <1>1, <1>2, <1>4, <1>5 DEF TypesOK
<1>7. TypesOK(p)'
  BY <1>1, <1>2, <1>6 DEF TypesOK
<1>8. \A w \in Units : PlaceOK(p, ids, left, w)'
  <2>1. ASSUME NEW w \in Units, w # u PROVE PlaceOK(p, ids, left, w)'
    <3>1. PlaceOK(p, ids, left, w)
      BY DEF Coupled
    <3>2. pos'[w] = pos[w]
      BY <1>6, <2>1
    <3>. QED  BY <1>2, <3>1, <3>2 DEF PlaceOK, Started
  <2>2. PlaceOK(p, ids, left, u)'
    <3>1. ~ Started(u)' /\ buf'[u].op <= pos'[u] /\ todo'[u] = <<>>
      BY <1>2, <1>3, <1>4, <1>6 DEF Started
    <3>2. ASSUME NEW j \in DOMAIN p, u \in Mem(p, j)
          PROVE  left[u][j] = IF ~ Live(p, ids, j) \/ j > n \/ j = n THEN Size(p, u, j)
                              ELSE IF j < n THEN 0 ELSE Len(todo[u])
      <4>1. left[u][j] = IF ~Live(p, ids, j) \/ j > i \/ (j = i /\ ~Started(u)) THEN Size(p, u, j)
                         ELSE IF j < i THEN 0 ELSE Len(todo[u])
        BY <1>3, <3>2 DEF PlaceOK
      <4>2. j \in Nat /\ Len(todo[u]) = 0
        BY <1>1, <1>3
      <4>3. ~ (i < j /\ j < n)
        BY <1>5, <3>2
      <4>. HIDE DEF i
      <4>. QED  BY <1>2, <1>4, <1>6, <4>1, <4>2, <4>3
    <3>. QED  BY <1>2, <1>5, <1>6, <3>1, <3>2 DEF PlaceOK
  <2>. QED  BY <2>1, <2>2
<1>9. \A w \in Units : InsideOK(w)'
  <2>1. \A w \in Units : (Waiting(w)' <=> Waiting(w)) /\ (Entering(w)' <=> Entering(w))
    BY <1>2 DEF Waiting, Entering
  <2>2. \A w \in Units : w # u => T(w)' = T(w)
    BY <1>2, <1>6 DEF T, TeamOf
  <2>3. \A s \in TeamSlots : inside[u] # s
    BY <1>3, SizesAssumption DEF TeamSlots, NoSlot
  <2>4. \A w \in Units : \A s \in TeamSlots :
               (inside[w] = s /\ w \notin area.teams[s].barr.woken) =>
                   /\ area'.teams[s].inuse = area.teams[s].inuse
                   /\ area'.teams[s].id = area.teams[s].id /\ T(w)' = T(w)
    BY <1>2, <2>2, <2>3
  <2>5. \A w \in Units : InsideOK(w)
    BY DEF Coupled
  <2>. QED  BY <1>2, <2>1, <2>4, <2>5, InsideFrame
<1>10. \A w \in Units : OverOK(p, ids, left, over, w)'
  <2>. SUFFICES ASSUME NEW w \in Units PROVE OverOK(p, ids, left, over, w)'
    OBVIOUS
  <2>1. OverOK(p, ids, left, over, w) /\ (Woken(w)' <=> Woken(w)) /\ ~ Woken(u)
    BY <1>2, <1>3 DEF Coupled, Woken
  <2>2. w # u => pos'[w] = pos[w]
    BY <1>6
  <2>. QED  BY <2>1, <2>2 DEF OverOK
<1>11. \A w \in Units : BufOK(p, ids, left, w)'
  <2>. SUFFICES ASSUME NEW w \in Units PROVE BufOK(p, ids, left, w)'
    OBVIOUS
  <2>1. CASE w = u
    BY <1>2, <1>3, <2>1 DEF BufOK
  <2>2. CASE w # u
    <3>1. BufOK(p, ids, left, w) /\ pos'[w] = pos[w]
      BY <1>6, <2>2 DEF Coupled
    <3>. QED  BY <1>2, <3>1 DEF BufOK, Started
  <2>. QED  BY <2>1, <2>2
<1>12. \A w \in Units : ~ Lost(w)' => ~ Lost(w)
  BY <1>2 DEF Lost
<1>13. \A w \in Units : HandlesOK(p, ids, left, w)'
  BY <1>2, HandlesSame DEF Coupled
<1>14. AreaOK(p, ids, left)' /\ CountOK(p, ids, left)' /\ LocksOK(p, ids, left)'
  BY <1>2, AreaSame, CountSame DEF Coupled
<1>15. \A w \in Units : TableOK(p, ids, left, w)'
  BY <1>2, <1>12, TableSame DEF Coupled
<1>16. PipesOK(p, ids, left)' /\ QueuesOK(p, ids, left)'
  BY <1>2, PipesSame DEF Coupled
<1>17. p \in Programs /\ IdsOK(p, ids, left) /\ ReceivedOK(p, left)
  BY DEF Coupled
<1>. QED  BY <1>1, <1>7, <1>8, <1>9, <1>10, <1>11, <1>13, <1>14, <1>15, <1>16, <1>17 DEF Coupled

\* The whole call lies ahead.
LEMMA ScriptRemains ==
    ASSUME NEW p, WellFormed(p), NEW i \in DOMAIN p, NEW u \in Mem(p, i)
    PROVE  LET s == Script(p, u, i)
           IN  /\ Remains(p, u, i, s) /\ Len(s) = Size(p, u, i) /\ Len(s) \in Nat
               /\ s # <<>> => Head(s).do \notin {"await", "wait", "lost"}
<1>. DEFINE s == Script(p, u, i)
<1>1. Len(s) = Size(p, u, i) /\ Size(p, u, i) \in Nat /\ (\A k : StepAt(p, u, i, k) = LeftOf(s, k))
  BY SizeType DEF Size, StepAt
<1>2. s \in Seq(StepRec)
  BY CallIs DEF CallOK, TalkOK, Talk
<1>3. \A k \in 1 .. Len(s) : StepAt(p, u, i, k).do \notin {"await", "wait", "lost"}
  <2>1. \A k \in 1 .. Size(p, u, i) : MakingAt(p, u, i, k)
    BY CallIs DEF CallOK, MakingOK
  <2>. HIDE DEF s
  <2>. QED  BY <1>1, <2>1 DEF MakingAt
<1>. HIDE DEF s
<1>4. Remains(p, u, i, s)
  <2>1. \A k \in 1 .. Len(s) - 1 : k \in 1 .. Len(s)
    BY <1>1
  <2>. QED  BY <1>1, <1>2, <1>3, <2>1 DEF Remains, SameStep
<1>5. ASSUME s # <<>> PROVE Head(s).do \notin {"await", "wait", "lost"}
  <2>1. Len(s) >= 1 /\ Head(s) = s[1]
    BY <1>2, <1>5
  <2>2. Len(s) \in 1 .. Len(s) /\ LeftOf(s, Len(s)) = Head(s)
    BY <1>1, <2>1 DEF LeftOf
  <2>. QED  BY <1>1, <1>3, <2>2
<1>. QED  BY <1>1, <1>4, <1>5 DEF s

\* A unit enters its next call.
LEMMA BeginStep ==
    ASSUME NEW p, NEW ids, NEW left, NEW over, Coupled(p, ids, left, over), NEW u \in Units, Begin(u)
    PROVE  Coupled(p, ids, left, over)'
<1>1. /\ WellFormed(p) /\ DOMAIN p = 1 .. Len(p) /\ Len(p) \in Nat /\ TypesOK(p) /\ prog = p
      /\ GhostsOK(p, ids, left, over)
  BY ProgIs
<1>. DEFINE i == pos[u]
            q == IF Valid(u, T(u)) THEN StepsOf(u, i) ELSE <<>>
<1>2. /\ Idle(u) /\ ~ Started(u) /\ i \in DOMAIN p
      /\ buf' = [buf EXCEPT ![u] = [NoMessage EXCEPT !.op = i]] /\ todo' = [todo EXCEPT ![u] = q]
      /\ UNCHANGED <<prog, area, holder, pipes, teams, handle, pos, inside>>
  BY <1>1 DEF Begin, Ops
<1>3. PlaceOK(p, ids, left, u) /\ InsideOK(u) /\ todo[u] = <<>> /\ inside[u] = NoSlot
  BY <1>2 DEF Coupled, Idle
<1>4. u \in Mem(p, i) /\ ~ Woken(u) /\ ~ Lost(u) /\ i \in Nat
  <2>1. ~ Lost(u)
    BY <1>3 DEF Lost, Step
  <2>. QED  BY <1>1, <1>2, <1>3, <2>1 DEF PlaceOK, Woken
<1>5. Script(p, u, i) \in Seq(StepRec) /\ Remains(p, u, i, Script(p, u, i)) /\ Len(Script(p, u, i)) = Size(p, u, i)
      /\ Size(p, u, i) \in Nat
      /\ (Script(p, u, i) # <<>> => Head(Script(p, u, i)).do \notin {"await", "wait", "lost"})
  <2>. HIDE DEF i
  <2>. QED  BY <1>1, <1>2, <1>4, ScriptRemains DEF Remains
<1>6. q = IF Live(p, ids, i) THEN Script(p, u, i) ELSE <<>>
  <2>1. CASE Live(p, ids, i)
    <3>1. Valid(u, T(u)) /\ StepsOf(u, i) = Script(p, u, i)
      BY <1>2, <1>4, <2>1, LookUp
    <3>. QED  BY <2>1, <3>1
  <2>2. CASE ~ Live(p, ids, i)
    <3>1. T(u) = NoTeam
      <4>1. T(u) = TeamId(ids, p[i].on)
        BY <1>2, <1>4, TeamOfIs DEF T
      <4>. QED  BY <2>2, <4>1 DEF Live, TeamId
    <3>2. \A s \in TeamSlots : teams[u][s].valid => teams[u][s].id # NoTeam
      BY <1>4 DEF Coupled, TableOK
    <3>. QED  BY <2>2, <3>1, <3>2 DEF Valid
  <2>. QED  BY <2>1, <2>2
<1>7. /\ q \in Seq(StepRec) /\ (Live(p, ids, i) => Remains(p, u, i, q) /\ Len(q) = Size(p, u, i))
      /\ (q # <<>> => Head(q).do \notin {"await", "wait", "lost"} /\ Live(p, ids, i)) /\ (~ Live(p, ids, i) => q = <<>>)
  <2>. HIDE DEF i, q
  <2>. QED  BY <1>5, <1>6
<1>. HIDE DEF q
<1>8. /\ todo' \in [Units -> Seq(StepRec)] /\ todo'[u] = q /\ \A w \in Units : w # u => todo'[w] = todo[w]
  BY <1>1, <1>2, <1>7 DEF TypesOK
<1>9. /\ buf' \in [Units -> Message] /\ buf'[u].op = i /\ \A w \in Units : w # u => buf'[w] = buf[w]
  <2>1. [NoMessage EXCEPT !.op = i] \in Message /\ [NoMessage EXCEPT !.op = i].op = i
    BY <1>4 DEF NoMessage, Message, NoTeam, NoSlot
  <2>. HIDE DEF i
  <2>. QED  BY <1>1, <1>2, <2>1 DEF TypesOK
<1>10. TypesOK(p)'
  BY <1>1, <1>2, <1>8, <1>9 DEF TypesOK
<1>11. \A w \in Units : PlaceOK(p, ids, left, w)'
  <2>1. ASSUME NEW w \in Units, w # u PROVE PlaceOK(p, ids, left, w)'
    <3>1. PlaceOK(p, ids, left, w)
      BY DEF Coupled
    <3>2. todo'[w] = todo[w] /\ buf'[w] = buf[w]
      BY <1>8, <1>9, <2>1
    <3>. QED  BY <1>2, <3>1, <3>2 DEF PlaceOK, Started
  <2>2. PlaceOK(p, ids, left, u)'
    <3>1. Started(u)' /\ buf'[u].op <= pos'[u] /\ pos'[u] = i
      BY <1>2, <1>4, <1>9 DEF Started
    <3>2. ASSUME NEW j \in DOMAIN p, u \in Mem(p, j)
          PROVE  left[u][j] = IF ~ Live(p, ids, j) \/ j > i THEN Size(p, u, j)
                              ELSE IF j < i THEN 0 ELSE Len(q)
      <4>1. left[u][j] = IF ~Live(p, ids, j) \/ j > i \/ (j = i /\ ~Started(u)) THEN Size(p, u, j)
                         ELSE IF j < i THEN 0 ELSE Len(todo[u])
        BY <1>3, <3>2 DEF PlaceOK
      <4>2. j \in Nat
        BY <1>1
      <4>3. j = i /\ Live(p, ids, j) => Len(q) = Size(p, u, j)
        BY <1>7
      <4>. HIDE DEF i
      <4>. QED  BY <1>2, <1>4, <4>1, <4>2, <4>3
    <3>3. q # <<>> =>
        /\ Live(p, ids, i) /\ Len(q) <= Size(p, u, i)
        /\ \A k \in 1 .. Len(q) : SameStep(LeftOf(q, k), StepAt(p, u, i, k))
        /\ \A k \in 1 .. Len(q) - 1 : LeftOf(q, k).do \notin {"await", "wait", "lost"}
      BY <1>7 DEF Remains
    <3>. QED  BY <1>2, <1>4, <1>8, <3>1, <3>2, <3>3 DEF PlaceOK
  <2>. QED  BY <2>1, <2>2
<1>12. \A w \in Units : (Waiting(w)' <=> Waiting(w)) /\ (Entering(w)' <=> Entering(w))
  <2>. SUFFICES ASSUME NEW w \in Units
                PROVE  (Waiting(w)' <=> Waiting(w)) /\ (Entering(w)' <=> Entering(w))
    OBVIOUS
  <2>1. CASE w = u
    BY <1>3, <1>7, <1>8, <2>1 DEF Waiting, Entering
  <2>2. CASE w # u
    BY <1>8, <2>2 DEF Waiting, Entering
  <2>. QED  BY <2>1, <2>2
<1>13. \A w \in Units : InsideOK(w)'
  <2>1. \A w \in Units : T(w)' = T(w)
    BY <1>2 DEF T, TeamOf
  <2>2. \A w \in Units : InsideOK(w)
    BY DEF Coupled
  <2>. QED  BY <1>2, <1>12, <2>1, <2>2, InsideFrame
<1>14. \A w \in Units : OverOK(p, ids, left, over, w)'
  BY <1>2 DEF Coupled, OverOK, Woken
<1>15. \A w \in Units : BufOK(p, ids, left, w)'
  <2>. SUFFICES ASSUME NEW w \in Units PROVE BufOK(p, ids, left, w)'
    OBVIOUS
  <2>1. CASE w = u
    <3>1. SUFFICES ASSUME p[i].kind \in {"create", "lockinit"}, u \in For(p, i), Informed(p, left, u, i), Live(p, ids, i)
                   PROVE  FALSE
      BY <1>2, <1>7, <1>8, <2>1 DEF BufOK
    <3>2. left[u][i] = Size(p, u, i) /\ Size(p, u, i) \in Nat
      BY <1>2, <1>4, LeftIs
    <3>. HIDE DEF i
    <3>3. CASE u = Maker(p, i)
      <4>1. left[u][i] < MakeLeft(p, i)
        BY <3>1, <3>3 DEF Informed
      <4>2. MakeLeft(p, i) = Size(p, u, i) - (IF p[i].kind = "create" THEN 1 ELSE 0)
        BY <3>3 DEF MakeLeft
      <4>. QED  BY <3>2, <4>1, <4>2
    <3>4. CASE u # Maker(p, i)
      <4>1. left[u][i] < 3
        BY <3>1, <3>4 DEF Informed
      <4>2. Size(p, u, i) = 4
        BY <1>1, <1>2, <3>1, <3>4, RecvAtThree
      <4>. QED  BY <3>2, <4>1, <4>2
    <3>. QED  BY <3>3, <3>4
  <2>2. CASE w # u
    <3>1. BufOK(p, ids, left, w) /\ todo'[w] = todo[w] /\ buf'[w] = buf[w]
      BY <1>8, <1>9, <2>2 DEF Coupled
    <3>. QED  BY <1>2, <3>1 DEF BufOK, Started
  <2>. QED  BY <2>1, <2>2
<1>16. \A w \in Units : ~ Lost(w)' => ~ Lost(w)
  BY <1>4, <1>8 DEF Lost
<1>17. \A w \in Units : HandlesOK(p, ids, left, w)'
  BY <1>2, HandlesSame DEF Coupled
<1>18. AreaOK(p, ids, left)' /\ CountOK(p, ids, left)' /\ LocksOK(p, ids, left)'
  BY <1>2, AreaSame, CountSame DEF Coupled
<1>19. \A w \in Units : TableOK(p, ids, left, w)'
  BY <1>2, <1>16, TableSame DEF Coupled
<1>20. PipesOK(p, ids, left)' /\ QueuesOK(p, ids, left)'
  BY <1>2, PipesSame DEF Coupled
<1>21. p \in Programs /\ IdsOK(p, ids, left) /\ ReceivedOK(p, left)
  BY DEF Coupled
<1>. QED  BY <1>1, <1>10, <1>11, <1>13, <1>14, <1>15, <1>17, <1>18, <1>19, <1>20, <1>21 DEF Coupled

-----------------------------------------------------------------------------
(* The barriers.                                                           *)

\* A change of barriers only.
SameTeams ==
    /\ \A s \in TeamSlots : /\ area'.teams[s].inuse = area.teams[s].inuse
                            /\ area'.teams[s].id = area.teams[s].id
                            /\ area'.teams[s].barr.procs = area.teams[s].barr.procs
    /\ area'.nextid = area.nextid /\ area'.locks = area.locks
    /\ UNCHANGED <<prog, holder, pipes, teams, handle, pos, buf>>

\* A unit in a barrier is at one of the barriers of its call.
LEMMA AtBarrier ==
    ASSUME NEW p, NEW ids, NEW left, NEW over, Coupled(p, ids, left, over),
           NEW u \in Units, todo[u] # <<>>, Head(todo[u]).do \in {"find", "await", "wait"}
    PROVE  /\ StepAt(p, u, pos[u], Len(todo[u])).do = "find"
           /\ \E b \in 1 .. Barriers(p, pos[u]) : Len(todo[u]) = BarLeft(p, u, pos[u], b)
<1>. DEFINE i == pos[u]
            l == Len(todo[u])
<1>1. /\ i \in DOMAIN p /\ u \in Mem(p, i) /\ l \in 1 .. Size(p, u, i)
      /\ SameStep(Head(todo[u]), StepAt(p, u, i, l))
  BY Underway
<1>2. WellFormed(p)
  BY ProgIs
<1>. HIDE DEF i, l
<1>3. BarrierOK(p, u, i) /\ MakingAt(p, u, i, l)
  BY <1>1, <1>2, CallIs DEF CallOK, MakingOK
<1>4. StepAt(p, u, i, l).do = "find"
  BY <1>1, <1>3 DEF SameStep, MakingAt
<1>. QED  BY <1>1, <1>3, <1>4 DEF BarrierOK, i, l

\* A unit leaves a barrier: one step less of its call.
LEMMA PassStep ==
    ASSUME NEW p, NEW ids, NEW left, NEW over, Coupled(p, ids, left, over),
           NEW u \in Units, todo[u] # <<>>, Head(todo[u]).do \in {"await", "wait"},
           todo' = [todo EXCEPT ![u] = Tail(@)], pos' = pos, buf' = buf,
           NEW next, next = [left EXCEPT ![u][pos[u]] = @ - 1]
    PROVE  /\ Stepped(p, left, next, u, pos[u], "find", Len(todo[u]))
           /\ StepAt(p, u, pos[u], Len(todo[u])).do = "find"
           /\ \A w \in Units : PlaceOK(p, ids, next, w)'
           /\ \A w \in Units : w # u => todo'[w] = todo[w]
           /\ ~ Waiting(u)' /\ ~ Entering(u)' /\ ~ Lost(u) /\ todo' \in [Units -> Seq(StepRec)]
<1>. DEFINE i == pos[u]
            l == Len(todo[u])
<1>1. WellFormed(p) /\ DOMAIN p = 1 .. Len(p) /\ Len(p) \in Nat /\ TypesOK(p) /\ GhostsOK(p, ids, left, over)
  BY ProgIs
<1>2. StepAt(p, u, i, l).do = "find"
  BY AtBarrier
<1>3. /\ i \in DOMAIN p /\ u \in Mem(p, i) /\ Started(u) /\ left[u][i] = l /\ l \in 1 .. Size(p, u, i)
      /\ todo[u] \in Seq(StepRec)
  BY Underway
<1>4. /\ left \in [Units -> [DOMAIN p -> Nat]] /\ todo \in [Units -> Seq(StepRec)]
  BY <1>1 DEF GhostsOK, TypesOK
<1>5. Stepped(p, left, next, u, i, "find", l)
  <2>1. left[u][i] \in 1 .. Size(p, u, i)
    BY <1>3
  <2>2. Stepped(p, left, next, u, i, StepAt(p, u, i, left[u][i]).do, left[u][i])
    BY <1>1, <1>3, <1>4, <2>1, StepChanges
  <2>. QED  BY <1>2, <1>3, <2>2
<1>6. /\ Remains(p, u, i, Tail(todo[u])) /\ Len(Tail(todo[u])) = l - 1
      /\ Tail(todo[u]) # <<>> => Head(Tail(todo[u])).do \notin {"await", "wait", "lost"}
  BY RemainsTail
<1>7. todo'[u] = Tail(todo[u]) /\ \A w \in Units : w # u => todo'[w] = todo[w]
  BY <1>4
<1>8. \A w \in Units : PlaceOK(p, ids, next, w)'
  <2>. PICK q : q = Tail(todo[u])
    OBVIOUS
  <2>1. /\ WellFormed(p) /\ TypesOK(p) /\ GhostsOK(p, ids, left, over) /\ todo[u] # <<>>
        /\ Remains(p, u, pos[u], q) /\ todo'[u] = q /\ next[u][pos[u]] = Len(q)
        /\ \A w \in Units : PlaceOK(p, ids, left, w)
        /\ \A w \in Units : w # u => todo'[w] = todo[w]
        /\ pos' = pos /\ \A w \in Units : buf'[w].op = buf[w].op
        /\ \A w \in Units, j \in DOMAIN p : next[w][j] # left[w][j] => w = u /\ j = pos[u]
    BY <1>1, <1>5, <1>6, <1>7 DEF Stepped, Coupled
  <2>. HIDE DEF i, l
  <2>. QED  BY ONLY <2>1, u \in Units, PlaceChange
<1>9. ~ Waiting(u)' /\ ~ Entering(u)'
  BY <1>6, <1>7 DEF Waiting, Entering
<1>10. todo' \in [Units -> Seq(StepRec)]
  <2>1. Tail(todo[u]) \in Seq(StepRec)
    BY <1>6 DEF Remains
  <2>. QED  BY <1>4, <2>1
<1>11. ~ Lost(u)
  <2>1. Head(Step("lost")).do = "lost"
    BY DEF Step
  <2>. QED  BY <2>1 DEF Lost
<1>. QED  BY <1>2, <1>5, <1>7, <1>8, <1>9, <1>10, <1>11

\* What the steps of a barrier leave as it was: all but places, sleepers and
\* rounds.
LEMMA BarrierFrame ==
    ASSUME NEW p, NEW ids, NEW left, NEW over, Coupled(p, ids, left, over),
           NEW u \in Units, NEW next, NEW i, NEW l, Stepped(p, left, next, u, i, "find", l),
           StepAt(p, u, i, l).do = "find", SameTeams,
           \A s \in TeamSlots : ~ area.teams[s].inuse => area'.teams[s].barr.asleep = {},
           \A w \in Units : todo'[w] # <<>> => todo[w] # <<>>,
           \A w \in Units : ~ Lost(w)' => ~ Lost(w)
    PROVE  /\ IdsOK(p, ids, next) /\ CountOK(p, ids, next)' /\ \A w \in Units : HandlesOK(p, ids, next, w)'
           /\ \A w \in Units : BufOK(p, ids, next, w)'
           /\ AreaOK(p, ids, next)' /\ \A w \in Units : TableOK(p, ids, next, w)'
           /\ PipesOK(p, ids, next)' /\ ReceivedOK(p, next) /\ QueuesOK(p, ids, next)' /\ LocksOK(p, ids, next)'
<1>1. WellFormed(p)
  BY ProgIs
<1>2. \A w : ~ SendsTo(p, u, i, l, w) /\ ~ ReceivesFrom(p, u, i, l, w)
  BY DEF SendsTo, ReceivesFrom
<1>3. IdsOK(p, ids, left) /\ IdsOK(p, ids, next)
  BY IdsStep DEF Coupled
<1>4. CountOK(p, ids, next)'
  <2>1. CountOK(p, ids, left) /\ area'.nextid = area.nextid /\ "find" \notin {"newteam", "takelock"}
    BY DEF Coupled, SameTeams
  <2>. QED  BY ONLY <1>1, <2>1, Stepped(p, left, next, u, i, "find", l), CountStep
<1>5. \A w \in Units : HandlesOK(p, ids, next, w)'
  <2>1. handle' = handle /\ \A w \in Units : HandlesOK(p, ids, left, w)
    BY DEF Coupled, SameTeams
  <2>2. "find" \notin {"init", "setlock"}
    OBVIOUS
  <2>. QED  BY ONLY <1>3, <2>1, <2>2, Stepped(p, left, next, u, i, "find", l), HandlesStep
<1>6. \A w \in Units : BufOK(p, ids, next, w)'
  <2>1. buf' = buf /\ pos' = pos /\ \A w \in Units : BufOK(p, ids, left, w)
    BY DEF Coupled, SameTeams
  <2>2. \A w \in Units : todo'[w] # <<>> => todo[w] # <<>>
    OBVIOUS
  <2>3. "find" \notin {"newteam", "takelock", "recv"}
    OBVIOUS
  <2>. QED  BY ONLY <2>1, <2>2, <2>3, Stepped(p, left, next, u, i, "find", l), BufStep
<1>7. AreaOK(p, ids, next)'
  BY AreaStep DEF Coupled, SameTeams
<1>8. \A w \in Units : TableOK(p, ids, next, w)'
  <2>1. /\ \A w \in Units : TableOK(p, ids, left, w)
        /\ \A s \in TeamSlots : /\ area'.teams[s].inuse => area.teams[s].inuse
                                /\ area'.teams[s].id = area.teams[s].id
        /\ \A w \in Units : ~ Lost(w)' => ~ Lost(w) /\ teams'[w] = teams[w]
    BY DEF Coupled, SameTeams
  <2>2. "find" # "init"
    OBVIOUS
  <2>. QED  BY ONLY <2>1, <2>2, Stepped(p, left, next, u, i, "find", l), TableStep
<1>9. PipesOK(p, ids, next)'
  BY <1>1, PipesStep DEF Coupled, SameTeams
<1>10. ReceivedOK(p, next) /\ QueuesOK(p, ids, next)'
  <2>1. \A name \in DOMAIN pipes' : name \in DOMAIN pipes /\ pipes'[name].queue = pipes[name].queue
    BY DEF SameTeams
  <2>. QED  BY <1>2, <2>1, ReceivedStep, QueuesStep DEF Coupled
<1>11. LocksOK(p, ids, next)'
  BY LocksStep DEF Coupled, SameTeams
<1>. QED  BY <1>3, <1>4, <1>5, <1>6, <1>7, <1>8, <1>9, <1>10, <1>11

\* The same, when no step of a call has been taken.
LEMMA BarrierSame ==
    ASSUME NEW p, NEW ids, NEW left, NEW over, Coupled(p, ids, left, over), SameTeams,
           \A s \in TeamSlots : ~ area.teams[s].inuse => area'.teams[s].barr.asleep = {},
           \A w \in Units : todo'[w] # <<>> => todo[w] # <<>>,
           \A w \in Units : ~ Lost(w)' => ~ Lost(w)
    PROVE  /\ IdsOK(p, ids, left) /\ CountOK(p, ids, left)' /\ \A w \in Units : HandlesOK(p, ids, left, w)'
           /\ \A w \in Units : BufOK(p, ids, left, w)'
           /\ AreaOK(p, ids, left)' /\ \A w \in Units : TableOK(p, ids, left, w)'
           /\ PipesOK(p, ids, left)' /\ ReceivedOK(p, left) /\ QueuesOK(p, ids, left)' /\ LocksOK(p, ids, left)'
<1>1. 0 \in TeamSlots
  BY SizesAssumption DEF TeamSlots
<1>2. IdsOK(p, ids, left) /\ ReceivedOK(p, left)
  BY DEF Coupled
<1>3. CountOK(p, ids, left)'
  BY DEF Coupled, CountOK, SameTeams
<1>4. \A w \in Units : HandlesOK(p, ids, left, w)'
  BY DEF Coupled, HandlesOK, SameTeams
<1>5. \A w \in Units : BufOK(p, ids, left, w)'
  BY DEF Coupled, BufOK, Started, SameTeams
<1>6. AreaOK(p, ids, left)'
  <2>1. AreaOK(p, ids, left)
    BY DEF Coupled
  <2>2. \A c \in DOMAIN p : p[c].kind = "create" /\ ids[c] # NoTeam /\ ~Deleted(p, left, c) =>
           \E s \in TeamSlots : /\ area'.teams[s].inuse /\ area'.teams[s].id = ids[c]
                                /\ area'.teams[s].barr.procs = Cardinality(For(p, c))
    BY <2>1 DEF AreaOK, SameTeams
  <2>3. area'.teams[0].inuse /\ area'.teams[0].id = TeamAll
        /\ area'.teams[0].barr.procs = Cardinality(Units)
    BY <1>1, <2>1 DEF AreaOK, SameTeams
  <2>. QED  BY <2>1, <2>2, <2>3 DEF AreaOK, SameTeams
<1>7. \A w \in Units : TableOK(p, ids, left, w)'
  <2>1. ASSUME NEW w \in Units, ~ Lost(w)' PROVE TableOK(p, ids, left, w)'
    <3>1. TableOK(p, ids, left, w) /\ ~ Lost(w)
      BY <2>1 DEF Coupled
    <3>. QED  BY <3>1 DEF TableOK, SameTeams
  <2>. QED  BY <2>1 DEF TableOK
<1>8. PipesOK(p, ids, left)'
  BY DEF Coupled, PipesOK, SameTeams
<1>9. QueuesOK(p, ids, left)'
  <2>1. QueuesOK(p, ids, left) /\ pipes' = pipes
    BY DEF Coupled, SameTeams
  <2>. QED  BY <2>1 DEF QueuesOK
<1>10. LocksOK(p, ids, left)'
  BY DEF Coupled, LocksOK, SameTeams
<1>. QED  BY <1>2, <1>3, <1>4, <1>5, <1>6, <1>7, <1>8, <1>9, <1>10

\* The records of the area.
BarrRec == [procs : Int, asleep : SUBSET Units, woken : SUBSET Units, torn : BOOLEAN]
AreaRec == [teams : [TeamSlots -> [inuse : BOOLEAN, id : Int, barr : BarrRec]],
            locks : [LockSlots -> [inuse : BOOLEAN, team : Int]],
            nextid : Int]

\* The type of the area, as a set of records.
LEMMA AreaType ==
    ASSUME NEW p
    PROVE  /\ TypesOK(p) => area \in AreaRec
           /\ TypesOK(p)' => area' \in AreaRec
  BY DEF TypesOK, AreaRec, BarrRec

\* An area with another entry in a slot, and with another barrier in it.
EntryRec == [inuse : BOOLEAN, id : Int, barr : BarrRec]

\* The area with another entry, or another barrier, in one slot.
WithEntry(a, s, e) == [a EXCEPT !.teams[s] = e]
WithBarr(a, s, x) == [a EXCEPT !.teams[s].barr = x]

\* The area with another entry in one slot.
LEMMA NewEntry ==
    ASSUME NEW a \in AreaRec, NEW s \in TeamSlots, NEW e \in EntryRec
    PROVE  LET b == WithEntry(a, s, e)
           IN  /\ b \in AreaRec /\ b.teams[s] = e /\ b.nextid = a.nextid /\ b.locks = a.locks
               /\ \A r \in TeamSlots : r # s => b.teams[r] = a.teams[r]
<1>. PICK t : t = [a.teams EXCEPT ![s] = e]
  OBVIOUS
<1>. DEFINE b == WithEntry(a, s, e)
<1>1. a.teams \in [TeamSlots -> EntryRec]
  BY DEF AreaRec, EntryRec
<1>2. /\ t \in [TeamSlots -> EntryRec]
      /\ t[s] = e /\ \A r \in TeamSlots : r # s => t[r] = a.teams[r]
  BY <1>1
<1>3. b = [a EXCEPT !.teams = t]
  BY DEF WithEntry
<1>. HIDE DEF b
<1>4. b \in AreaRec /\ b.teams = t /\ b.nextid = a.nextid /\ b.locks = a.locks
  BY <1>2, <1>3 DEF AreaRec, EntryRec
<1>5. /\ b \in AreaRec /\ b.teams[s] = e /\ b.nextid = a.nextid /\ b.locks = a.locks
      /\ \A r \in TeamSlots : r # s => b.teams[r] = a.teams[r]
  BY <1>2, <1>4
<1>. QED  BY <1>5 DEF b

\* The area with another barrier in one slot.
LEMMA NewBarr ==
    ASSUME NEW a \in AreaRec, NEW s \in TeamSlots, NEW x \in BarrRec
    PROVE  LET b == WithBarr(a, s, x)
           IN  /\ b \in AreaRec /\ b.teams[s].barr = x /\ b.nextid = a.nextid /\ b.locks = a.locks
               /\ \A r \in TeamSlots : b.teams[r].inuse = a.teams[r].inuse /\ b.teams[r].id = a.teams[r].id
               /\ \A r \in TeamSlots : r # s => b.teams[r].barr = a.teams[r].barr
<1>. PICK e : e = [a.teams[s] EXCEPT !.barr = x]
  OBVIOUS
<1>. DEFINE b == WithBarr(a, s, x)
<1>1. e \in EntryRec /\ e.barr = x /\ e.inuse = a.teams[s].inuse /\ e.id = a.teams[s].id
  BY DEF AreaRec, EntryRec
<1>2. b = WithEntry(a, s, e)
  BY DEF WithBarr, WithEntry
<1>. HIDE DEF b
<1>3. /\ b \in AreaRec /\ b.teams[s] = e /\ b.nextid = a.nextid /\ b.locks = a.locks
      /\ \A r \in TeamSlots : r # s => b.teams[r] = a.teams[r]
  BY <1>1, <1>2, NewEntry
<1>4. /\ b \in AreaRec /\ b.teams[s].barr = x /\ b.nextid = a.nextid /\ b.locks = a.locks
      /\ \A r \in TeamSlots : b.teams[r].inuse = a.teams[r].inuse /\ b.teams[r].id = a.teams[r].id
      /\ \A r \in TeamSlots : r # s => b.teams[r].barr = a.teams[r].barr
  BY <1>1, <1>3
<1>. QED  BY <1>4 DEF b

\* A unit looks up the slot of its barrier.
LEMMA FindStep ==
    ASSUME NEW p, NEW ids, NEW left, NEW over, Coupled(p, ids, left, over), NEW u \in Units, FindBarrier(u)
    PROVE  Coupled(p, ids, left, over)'
<1>1. /\ WellFormed(p) /\ DOMAIN p = 1 .. Len(p) /\ Len(p) \in Nat /\ TypesOK(p) /\ prog = p
      /\ GhostsOK(p, ids, left, over)
  BY ProgIs
<1>. DEFINE i == pos[u]
            l == Len(todo[u])
            s == SlotFor(area, T(u))
            q == Step("await") \o Tail(todo[u])
<1>2. At(u, "find")
  BY DEF FindBarrier
<1>3. /\ todo[u] # <<>> /\ inside[u] = NoSlot /\ StepAt(p, u, i, l).do = "find" /\ ~ Woken(u) /\ ~ Lost(u)
      /\ Head(todo[u]).do = "find"
  BY <1>2, AtStep DEF At
<1>4. /\ i \in DOMAIN p /\ u \in Mem(p, i) /\ Started(u) /\ left[u][i] = l /\ l \in 1 .. Size(p, u, i)
      /\ todo[u] \in Seq(StepRec) /\ Live(p, ids, i)
  BY <1>3, Underway
<1>5. s \in TeamSlots /\ area.teams[s].inuse /\ area.teams[s].id = T(u)
  <2>1. SlotIs(p, ids, p[i].on, s) /\ T(u) = TeamId(ids, p[i].on)
    <3>. HIDE DEF i, s
    <3>. QED  BY <1>1, <1>3, <1>4, LookUp DEF i, s
  <2>. QED  BY <2>1 DEF SlotIs
<1>6. /\ inside' = [inside EXCEPT ![u] = s] /\ todo' = [todo EXCEPT ![u] = q]
      /\ UNCHANGED <<prog, area, holder, pipes, teams, handle, pos, buf>>
  BY <1>5 DEF FindBarrier, ValidSlot
<1>7. /\ q \in Seq(StepRec) /\ Len(q) = l /\ q # <<>>
      /\ Head(q).do = "await" /\ LeftOf(q, l) = Head(q)
      /\ \A k \in 1 .. l - 1 : LeftOf(q, k) = LeftOf(todo[u], k)
  BY <1>3, <1>4, LeftOfReplaced DEF StepNames
<1>8. Remains(p, u, i, q)
  <2>1. /\ \A k \in 1 .. l : SameStep(LeftOf(todo[u], k), StepAt(p, u, i, k))
        /\ \A k \in 1 .. l - 1 : LeftOf(todo[u], k).do \notin {"await", "wait", "lost"}
    BY <1>3 DEF Coupled, PlaceOK
  <2>2. Size(p, u, i) \in Nat /\ l \in Nat
    BY <1>1, <1>4, SizeType
  <2>. HIDE DEF l, q, i
  <2>3. \A k \in 1 .. l : SameStep(LeftOf(q, k), StepAt(p, u, i, k))
    <3>1. \A k \in 1 .. l : k = l \/ k \in 1 .. l - 1
      BY <2>2
    <3>2. SameStep(LeftOf(q, l), StepAt(p, u, i, l))
      BY <1>3, <1>7 DEF SameStep
    <3>. QED  BY <1>7, <2>1, <3>1, <3>2
  <2>. QED  BY ONLY <1>4, <1>7, <2>1, <2>2, <2>3 DEF Remains
<1>9. /\ inside \in [Units -> TeamSlots \union {NoSlot}] /\ todo \in [Units -> Seq(StepRec)]
  BY <1>1 DEF TypesOK
<1>. HIDE DEF q, s
<1>10. /\ todo' \in [Units -> Seq(StepRec)] /\ todo'[u] = q /\ \A w \in Units : w # u => todo'[w] = todo[w]
       /\ inside' \in [Units -> TeamSlots \union {NoSlot}] /\ inside'[u] = s
       /\ \A w \in Units : w # u => inside'[w] = inside[w]
  BY <1>5, <1>6, <1>7, <1>9
<1>11. TypesOK(p)'
  BY <1>1, <1>6, <1>10 DEF TypesOK
<1>12. \A w \in Units : PlaceOK(p, ids, left, w)'
  <2>. PICK y : y = q
    OBVIOUS
  <2>1. /\ WellFormed(p) /\ TypesOK(p) /\ GhostsOK(p, ids, left, over) /\ todo[u] # <<>>
        /\ Remains(p, u, pos[u], y) /\ todo'[u] = y /\ left[u][pos[u]] = Len(y)
        /\ \A w \in Units : PlaceOK(p, ids, left, w)
        /\ \A w \in Units : w # u => todo'[w] = todo[w]
        /\ pos' = pos /\ \A w \in Units : buf'[w].op = buf[w].op
        /\ \A w \in Units, j \in DOMAIN p : left[w][j] # left[w][j] => w = u /\ j = pos[u]
    BY <1>1, <1>3, <1>4, <1>6, <1>7, <1>8, <1>10 DEF Coupled
  <2>. HIDE DEF i, l
  <2>. QED  BY ONLY <2>1, u \in Units, PlaceChange
<1>13. \A w \in Units : ~ Lost(w)' => ~ Lost(w)
  BY <1>3, <1>10 DEF Lost
<1>14. ~ Waiting(u)' /\ Entering(u)' /\ s # NoSlot
  BY <1>5, <1>7, <1>10, SizesAssumption DEF Waiting, Entering, NoSlot, TeamSlots
<1>15. ASSUME NEW w \in Units PROVE InsideOK(w)'
  <2>1. InsideOK(w) /\ T(w)' = T(w) /\ area' = area
    BY <1>6 DEF Coupled, T, TeamOf
  <2>2. CASE w # u
    <3>1. inside'[w] = inside[w] /\ todo'[w] = todo[w]
      BY <1>10, <2>2
    <3>2. (Waiting(w)' <=> Waiting(w)) /\ (Entering(w)' <=> Entering(w))
      BY <3>1 DEF Waiting, Entering
    <3>. QED  BY <2>1, <3>1, <3>2 DEF InsideOK
  <2>3. CASE w = u
    <3>1. \A r \in TeamSlots : u \notin area.teams[r].barr.asleep \union area.teams[r].barr.woken
      BY <1>3, <2>1, <2>3, SizesAssumption DEF InsideOK, NoSlot, TeamSlots
    <3>. QED  BY <1>5, <1>10, <1>14, <2>1, <2>3, <3>1 DEF InsideOK
  <2>. QED  BY <2>2, <2>3
<1>16. \A w \in Units : Woken(w)' <=> Woken(w)
  <2>1. ~ Woken(u)'
    <3>1. \A r \in TeamSlots : u \notin area.teams[r].barr.woken
      BY <1>3, SizesAssumption DEF Coupled, InsideOK, NoSlot, TeamSlots
    <3>. QED  BY <1>5, <1>6, <1>10, <3>1 DEF Woken
  <2>2. ASSUME NEW w \in Units, w # u PROVE Woken(w)' <=> Woken(w)
    BY <1>6, <1>10, <2>2 DEF Woken
  <2>. QED  BY <1>3, <2>1, <2>2
<1>17. \A w \in Units : OverOK(p, ids, left, over, w)'
  BY <1>6, <1>16 DEF Coupled, OverOK
<1>18. SameTeams /\ \A r \in TeamSlots : ~ area.teams[r].inuse => area'.teams[r].barr.asleep = {}
  BY <1>6 DEF SameTeams, Coupled, AreaOK
<1>19. \A w \in Units : todo'[w] # <<>> => todo[w] # <<>>
  BY <1>3, <1>10
<1>20. /\ IdsOK(p, ids, left) /\ CountOK(p, ids, left)' /\ \A w \in Units : HandlesOK(p, ids, left, w)'
       /\ \A w \in Units : BufOK(p, ids, left, w)'
       /\ AreaOK(p, ids, left)' /\ \A w \in Units : TableOK(p, ids, left, w)'
       /\ PipesOK(p, ids, left)' /\ ReceivedOK(p, left) /\ QueuesOK(p, ids, left)' /\ LocksOK(p, ids, left)'
  BY <1>13, <1>18, <1>19, BarrierSame
<1>21. p \in Programs
  BY DEF Coupled
<1>. QED  BY <1>1, <1>11, <1>12, <1>15, <1>17, <1>20, <1>21 DEF Coupled

\* What remains to be shown of a unit that leaves a barrier.
LEMMA PassCoupled ==
    ASSUME NEW p, NEW ids, NEW left, NEW over, Coupled(p, ids, left, over),
           NEW u \in Units, todo[u] # <<>>, Head(todo[u]).do \in {"await", "wait"},
           todo' = [todo EXCEPT ![u] = Tail(@)], inside' = [inside EXCEPT ![u] = NoSlot],
           SameTeams, area' \in AreaRec,
           \A s \in TeamSlots : ~ area.teams[s].inuse => area'.teams[s].barr.asleep = {},
           \A w \in Units : InsideOK(w)',
           NEW next, next = [left EXCEPT ![u][pos[u]] = @ - 1],
           NEW over2 \in [DOMAIN p -> Nat], \A w \in Units : OverOK(p, ids, next, over2, w)'
    PROVE  Coupled(p, ids, next, over2)'
<1>1. /\ WellFormed(p) /\ DOMAIN p = 1 .. Len(p) /\ Len(p) \in Nat /\ TypesOK(p) /\ prog = p
      /\ GhostsOK(p, ids, left, over) /\ p \in Programs
  BY ProgIs
<1>2. UNCHANGED <<prog, holder, pipes, teams, handle, pos, buf>>
  BY DEF SameTeams
<1>3. /\ Stepped(p, left, next, u, pos[u], "find", Len(todo[u]))
      /\ StepAt(p, u, pos[u], Len(todo[u])).do = "find"
      /\ \A w \in Units : PlaceOK(p, ids, next, w)'
      /\ \A w \in Units : w # u => todo'[w] = todo[w]
      /\ ~ Waiting(u)' /\ ~ Entering(u)' /\ ~ Lost(u) /\ todo' \in [Units -> Seq(StepRec)]
  BY <1>2, PassStep
<1>4. TypesOK(p)'
  BY <1>1, <1>2, <1>3 DEF TypesOK, AreaRec, BarrRec
<1>5. GhostsOK(p, ids, next, over2)
  BY <1>1, <1>3 DEF GhostsOK, Stepped
<1>6. \A w \in Units : ~ Lost(w)' => ~ Lost(w)
  <2>1. \A w \in Units : w # u => (Lost(w)' <=> Lost(w))
    BY <1>3 DEF Lost
  <2>. QED  BY <1>3, <2>1
<1>7. \A w \in Units : todo'[w] # <<>> => todo[w] # <<>>
  BY <1>3
<1>8. /\ IdsOK(p, ids, next) /\ CountOK(p, ids, next)' /\ \A w \in Units : HandlesOK(p, ids, next, w)'
      /\ \A w \in Units : BufOK(p, ids, next, w)'
      /\ AreaOK(p, ids, next)' /\ \A w \in Units : TableOK(p, ids, next, w)'
      /\ PipesOK(p, ids, next)' /\ ReceivedOK(p, next) /\ QueuesOK(p, ids, next)' /\ LocksOK(p, ids, next)'
  <2>. PICK i, l : i = pos[u] /\ l = Len(todo[u])
    OBVIOUS
  <2>1. /\ Coupled(p, ids, left, over) /\ Stepped(p, left, next, u, i, "find", l)
        /\ StepAt(p, u, i, l).do = "find" /\ SameTeams
        /\ \A s \in TeamSlots : ~ area.teams[s].inuse => area'.teams[s].barr.asleep = {}
        /\ \A w \in Units : todo'[w] # <<>> => todo[w] # <<>>
        /\ \A w \in Units : ~ Lost(w)' => ~ Lost(w)
    BY <1>3, <1>6, <1>7
  <2>. QED  BY ONLY <2>1, u \in Units, BarrierFrame
<1>. QED  BY <1>1, <1>3, <1>4, <1>5, <1>8, Zenon DEF Coupled

\* A woken unit leaves its barrier.
LEMMA LeaveStep ==
    ASSUME NEW p, NEW ids, NEW left, NEW over, Coupled(p, ids, left, over), NEW u \in Units, Leave(u)
    PROVE  \E next : Coupled(p, ids, next, over)'
<1>1. /\ WellFormed(p) /\ DOMAIN p = 1 .. Len(p) /\ Len(p) \in Nat /\ TypesOK(p) /\ prog = p
      /\ GhostsOK(p, ids, left, over) /\ area \in AreaRec
  BY ProgIs, AreaType
<1>. PICK next : next = [left EXCEPT ![u][pos[u]] = @ - 1]
  OBVIOUS
<1>. PICK s : s = inside[u]
  OBVIOUS
<1>. PICK x : x = [area.teams[s].barr EXCEPT !.woken = @ \ {u}]
  OBVIOUS
<1>2. /\ s \in TeamSlots /\ Head(todo[u]).do = "wait" /\ u \in area.teams[s].barr.woken
      /\ area' = [area EXCEPT !.teams[s].barr = x]
      /\ inside' = [inside EXCEPT ![u] = NoSlot] /\ todo' = [todo EXCEPT ![u] = Tail(@)]
      /\ UNCHANGED <<prog, holder, pipes, teams, handle, pos, buf>>
  BY Zenon DEF Leave, ValidSlot, Wake, Advance
<1>3. s # NoSlot /\ NoSlot \notin TeamSlots
  BY <1>2, SizesAssumption DEF NoSlot, TeamSlots
<1>4. todo[u] # <<>> /\ Woken(u) /\ InsideOK(u)
  BY <1>2, <1>3, Zenon DEF Coupled, InsideOK, Waiting, Entering, Woken
<1>5. area.teams[s].barr \in BarrRec
  BY <1>1, <1>2 DEF AreaRec
<1>6. /\ x \in BarrRec /\ x.procs = area.teams[s].barr.procs /\ x.asleep = area.teams[s].barr.asleep
      /\ x.woken = area.teams[s].barr.woken \ {u}
  BY <1>5, Zenon DEF BarrRec
<1>7. /\ area' \in AreaRec /\ area'.teams[s].barr = x /\ area'.nextid = area.nextid /\ area'.locks = area.locks
      /\ \A r \in TeamSlots : area'.teams[r].inuse = area.teams[r].inuse /\ area'.teams[r].id = area.teams[r].id
      /\ \A r \in TeamSlots : r # s => area'.teams[r].barr = area.teams[r].barr
  <2>1. area' = WithBarr(area, s, x)
    BY <1>2 DEF WithBarr
  <2>. PICK a, b : a = area /\ b = area'
    OBVIOUS
  <2>2. a \in AreaRec /\ s \in TeamSlots /\ x \in BarrRec /\ b = WithBarr(a, s, x)
    BY <1>1, <1>2, <1>6, <2>1, Zenon
  <2>3. /\ b \in AreaRec /\ b.teams[s].barr = x /\ b.nextid = a.nextid /\ b.locks = a.locks
        /\ \A r \in TeamSlots : b.teams[r].inuse = a.teams[r].inuse /\ b.teams[r].id = a.teams[r].id
        /\ \A r \in TeamSlots : r # s => b.teams[r].barr = a.teams[r].barr
    BY ONLY <2>2, NewBarr
  <2>. QED  BY <2>3, Zenon
<1>8. SameTeams
  BY <1>2, <1>6, <1>7, Zenon DEF SameTeams
<1>9. \A r \in TeamSlots : ~ area.teams[r].inuse => area'.teams[r].barr.asleep = {}
  <2>1. \A r \in TeamSlots : ~ area.teams[r].inuse => area.teams[r].barr.asleep = {}
    BY DEF Coupled, AreaOK
  <2>2. \A r \in TeamSlots : area'.teams[r].barr.asleep = area.teams[r].barr.asleep
    BY <1>6, <1>7, Zenon
  <2>. QED  BY <2>1, <2>2
<1>10. /\ Stepped(p, left, next, u, pos[u], "find", Len(todo[u]))
       /\ \A w \in Units : w # u => todo'[w] = todo[w]
       /\ ~ Waiting(u)' /\ ~ Entering(u)'
  BY <1>2, <1>4, PassStep, Zenon
<1>11. inside'[u] = NoSlot /\ \A w \in Units : w # u => inside'[w] = inside[w]
  BY <1>1, <1>2 DEF TypesOK
<1>12. ASSUME NEW w \in Units PROVE InsideOK(w)'
  <2>1. InsideOK(w) /\ T(w)' = T(w)
    BY <1>2 DEF Coupled, T, TeamOf
  <2>2. CASE w # u
    <3>1. inside'[w] = inside[w] /\ (Waiting(w)' <=> Waiting(w)) /\ (Entering(w)' <=> Entering(w))
      BY <1>10, <1>11, <2>2 DEF Waiting, Entering
    <3>2. \A r \in TeamSlots : /\ w \in area'.teams[r].barr.asleep <=> w \in area.teams[r].barr.asleep
                               /\ w \in area'.teams[r].barr.woken <=> w \in area.teams[r].barr.woken
      BY ONLY <1>6, <1>7, <2>2, Zenon
    <3>. HIDE DEF InsideOK
    <3>3. /\ (inside'[w] # NoSlot) <=> (Waiting(w)' \/ Entering(w)')
          /\ \A r \in TeamSlots :
               /\ (w \in area'.teams[r].barr.asleep \union area'.teams[r].barr.woken) => (inside'[w] = r /\ Waiting(w)')
               /\ ~(w \in area'.teams[r].barr.asleep /\ w \in area'.teams[r].barr.woken)
               /\ (inside'[w] = r /\ Waiting(w)') => (w \in area'.teams[r].barr.asleep \union area'.teams[r].barr.woken)
               /\ (inside'[w] = r /\ w \notin area'.teams[r].barr.woken) =>
                      (area'.teams[r].inuse /\ area'.teams[r].id = T(w)')
      BY ONLY <1>7, <2>1, <3>1, <3>2 DEF InsideOK
    <3>. QED  BY <3>3 DEF InsideOK
  <2>3. CASE w = u
    <3>1. \A r \in TeamSlots : u \notin area'.teams[r].barr.asleep \union area'.teams[r].barr.woken
      <4>1. \A r \in TeamSlots : u \in area.teams[r].barr.asleep \union area.teams[r].barr.woken => r = s
        BY <1>4 DEF InsideOK
      <4>2. u \notin area.teams[s].barr.asleep
        BY <1>2, <1>4, Zenon DEF InsideOK
      <4>. QED  BY <1>6, <1>7, <4>1, <4>2, Zenon
    <3>. QED  BY <1>3, <1>10, <1>11, <2>3, <3>1, Zenon DEF InsideOK
  <2>. QED  BY <2>2, <2>3
<1>13. pos[u] \in DOMAIN p /\ u \in Mem(p, pos[u])
  BY <1>4, Underway
<1>14. ~ Woken(u)' /\ \A w \in Units : w # u => (Woken(w)' <=> Woken(w))
  <2>1. ASSUME NEW w \in Units, w # u PROVE Woken(w)' <=> Woken(w)
    <3>1. inside'[w] = inside[w] /\ inside[w] \in TeamSlots \union {NoSlot}
      BY <1>1, <1>11, <2>1 DEF TypesOK
    <3>2. \A r \in TeamSlots : w \in area'.teams[r].barr.woken <=> w \in area.teams[r].barr.woken
      BY ONLY <1>6, <1>7, <2>1, Zenon
    <3>. QED  BY <3>1, <3>2 DEF Woken
  <2>. QED  BY <1>11, <2>1 DEF Woken
<1>15. \A w \in Units : OverOK(p, ids, next, over, w)'
  <2>1. left \in [Units -> [DOMAIN p -> Nat]] /\ \A w \in Units : OverOK(p, ids, left, over, w)
    BY <1>1 DEF GhostsOK, Coupled
  <2>. PICK i, l : i = pos[u] /\ l = Len(todo[u])
    OBVIOUS
  <2>2. /\ WellFormed(p) /\ i \in DOMAIN p /\ pos[u] = i /\ u \in Mem(p, i)
        /\ Stepped(p, left, next, u, i, "find", l)
        /\ \A b \in 1 .. Barriers(p, i) : l = BarLeft(p, u, i, b) => Woken(u)
        /\ pos' = pos
    BY <1>1, <1>2, <1>4, <1>10, <1>13, Zenon
  <2>. QED  BY ONLY <2>1, <2>2, <1>14, u \in Units, OverChange
<1>16. over \in [DOMAIN p -> Nat]
  BY <1>1 DEF GhostsOK
<1>17. Coupled(p, ids, next, over)'
  BY <1>2, <1>4, <1>7, <1>8, <1>9, <1>12, <1>15, <1>16, PassCoupled, Zenon
<1>. QED  BY <1>17

\* Two calls that are on one team by its id are on one team.
LEMMA TeamIdsDiffer ==
    ASSUME NEW p, WellFormed(p), NEW ids, NEW left, IdsOK(p, ids, left),
           NEW c \in Teams(p, ids), NEW d \in Teams(p, ids), TeamId(ids, c) = TeamId(ids, d)
    PROVE  c = d
<1>1. DOMAIN p = 1 .. Len(p) /\ Len(p) \in Nat
  BY ProgramDomain
<1>2. \A e \in Teams(p, ids) : e = 0 \/ (e \in DOMAIN p /\ p[e].kind = "create" /\ ids[e] # NoTeam)
  BY DEF Teams
<1>3. \A e \in Teams(p, ids) : e # 0 => ids[e] \in 1 .. Len(p)
  BY <1>2 DEF IdsOK, Ids
<1>4. c = 0 \/ d = 0 => c = d
  BY <1>1, <1>3 DEF TeamId, TeamAll
<1>5. c # 0 /\ d # 0 => c = d
  BY <1>2 DEF TeamId, IdsOK
<1>. QED  BY <1>4, <1>5

\* The number of the barrier a unit waits for: it has not been completed, and
\* those before it have.
LEMMA NextBarrier ==
    ASSUME NEW p, NEW ids, NEW left, NEW over, Coupled(p, ids, left, over),
           NEW u \in Units, todo[u] # <<>>, ~ Woken(u),
           NEW b \in 1 .. Barriers(p, pos[u]), Len(todo[u]) = BarLeft(p, u, pos[u], b)
    PROVE  over[pos[u]] = b - 1
<1>. PICK i : i = pos[u]
  OBVIOUS
<1>1. i \in DOMAIN p /\ u \in Mem(p, i) /\ Live(p, ids, i) /\ left[u][i] = BarLeft(p, u, i, b)
  BY Underway
<1>2. WellFormed(p)
  BY ProgIs
<1>3. BarrierOK(p, u, i) /\ Barriers(p, i) \in 0 .. 3 /\ b \in 1 .. Barriers(p, i)
  BY <1>1, <1>2, CallIs DEF CallOK, BarrierOK
<1>4. /\ over[i] \in Nat
      /\ \A a \in 1 .. Barriers(p, i) : (a <= over[i]) <=> (left[u][i] < BarLeft(p, u, i, a))
                                                      \/ (left[u][i] = BarLeft(p, u, i, a) /\ Woken(u))
  BY <1>1, <1>3, OverIs
<1>5. BarLeft(p, u, i, b) \in Nat
  BY <1>1, <1>2, <1>3, SizeType
<1>6. ~ (b <= over[i])
  BY <1>1, <1>3, <1>4, <1>5
<1>7. ASSUME b > 1 PROVE b - 1 <= over[i]
  <2>. PICK a : a = b - 1
    OBVIOUS
  <2>1. a \in 1 .. Barriers(p, i) /\ a < b
    BY <1>3, <1>7
  <2>2. BarLeft(p, u, i, b) < BarLeft(p, u, i, a)
    BY <1>3, <2>1 DEF BarrierOK
  <2>. QED  BY <1>1, <1>4, <2>1, <2>2
<1>. QED  BY <1>3, <1>4, <1>6, <1>7

\* A unit that waits for a barrier of a call on a team is not behind another
\* one that does.
LEMMA NotBehind ==
    ASSUME NEW p, NEW ids, NEW left, NEW over, Coupled(p, ids, left, over),
           NEW u \in Units, NEW w \in Units, todo[u] # <<>>, todo[w] # <<>>, ~ Woken(w),
           NEW b \in 1 .. Barriers(p, pos[w]), Len(todo[w]) = BarLeft(p, w, pos[w], b),
           p[pos[u]].on = p[pos[w]].on
    PROVE  ~ (pos[w] < pos[u])
<1>. SUFFICES ASSUME pos[w] < pos[u] PROVE FALSE
  OBVIOUS
<1>. PICK j : j = pos[w]
  OBVIOUS
<1>1. WellFormed(p)
  BY ProgIs
<1>2. /\ j \in DOMAIN p /\ w \in Mem(p, j) /\ Live(p, ids, j) /\ left[w][j] = BarLeft(p, w, j, b)
      /\ pos[u] \in DOMAIN p /\ u \in Mem(p, pos[u])
  BY Underway
<1>3. u \in Mem(p, j)
  BY <1>2 DEF Mem
<1>4. left[u][j] = 0
  BY <1>2, <1>3, LeftIs
<1>5. BarLeft(p, u, j, b) \in Nat /\ BarLeft(p, u, j, b) >= 1 /\ BarLeft(p, w, j, b) \in Nat
  BY <1>1, <1>2, <1>3, SizeType
<1>6. b <= over[j]
  BY <1>2, <1>3, <1>4, <1>5, OverIs
<1>7. over[j] = b - 1
  BY NextBarrier
<1>8. b \in Int
  OBVIOUS
<1>. QED  BY <1>6, <1>7, <1>8

\* Units that wait for barriers of calls on one team wait for the same one.
LEMMA SameBarrier ==
    ASSUME NEW p, NEW ids, NEW left, NEW over, Coupled(p, ids, left, over),
           NEW u \in Units, NEW w \in Units, todo[u] # <<>>, todo[w] # <<>>, ~ Woken(u), ~ Woken(w),
           Head(todo[u]).do \in {"find", "await", "wait"}, Head(todo[w]).do \in {"find", "await", "wait"},
           p[pos[u]].on = p[pos[w]].on
    PROVE  /\ pos[w] = pos[u]
           /\ \A b \in 1 .. Barriers(p, pos[u]) :
                  Len(todo[u]) = BarLeft(p, u, pos[u], b) => Len(todo[w]) = BarLeft(p, w, pos[u], b)
<1>1. PICK b \in 1 .. Barriers(p, pos[u]) : Len(todo[u]) = BarLeft(p, u, pos[u], b)
  BY AtBarrier
<1>2. PICK a \in 1 .. Barriers(p, pos[w]) : Len(todo[w]) = BarLeft(p, w, pos[w], a)
  BY AtBarrier
<1>3. ~ (pos[w] < pos[u])
  BY <1>2, NotBehind
<1>4. ~ (pos[u] < pos[w])
  BY <1>1, NotBehind
<1>5. pos[u] \in Int /\ pos[w] \in Int
  <2>1. pos[u] \in DOMAIN p /\ pos[w] \in DOMAIN p /\ DOMAIN p = 1 .. Len(p)
    BY Underway, ProgIs
  <2>. QED  BY <2>1
<1>6. pos[w] = pos[u]
  BY <1>3, <1>4, <1>5
<1>7. over[pos[u]] = a - 1
  BY <1>2, <1>6, NextBarrier
<1>8. ASSUME NEW c \in 1 .. Barriers(p, pos[u]), Len(todo[u]) = BarLeft(p, u, pos[u], c)
      PROVE  Len(todo[w]) = BarLeft(p, w, pos[u], c)
  <2>1. over[pos[u]] = c - 1
    BY <1>8, NextBarrier
  <2>2. c = a
    BY <1>7, <2>1
  <2>. QED  BY <1>2, <1>6, <2>2
<1>. QED  BY <1>6, <1>8

\* Whoever sleeps in the slot that u has looked up waits for the same barrier
\* as u does, and is another member of the team.
LEMMA SleepersMeet ==
    ASSUME NEW p, NEW ids, NEW left, NEW over, Coupled(p, ids, left, over),
           NEW u \in Units, NEW s \in TeamSlots, inside[u] = s, Entering(u),
           NEW w \in area.teams[s].barr.asleep
    PROVE  /\ w \in Mem(p, pos[u]) /\ w # u /\ w \in Units /\ pos[w] = pos[u]
           /\ \A b \in 1 .. Barriers(p, pos[u]) :
                  Len(todo[u]) = BarLeft(p, u, pos[u], b) => Len(todo[w]) = BarLeft(p, w, pos[u], b)
<1>1. w \in Units
  BY AreaType, ProgIs DEF AreaRec, BarrRec
<1>2. InsideOK(u) /\ InsideOK(w) /\ ~ Waiting(u) /\ todo[u] # <<>> /\ Head(todo[u]).do = "await"
  BY <1>1 DEF Coupled, Waiting, Entering
<1>3. u \notin area.teams[s].barr.asleep \union area.teams[s].barr.woken
  BY <1>2 DEF InsideOK
<1>4. /\ inside[w] = s /\ Waiting(w) /\ w \notin area.teams[s].barr.woken
      /\ todo[w] # <<>> /\ Head(todo[w]).do = "wait"
  BY <1>2 DEF InsideOK, Waiting
<1>5. area.teams[s].id = T(u) /\ area.teams[s].id = T(w)
  BY <1>2, <1>3, <1>4 DEF InsideOK
<1>6. ~ Woken(u) /\ ~ Woken(w)
  BY <1>3, <1>4 DEF Woken
<1>7. /\ pos[u] \in DOMAIN p /\ u \in Mem(p, pos[u]) /\ Live(p, ids, pos[u])
      /\ pos[w] \in DOMAIN p /\ w \in Mem(p, pos[w]) /\ Live(p, ids, pos[w])
      /\ Started(u) /\ Started(w)
  BY <1>1, <1>2, <1>4, Underway
<1>8. ~ Lost(u) /\ ~ Lost(w)
  <2>1. Head(Step("lost")).do = "lost"
    BY DEF Step
  <2>. QED  BY <1>2, <1>4, <2>1 DEF Lost
<1>9. T(u) = TeamId(ids, p[pos[u]].on) /\ p[pos[u]].on \in Teams(p, ids)
  BY <1>2, <1>6, <1>7, <1>8, LookUp
<1>10. T(w) = TeamId(ids, p[pos[w]].on) /\ p[pos[w]].on \in Teams(p, ids)
  BY <1>1, <1>4, <1>6, <1>7, <1>8, LookUp
<1>11. p[pos[u]].on = p[pos[w]].on
  <2>1. WellFormed(p) /\ IdsOK(p, ids, left)
    BY ProgIs DEF Coupled
  <2>. PICK c, d : c = p[pos[u]].on /\ d = p[pos[w]].on
    OBVIOUS
  <2>2. c \in Teams(p, ids) /\ d \in Teams(p, ids) /\ TeamId(ids, c) = TeamId(ids, d)
    BY <1>5, <1>9, <1>10
  <2>3. c = d
    BY ONLY <2>1, <2>2, TeamIdsDiffer
  <2>. QED  BY <2>3
<1>12. w \in Mem(p, pos[u]) /\ w # u
  BY <1>3, <1>7, <1>11 DEF Mem
<1>. QED  BY <1>1, <1>2, <1>4, <1>6, <1>11, <1>12, SameBarrier

\* The unit that completes a barrier is the last of its team.
LEMMA AllAsleep ==
    ASSUME NEW p, NEW ids, NEW left, NEW over, Coupled(p, ids, left, over),
           NEW u \in Units, NEW s \in TeamSlots, inside[u] = s, Entering(u), Completes(area, s)
    PROVE  \A w \in Mem(p, pos[u]) : w # u => w \in area.teams[s].barr.asleep
<1>. DEFINE S == area.teams[s].barr.asleep
            M == Mem(p, pos[u])
<1>1. InsideOK(u) /\ ~ Waiting(u) /\ todo[u] # <<>> /\ Head(todo[u]).do = "await"
  BY DEF Coupled, Waiting, Entering
<1>2. u \notin S /\ u \notin area.teams[s].barr.woken /\ area.teams[s].inuse /\ area.teams[s].id = T(u)
  BY <1>1 DEF InsideOK
<1>3. ~ Woken(u) /\ ~ Lost(u)
  <2>1. Head(Step("lost")).do = "lost"
    BY DEF Step
  <2>. QED  BY <1>1, <1>2, <2>1 DEF Lost, Woken
<1>4. pos[u] \in DOMAIN p /\ u \in M /\ Live(p, ids, pos[u]) /\ Started(u) /\ IsTeam(M)
  BY <1>1, Underway, ProgIs, ProgramTeams
<1>5. area.teams[s].barr.procs = Cardinality(M)
  <2>. PICK c, r : c = p[pos[u]].on /\ r = SlotFor(area, T(u))
    OBVIOUS
  <2>1. T(u) = TeamId(ids, c) /\ M = TeamMembers(p, c) /\ SlotIs(p, ids, c, r)
    BY <1>1, <1>3, <1>4, LookUp
  <2>2. s \in SlotsOf(area, TeamId(ids, c))
    BY <1>2, <2>1 DEF SlotsOf
  <2>3. r = s
    BY <2>1, <2>2, Zenon DEF SlotIs
  <2>. QED  BY <2>1, <2>3 DEF SlotIs
<1>6. S \subseteq M \ {u}
  BY <1>2, SleepersMeet
<1>. HIDE DEF S, M
<1>7. IsFiniteSet(M) /\ IsFiniteSet(M \ {u}) /\ Cardinality(M \ {u}) = Cardinality(M) - 1
      /\ Cardinality(M) \in Nat
  BY <1>4, FS_RemoveElement, FS_CardinalityType DEF IsTeam
<1>8. IsFiniteSet(S) /\ Cardinality(S) \in Nat
  BY <1>6, <1>7, FS_Subset, FS_CardinalityType
<1>9. Cardinality(S) + 1 >= Cardinality(M)
  BY <1>5 DEF Completes, S
<1>10. S = M \ {u}
  <2>1. Cardinality(S) >= Cardinality(M \ {u})
    BY <1>7, <1>8, <1>9
  <2>2. Cardinality(S) <= Cardinality(M \ {u}) /\ Cardinality(M \ {u}) \in Nat
    BY <1>6, <1>7, FS_Subset, FS_CardinalityType
  <2>3. Cardinality(S) = Cardinality(M \ {u})
    BY <1>8, <2>1, <2>2
  <2>. QED  BY <1>6, <1>7, <2>3, FS_Subset
<1>11. \A w \in M : w # u => w \in S
  BY <1>10
<1>. QED  BY <1>11 DEF S, M

\* What a unit that has looked up its slot knows.
LEMMA ArriveAt ==
    ASSUME NEW p, NEW ids, NEW left, NEW over, Coupled(p, ids, left, over), NEW u \in Units, Arrive(u)
    PROVE  \E s \in TeamSlots :
           /\ inside[u] = s /\ s # NoSlot /\ NoSlot \notin TeamSlots /\ Entering(u) /\ ~ Waiting(u)
           /\ todo[u] # <<>> /\ Head(todo[u]).do = "await"
           /\ \A r \in TeamSlots : u \notin area.teams[r].barr.asleep \union area.teams[r].barr.woken
           /\ area.teams[s].inuse /\ area.teams[s].id = T(u) /\ ~ Woken(u)
           /\ area.teams[s].barr \in BarrRec
<1>. PICK s : s = inside[u]
  OBVIOUS
<1>1. s \in TeamSlots /\ Head(todo[u]).do = "await"
  BY DEF Arrive, ValidSlot
<1>2. s # NoSlot /\ NoSlot \notin TeamSlots
  BY <1>1, SizesAssumption DEF NoSlot, TeamSlots
<1>3. InsideOK(u)
  BY DEF Coupled
<1>4. todo[u] # <<>> /\ Entering(u) /\ ~ Waiting(u)
  BY <1>1, <1>2, <1>3 DEF InsideOK, Waiting, Entering
<1>5. \A r \in TeamSlots : u \notin area.teams[r].barr.asleep \union area.teams[r].barr.woken
  BY <1>3, <1>4 DEF InsideOK
<1>6. area.teams[s].inuse /\ area.teams[s].id = T(u) /\ ~ Woken(u)
  BY <1>1, <1>3, <1>5 DEF InsideOK, Woken
<1>7. area.teams[s].barr \in BarrRec
  BY <1>1, ProgIs, AreaType DEF AreaRec
<1>. QED  BY <1>1, <1>2, <1>4, <1>5, <1>6, <1>7

\* A step that changes one barrier of the area.
LEMMA BarrChanged ==
    ASSUME NEW p, NEW ids, NEW left, NEW over, Coupled(p, ids, left, over),
           NEW s \in TeamSlots, NEW x \in BarrRec, area' = WithBarr(area, s, x)
    PROVE  /\ area' \in AreaRec /\ area'.teams[s].barr = x /\ area'.nextid = area.nextid /\ area'.locks = area.locks
           /\ \A r \in TeamSlots : area'.teams[r].inuse = area.teams[r].inuse /\ area'.teams[r].id = area.teams[r].id
           /\ \A r \in TeamSlots : r # s => area'.teams[r].barr = area.teams[r].barr
<1>. PICK a, b : a = area /\ b = area'
  OBVIOUS
<1>1. a \in AreaRec /\ b = WithBarr(a, s, x)
  BY ProgIs, AreaType
<1>2. /\ b \in AreaRec /\ b.teams[s].barr = x /\ b.nextid = a.nextid /\ b.locks = a.locks
      /\ \A r \in TeamSlots : b.teams[r].inuse = a.teams[r].inuse /\ b.teams[r].id = a.teams[r].id
      /\ \A r \in TeamSlots : r # s => b.teams[r].barr = a.teams[r].barr
  BY ONLY <1>1, s \in TeamSlots, x \in BarrRec, NewBarr
<1>. QED  BY <1>2

\* A unit goes to sleep in a barrier.
LEMMA SleepStep ==
    ASSUME NEW p, NEW ids, NEW left, NEW over, Coupled(p, ids, left, over), NEW u \in Units, Arrive(u),
           ~ Completes(area, inside[u])
    PROVE  Coupled(p, ids, left, over)'
<1>1. /\ WellFormed(p) /\ DOMAIN p = 1 .. Len(p) /\ Len(p) \in Nat /\ TypesOK(p) /\ prog = p
      /\ GhostsOK(p, ids, left, over) /\ p \in Programs
  BY ProgIs
<1>2. PICK s \in TeamSlots :
           /\ inside[u] = s /\ s # NoSlot /\ NoSlot \notin TeamSlots /\ Entering(u) /\ ~ Waiting(u)
           /\ todo[u] # <<>> /\ Head(todo[u]).do = "await"
           /\ \A r \in TeamSlots : u \notin area.teams[r].barr.asleep \union area.teams[r].barr.woken
           /\ area.teams[s].inuse /\ area.teams[s].id = T(u) /\ ~ Woken(u)
           /\ area.teams[s].barr \in BarrRec
  BY ArriveAt
<1>. PICK x : x = [area.teams[s].barr EXCEPT !.asleep = area.teams[s].barr.asleep \union {u}]
  OBVIOUS
<1>. PICK q : q = Step("wait") \o Tail(todo[u])
  OBVIOUS
<1>3. /\ area' = WithBarr(area, s, x) /\ inside' = inside /\ todo' = [todo EXCEPT ![u] = q]
      /\ UNCHANGED <<prog, holder, pipes, teams, handle, pos, buf>>
  <2>1. area' = WithBarr(area, s, x)
    BY <1>2 DEF Arrive, Await, WithBarr
  <2>2. inside' = inside
    BY <1>1, <1>2 DEF Arrive, TypesOK
  <2>3. todo' = [todo EXCEPT ![u] = q] /\ UNCHANGED <<prog, holder, pipes, teams, handle, pos, buf>>
    BY <1>2 DEF Arrive
  <2>. QED  BY <2>1, <2>2, <2>3
<1>4. /\ x \in BarrRec /\ x.procs = area.teams[s].barr.procs /\ x.woken = area.teams[s].barr.woken
      /\ x.asleep = area.teams[s].barr.asleep \union {u}
  BY <1>2, Zenon DEF BarrRec
<1>5. /\ area' \in AreaRec /\ area'.teams[s].barr = x /\ area'.nextid = area.nextid /\ area'.locks = area.locks
      /\ \A r \in TeamSlots : area'.teams[r].inuse = area.teams[r].inuse /\ area'.teams[r].id = area.teams[r].id
      /\ \A r \in TeamSlots : r # s => area'.teams[r].barr = area.teams[r].barr
  BY <1>3, <1>4, BarrChanged, Zenon
<1>6. SameTeams
  BY <1>3, <1>4, <1>5, Zenon DEF SameTeams
<1>7. \A r \in TeamSlots : ~ area.teams[r].inuse => area'.teams[r].barr.asleep = {}
  <2>1. \A r \in TeamSlots : ~ area.teams[r].inuse => area.teams[r].barr.asleep = {}
    BY DEF Coupled, AreaOK
  <2>2. \A r \in TeamSlots : ~ area.teams[r].inuse => area'.teams[r].barr = area.teams[r].barr
    BY <1>2, <1>5
  <2>. QED  BY <2>1, <2>2
<1>8. /\ todo[u] \in Seq(StepRec) /\ left[u][pos[u]] = Len(todo[u])
      /\ Len(todo[u]) \in 1 .. Size(p, u, pos[u]) /\ StepAt(p, u, pos[u], Len(todo[u])).do = "find"
      /\ pos[u] \in DOMAIN p /\ u \in Mem(p, pos[u])
  BY <1>2, Underway, AtBarrier
<1>9. /\ q \in Seq(StepRec) /\ Len(q) = Len(todo[u]) /\ q # <<>> /\ Head(q).do = "wait"
      /\ LeftOf(q, Len(todo[u])) = Head(q)
      /\ \A k \in 1 .. Len(todo[u]) - 1 : LeftOf(q, k) = LeftOf(todo[u], k)
  <2>1. "wait" \in StepNames
    BY DEF StepNames
  <2>. PICK y : y = todo[u]
    OBVIOUS
  <2>2. y \in Seq(StepRec) /\ y # <<>> /\ q = Step("wait") \o Tail(y)
    BY <1>2, <1>8
  <2>3. /\ q \in Seq(StepRec) /\ Len(q) = Len(y) /\ q # <<>> /\ Head(q).do = "wait"
        /\ LeftOf(q, Len(y)) = Head(q)
        /\ \A k \in 1 .. Len(y) - 1 : LeftOf(q, k) = LeftOf(y, k)
    BY ONLY <2>1, <2>2, LeftOfReplaced
  <2>. QED  BY <2>3
<1>10. Remains(p, u, pos[u], q)
  <2>. PICK i, l : i = pos[u] /\ l = Len(todo[u])
    OBVIOUS
  <2>1. /\ \A k \in 1 .. l : SameStep(LeftOf(todo[u], k), StepAt(p, u, i, k))
        /\ \A k \in 1 .. l - 1 : LeftOf(todo[u], k).do \notin {"await", "wait", "lost"}
    BY <1>2 DEF Coupled, PlaceOK
  <2>2. Size(p, u, i) \in Nat /\ l \in Nat
    BY <1>1, <1>8, SizeType, SMTT(30)
  <2>3. \A k \in 1 .. l : SameStep(LeftOf(q, k), StepAt(p, u, i, k))
    <3>1. \A k \in 1 .. l : k = l \/ k \in 1 .. l - 1
      BY <2>2
    <3>2. SameStep(LeftOf(q, l), StepAt(p, u, i, l))
      BY <1>8, <1>9 DEF SameStep
    <3>. QED  BY <1>9, <2>1, <3>1, <3>2
  <2>. QED  BY <1>8, <1>9, <2>1, <2>2, <2>3 DEF Remains
<1>11. todo \in [Units -> Seq(StepRec)]
  BY <1>1 DEF TypesOK
<1>12. todo' \in [Units -> Seq(StepRec)] /\ todo'[u] = q /\ \A w \in Units : w # u => todo'[w] = todo[w]
  BY <1>3, <1>9, <1>11, Zenon
<1>13. TypesOK(p)'
  BY <1>1, <1>3, <1>5, <1>12, Zenon DEF TypesOK, AreaRec, BarrRec
<1>14. \A w \in Units : PlaceOK(p, ids, left, w)'
  <2>1. /\ WellFormed(p) /\ TypesOK(p) /\ GhostsOK(p, ids, left, over) /\ todo[u] # <<>>
        /\ Remains(p, u, pos[u], q) /\ todo'[u] = q /\ left[u][pos[u]] = Len(q)
        /\ \A w \in Units : PlaceOK(p, ids, left, w)
        /\ \A w \in Units : w # u => todo'[w] = todo[w]
        /\ pos' = pos /\ \A w \in Units : buf'[w].op = buf[w].op
        /\ \A w \in Units, j \in DOMAIN p : left[w][j] # left[w][j] => w = u /\ j = pos[u]
    BY <1>1, <1>2, <1>3, <1>8, <1>9, <1>10, <1>12, Zenon DEF Coupled
  <2>. QED  BY ONLY <2>1, u \in Units, PlaceChange
<1>15. \A w \in Units : ~ Lost(w)' => ~ Lost(w)
  <2>1. Head(Step("lost")).do = "lost"
    BY DEF Step
  <2>. QED  BY <1>2, <1>12, <2>1 DEF Lost
<1>16. Waiting(u)' /\ ~ Entering(u)'
  BY <1>9, <1>12 DEF Waiting, Entering
<1>17. ASSUME NEW w \in Units PROVE InsideOK(w)'
  <2>1. InsideOK(w) /\ T(w)' = T(w)
    BY <1>3 DEF Coupled, T, TeamOf
  <2>2. CASE w # u
    <3>1. inside'[w] = inside[w] /\ (Waiting(w)' <=> Waiting(w)) /\ (Entering(w)' <=> Entering(w))
      BY <1>3, <1>12, <2>2 DEF Waiting, Entering
    <3>2. \A r \in TeamSlots : /\ w \in area'.teams[r].barr.asleep <=> w \in area.teams[r].barr.asleep
                               /\ w \in area'.teams[r].barr.woken <=> w \in area.teams[r].barr.woken
      BY ONLY <1>4, <1>5, <2>2, Zenon
    <3>3. /\ (inside'[w] # NoSlot) <=> (Waiting(w)' \/ Entering(w)')
          /\ \A r \in TeamSlots :
               /\ (w \in area'.teams[r].barr.asleep \union area'.teams[r].barr.woken) => (inside'[w] = r /\ Waiting(w)')
               /\ ~(w \in area'.teams[r].barr.asleep /\ w \in area'.teams[r].barr.woken)
               /\ (inside'[w] = r /\ Waiting(w)') => (w \in area'.teams[r].barr.asleep \union area'.teams[r].barr.woken)
               /\ (inside'[w] = r /\ w \notin area'.teams[r].barr.woken) =>
                      (area'.teams[r].inuse /\ area'.teams[r].id = T(w)')
      BY <1>5, <2>1, <3>1, <3>2, SMTT(30) DEF InsideOK
    <3>. QED  BY <3>3, Zenon DEF InsideOK
  <2>3. CASE w = u
    <3>1. /\ u \in area'.teams[s].barr.asleep
          /\ \A r \in TeamSlots : u \notin area'.teams[r].barr.woken
          /\ \A r \in TeamSlots : r # s => u \notin area'.teams[r].barr.asleep
      <4>1. /\ u \in area'.teams[s].barr.asleep /\ u \notin area'.teams[s].barr.woken
        BY <1>2, <1>4, <1>5
      <4>2. ASSUME NEW r \in TeamSlots, r # s
            PROVE  u \notin area'.teams[r].barr.woken /\ u \notin area'.teams[r].barr.asleep
        BY <1>2, <1>5, <4>2
      <4>. QED  BY <4>1, <4>2
    <3>2. inside'[u] = s /\ area'.teams[s].inuse /\ area'.teams[s].id = T(u)'
      BY <1>2, <1>3, <1>5, <2>1, <2>3, Zenon
    <3>3. /\ (inside'[u] # NoSlot) <=> (Waiting(u)' \/ Entering(u)')
          /\ \A r \in TeamSlots :
               /\ (u \in area'.teams[r].barr.asleep \union area'.teams[r].barr.woken) => (inside'[u] = r /\ Waiting(u)')
               /\ ~(u \in area'.teams[r].barr.asleep /\ u \in area'.teams[r].barr.woken)
               /\ (inside'[u] = r /\ Waiting(u)') => (u \in area'.teams[r].barr.asleep \union area'.teams[r].barr.woken)
               /\ (inside'[u] = r /\ u \notin area'.teams[r].barr.woken) =>
                      (area'.teams[r].inuse /\ area'.teams[r].id = T(u)')
      BY <1>2, <1>16, <3>1, <3>2
    <3>. QED  BY <2>3, <3>3 DEF InsideOK
  <2>. QED  BY <2>2, <2>3
<1>18. \A w \in Units : Woken(w)' <=> Woken(w)
  <2>1. \A r \in TeamSlots : area'.teams[r].barr.woken = area.teams[r].barr.woken
    BY <1>4, <1>5
  <2>2. \A w \in Units : inside'[w] = inside[w] /\ (inside[w] # NoSlot => inside[w] \in TeamSlots)
    BY <1>1, <1>3 DEF TypesOK
  <2>. QED  BY <2>1, <2>2 DEF Woken
<1>19. \A w \in Units : OverOK(p, ids, left, over, w)'
  BY <1>3, <1>18 DEF Coupled, OverOK
<1>20. \A w \in Units : todo'[w] # <<>> => todo[w] # <<>>
  BY <1>2, <1>12
<1>21. /\ IdsOK(p, ids, left) /\ CountOK(p, ids, left)' /\ \A w \in Units : HandlesOK(p, ids, left, w)'
       /\ \A w \in Units : BufOK(p, ids, left, w)'
       /\ AreaOK(p, ids, left)' /\ \A w \in Units : TableOK(p, ids, left, w)'
       /\ PipesOK(p, ids, left)' /\ ReceivedOK(p, left) /\ QueuesOK(p, ids, left)' /\ LocksOK(p, ids, left)'
  BY <1>6, <1>7, <1>15, <1>20, BarrierSame
<1>. QED  BY <1>1, <1>13, <1>14, <1>17, <1>19, <1>21 DEF Coupled

\* The last unit arrives: the barrier is over for all members.
LEMMA OverNext ==
    ASSUME NEW p, NEW ids, NEW left, NEW over, Coupled(p, ids, left, over),
           NEW u \in Units, todo[u] # <<>>, pos' = pos,
           NEW b0 \in 1 .. Barriers(p, pos[u]), Len(todo[u]) = BarLeft(p, u, pos[u], b0),
           \A w \in Mem(p, pos[u]) : w # u =>
               /\ w \in Units /\ pos[w] = pos[u] /\ todo[w] # <<>> /\ Len(todo[w]) = BarLeft(p, w, pos[u], b0)
               /\ Woken(w)',
           ~ Woken(u)',
           \A w \in Units : pos[w] # pos[u] => (Woken(w)' <=> Woken(w)),
           NEW next, Stepped(p, left, next, u, pos[u], "find", Len(todo[u])),
           NEW over2, over2 = [over EXCEPT ![pos[u]] = b0]
    PROVE  \A w \in Units : OverOK(p, ids, next, over2, w)'
<1>1. /\ WellFormed(p) /\ over \in [DOMAIN p -> Nat]
  BY ProgIs DEF GhostsOK
<1>. PICK i : i = pos[u]
  OBVIOUS
<1>2. i \in DOMAIN p /\ u \in Mem(p, i) /\ left[u][i] = Len(todo[u])
  BY Underway
<1>3. /\ over2[i] = b0 /\ \A j \in DOMAIN p : j # i => over2[j] = over[j]
  BY <1>1, <1>2
<1>. SUFFICES ASSUME NEW w \in Units, NEW j \in DOMAIN p, w \in Mem(p, j), Live(p, ids, j),
                     NEW b \in 1 .. Barriers(p, j)
              PROVE  (b <= over2[j]) <=> (\/ next[w][j] < BarLeft(p, w, j, b)
                                          \/ (j = pos[w] /\ next[w][j] = BarLeft(p, w, j, b) /\ Woken(w)'))
  BY DEF OverOK
<1>4. OverOK(p, ids, left, over, w)
  BY DEF Coupled
<1>5. CASE j # i
  <2>1. next[w][j] = left[w][j] /\ over2[j] = over[j]
    BY <1>3, <1>5 DEF Stepped
  <2>2. j = pos[w] => (Woken(w)' <=> Woken(w))
    BY <1>5
  <2>. QED  BY <1>4, <2>1, <2>2 DEF OverOK
<1>6. CASE j = i /\ w # u
  <2>1. /\ pos[w] = i /\ todo[w] # <<>> /\ Len(todo[w]) = BarLeft(p, w, i, b0) /\ Woken(w)'
    BY <1>6
  <2>2. left[w][i] = BarLeft(p, w, i, b0) /\ next[w][i] = left[w][i]
    BY <1>2, <1>6, <2>1, Underway DEF Stepped
  <2>3. /\ \A a, c \in 1 .. Barriers(p, i) : a < c => BarLeft(p, w, i, c) < BarLeft(p, w, i, a)
        /\ \A a \in 1 .. Barriers(p, i) : BarLeft(p, w, i, a) \in Nat
        /\ Barriers(p, i) \in 0 .. 3
    BY <1>1, <1>6, CallIs, SizeType DEF CallOK, BarrierOK
  <2>4. b \in 1 .. Barriers(p, i) /\ b0 \in 1 .. Barriers(p, i) /\ b \in Int /\ b0 \in Int
    BY <1>6
  <2>5. CASE b <= b0
    <3>1. b = b0 \/ b < b0
      BY <2>4, <2>5
    <3>2. b < b0 => next[w][i] < BarLeft(p, w, i, b)
      BY <2>2, <2>3, <2>4
    <3>. QED  BY <1>3, <1>6, <2>1, <2>2, <2>5, <3>1, <3>2
  <2>6. CASE ~ (b <= b0)
    <3>1. b0 < b
      BY <2>4, <2>6
    <3>2. BarLeft(p, w, i, b) < BarLeft(p, w, i, b0)
      BY <2>3, <2>4, <3>1
    <3>3. BarLeft(p, w, i, b) \in Nat /\ BarLeft(p, w, i, b0) \in Nat
      BY <2>3, <2>4
    <3>4. ~ (next[w][i] < BarLeft(p, w, i, b)) /\ next[w][i] # BarLeft(p, w, i, b)
      BY <2>2, <3>2, <3>3
    <3>. QED  BY <1>3, <1>6, <2>6, <3>4
  <2>. QED  BY <2>5, <2>6
<1>7. CASE j = i /\ w = u
  <2>1. next[u][i] = BarLeft(p, u, i, b0) - 1
    BY DEF Stepped
  <2>3. /\ \A a, c \in 1 .. Barriers(p, i) : a < c => BarLeft(p, u, i, c) < BarLeft(p, u, i, a)
        /\ \A a \in 1 .. Barriers(p, i) : BarLeft(p, u, i, a) \in Nat
        /\ Barriers(p, i) \in 0 .. 3
    BY <1>1, <1>2, CallIs, SizeType DEF CallOK, BarrierOK
  <2>4. b \in 1 .. Barriers(p, i) /\ b0 \in 1 .. Barriers(p, i) /\ b \in Int /\ b0 \in Int
    BY <1>7
  <2>2. BarLeft(p, u, i, b) \in Nat /\ BarLeft(p, u, i, b0) \in Nat
    BY <2>3, <2>4
  <2>5. CASE b <= b0
    <3>1. b = b0 \/ b < b0
      BY <2>4, <2>5
    <3>2. b < b0 => BarLeft(p, u, i, b0) < BarLeft(p, u, i, b)
      BY <2>3, <2>4
    <3>3. next[u][i] < BarLeft(p, u, i, b)
      BY <2>1, <2>2, <3>1, <3>2
    <3>. QED  BY <1>3, <1>7, <2>5, <3>3
  <2>6. CASE ~ (b <= b0)
    <3>1. b0 < b
      BY <2>4, <2>6
    <3>2. BarLeft(p, u, i, b) < BarLeft(p, u, i, b0)
      BY <2>3, <2>4, <3>1
    <3>3. ~ (next[u][i] < BarLeft(p, u, i, b))
      BY <2>1, <2>2, <3>2
    <3>. QED  BY <1>3, <1>7, <2>6, <3>3
  <2>. QED  BY <2>5, <2>6
<1>. QED  BY <1>5, <1>6, <1>7

\* sysv_barrier_await for the last to arrive: it wakes the others and goes on.
LEMMA CompleteStep ==
    ASSUME NEW p, NEW ids, NEW left, NEW over, Coupled(p, ids, left, over), NEW u \in Units, Arrive(u),
           Completes(area, inside[u])
    PROVE  \E next, over2 : Coupled(p, ids, next, over2)'
<1>1. /\ WellFormed(p) /\ DOMAIN p = 1 .. Len(p) /\ Len(p) \in Nat /\ TypesOK(p) /\ prog = p
      /\ GhostsOK(p, ids, left, over) /\ p \in Programs
  BY ProgIs
<1>2. PICK s \in TeamSlots :
           /\ inside[u] = s /\ s # NoSlot /\ NoSlot \notin TeamSlots /\ Entering(u) /\ ~ Waiting(u)
           /\ todo[u] # <<>> /\ Head(todo[u]).do = "await"
           /\ \A r \in TeamSlots : u \notin area.teams[r].barr.asleep \union area.teams[r].barr.woken
           /\ area.teams[s].inuse /\ area.teams[s].id = T(u) /\ ~ Woken(u)
           /\ area.teams[s].barr \in BarrRec
  BY ArriveAt
<1>. PICK x : x = [area.teams[s].barr EXCEPT !.asleep = {},
                                             !.woken = area.teams[s].barr.woken \union area.teams[s].barr.asleep]
  OBVIOUS
<1>. PICK next : next = [left EXCEPT ![u][pos[u]] = @ - 1]
  OBVIOUS
<1>3. /\ area' = WithBarr(area, s, x) /\ inside' = [inside EXCEPT ![u] = NoSlot]
      /\ todo' = [todo EXCEPT ![u] = Tail(@)]
      /\ UNCHANGED <<prog, holder, pipes, teams, handle, pos, buf>>
  <2>1. area' = WithBarr(area, s, x)
    BY <1>2 DEF Arrive, Await, WithBarr
  <2>2. inside' = [inside EXCEPT ![u] = NoSlot]
    BY <1>2 DEF Arrive
  <2>3. /\ todo' = [todo EXCEPT ![u] = <<>> \o Tail(todo[u])]
        /\ UNCHANGED <<prog, holder, pipes, teams, handle, pos, buf>>
    BY <1>2 DEF Arrive
  <2>4. <<>> \o Tail(todo[u]) = Tail(todo[u])
    <3>1. Tail(todo[u]) \in Seq(StepRec)
      BY <1>2, RemainsTail DEF Remains
    <3>. QED  BY <3>1, ConcatEmptySeq
  <2>. QED  BY <2>1, <2>2, <2>3, <2>4
<1>4. /\ x \in BarrRec /\ x.procs = area.teams[s].barr.procs /\ x.asleep = {}
      /\ x.woken = area.teams[s].barr.woken \union area.teams[s].barr.asleep
  BY <1>2 DEF BarrRec
<1>5. /\ area' \in AreaRec /\ area'.teams[s].barr = x /\ area'.nextid = area.nextid /\ area'.locks = area.locks
      /\ \A r \in TeamSlots : area'.teams[r].inuse = area.teams[r].inuse /\ area'.teams[r].id = area.teams[r].id
      /\ \A r \in TeamSlots : r # s => area'.teams[r].barr = area.teams[r].barr
  BY <1>3, <1>4, BarrChanged, ZenonT(30)
<1>6. SameTeams
  BY ONLY <1>3, <1>4, <1>5, Zenon DEF SameTeams
<1>7. \A r \in TeamSlots : ~ area.teams[r].inuse => area'.teams[r].barr.asleep = {}
  <2>1. \A r \in TeamSlots : ~ area.teams[r].inuse => area.teams[r].barr.asleep = {}
    BY DEF Coupled, AreaOK
  <2>2. \A r \in TeamSlots : ~ area.teams[r].inuse => area'.teams[r].barr = area.teams[r].barr
    BY <1>2, <1>5
  <2>. QED  BY <2>1, <2>2
<1>8. /\ Stepped(p, left, next, u, pos[u], "find", Len(todo[u]))
      /\ \A w \in Units : w # u => todo'[w] = todo[w]
      /\ ~ Waiting(u)' /\ ~ Entering(u)'
  BY <1>2, <1>3, PassStep, Zenon
<1>9. inside'[u] = NoSlot /\ \A w \in Units : w # u => inside'[w] = inside[w]
  BY <1>1, <1>3 DEF TypesOK
<1>10. ASSUME NEW w \in Units PROVE InsideOK(w)'
  <2>1. InsideOK(w) /\ T(w)' = T(w)
    BY <1>3 DEF Coupled, T, TeamOf
  <2>2. CASE w # u
    <3>1. inside'[w] = inside[w] /\ (Waiting(w)' <=> Waiting(w)) /\ (Entering(w)' <=> Entering(w))
      BY <1>8, <1>9, <2>2 DEF Waiting, Entering
    <3>2. /\ w \notin area'.teams[s].barr.asleep
          /\ (w \in area'.teams[s].barr.woken) <=> (w \in area.teams[s].barr.asleep \union area.teams[s].barr.woken)
      BY <1>4, <1>5
    <3>3. ASSUME NEW r \in TeamSlots
          PROVE  /\ (w \in area'.teams[r].barr.asleep \union area'.teams[r].barr.woken)
                       <=> (w \in area.teams[r].barr.asleep \union area.teams[r].barr.woken)
                 /\ ~(w \in area'.teams[r].barr.asleep /\ w \in area'.teams[r].barr.woken)
                 /\ (w \notin area'.teams[r].barr.woken) => (w \notin area.teams[r].barr.woken)
      <4>1. CASE r = s
        BY <3>2, <4>1
      <4>2. CASE r # s
        BY ONLY <1>5, <2>1, <4>2, Zenon DEF InsideOK
      <4>. QED  BY <4>1, <4>2, Zenon
    <3>4. /\ (inside'[w] # NoSlot) <=> (Waiting(w)' \/ Entering(w)')
          /\ \A r \in TeamSlots :
               /\ (w \in area'.teams[r].barr.asleep \union area'.teams[r].barr.woken) => (inside'[w] = r /\ Waiting(w)')
               /\ ~(w \in area'.teams[r].barr.asleep /\ w \in area'.teams[r].barr.woken)
               /\ (inside'[w] = r /\ Waiting(w)') => (w \in area'.teams[r].barr.asleep \union area'.teams[r].barr.woken)
               /\ (inside'[w] = r /\ w \notin area'.teams[r].barr.woken) =>
                      (area'.teams[r].inuse /\ area'.teams[r].id = T(w)')
      BY ONLY <1>5, <2>1, <3>1, <3>3 DEF InsideOK
    <3>. QED  BY <3>4, Zenon DEF InsideOK
  <2>3. CASE w = u
    <3>1. ASSUME NEW r \in TeamSlots PROVE u \notin area'.teams[r].barr.asleep \union area'.teams[r].barr.woken
      <4>1. CASE r = s
        BY <1>2, <1>4, <1>5, <4>1, Zenon
      <4>2. CASE r # s
        BY <1>2, <1>5, <4>2
      <4>. QED  BY <4>1, <4>2
    <3>. QED  BY <1>2, <1>8, <1>9, <2>3, <3>1, Zenon DEF InsideOK
  <2>. QED  BY <2>2, <2>3
<1>11. pos[u] \in DOMAIN p /\ u \in Mem(p, pos[u])
  BY <1>2, Underway
<1>12. PICK b0 \in 1 .. Barriers(p, pos[u]) : Len(todo[u]) = BarLeft(p, u, pos[u], b0)
  BY <1>2, AtBarrier
<1>13. ASSUME NEW w \in Mem(p, pos[u]), w # u
       PROVE  /\ w \in Units /\ pos[w] = pos[u] /\ todo[w] # <<>> /\ Len(todo[w]) = BarLeft(p, w, pos[u], b0)
              /\ Woken(w)'
  <2>1. w \in area.teams[s].barr.asleep
    BY <1>2, <1>13, AllAsleep
  <2>2. w \in Units /\ pos[w] = pos[u] /\ Len(todo[w]) = BarLeft(p, w, pos[u], b0)
    BY <1>2, <1>12, <2>1, SleepersMeet
  <2>3. inside[w] = s /\ todo[w] # <<>>
    BY <2>1, <2>2 DEF Coupled, InsideOK, Waiting
  <2>4. inside'[w] = s /\ w \in area'.teams[s].barr.woken
    BY <1>4, <1>5, <1>9, <1>13, <2>1, <2>2, <2>3
  <2>. QED  BY <1>2, <2>2, <2>3, <2>4 DEF Woken
<1>14. ~ Woken(u)'
  BY <1>9 DEF Woken
<1>15. ASSUME NEW w \in Units, pos[w] # pos[u] PROVE Woken(w)' <=> Woken(w)
  <2>1. w \notin area.teams[s].barr.asleep
    BY <1>2, <1>15, SleepersMeet
  <2>2. inside'[w] = inside[w] /\ inside[w] \in TeamSlots \union {NoSlot}
    BY <1>1, <1>9, <1>15 DEF TypesOK
  <2>3. ASSUME NEW r \in TeamSlots
        PROVE  (w \in area'.teams[r].barr.woken) <=> (w \in area.teams[r].barr.woken)
    <3>1. CASE r = s
      BY <1>4, <1>5, <2>1, <3>1
    <3>2. CASE r # s
      BY <1>5, <3>2
    <3>. QED  BY <3>1, <3>2
  <2>. QED  BY <2>2, <2>3 DEF Woken
<1>. PICK over2 : over2 = [over EXCEPT ![pos[u]] = b0]
  OBVIOUS
<1>16. \A w \in Units : OverOK(p, ids, next, over2, w)'
  <2>1. todo[u] # <<>> /\ pos' = pos
    BY <1>2, <1>3
  <2>2. Stepped(p, left, next, u, pos[u], "find", Len(todo[u]))
    BY <1>8
  <2>3. over2 = [over EXCEPT ![pos[u]] = b0]
    OBVIOUS
  <2>. QED  BY ONLY Coupled(p, ids, left, over), u \in Units, b0 \in 1 .. Barriers(p, pos[u]), <1>12, <1>13, <1>14, <1>15, <2>1, <2>2, <2>3, OverNext
<1>17. over2 \in [DOMAIN p -> Nat]
  BY <1>1, <1>11 DEF GhostsOK
<1>18. Coupled(p, ids, next, over2)'
  BY <1>2, <1>3, <1>5, <1>6, <1>7, <1>10, <1>16, <1>17, PassCoupled, Zenon
<1>. QED  BY <1>18

\* Where a unit stands that has a step to do outside a barrier.
Standing(p, ids, left, u, i, c, l) ==
    /\ i = pos[u] /\ l = Len(todo[u]) /\ c = p[i].on /\ todo[u] # <<>> /\ Started(u) /\ buf[u].op = i
    /\ i \in DOMAIN p /\ i \in Nat /\ u \in Mem(p, i) /\ Live(p, ids, i) /\ left[u][i] = l
    /\ l \in 1 .. Size(p, u, i) /\ l \in Nat /\ Size(p, u, i) \in Nat
    /\ Head(todo[u]) = StepAt(p, u, i, l) /\ StepAt(p, u, i, l) \in StepRec
    /\ inside[u] = NoSlot /\ ~ Woken(u) /\ ~ Lost(u)
    /\ Mem(p, i) = TeamMembers(p, c) /\ c \in Teams(p, ids)
    /\ T(u) = TeamId(ids, c) /\ Entry(u, T(u)) = EntryOf(p, ids, c, u)
    /\ SizeOf(u, T(u)) = Cardinality(Mem(p, i))
    /\ c # 0 => ~ Deleted(p, left, c) /\ left[u][c] = 0

\* A unit that is to do a step other than a barrier's is where its call says.
LEMMA AtStands ==
    ASSUME NEW p, NEW ids, NEW left, NEW over, Coupled(p, ids, left, over),
           NEW u \in Units, NEW do, At(u, do), do \notin {"await", "wait", "lost"}
    PROVE  /\ Standing(p, ids, left, u, pos[u], p[pos[u]].on, Len(todo[u]))
           /\ StepAt(p, u, pos[u], Len(todo[u])).do = do
<1>. PICK i, l : i = pos[u] /\ l = Len(todo[u])
  OBVIOUS
<1>1. WellFormed(p) /\ DOMAIN p = 1 .. Len(p) /\ Len(p) \in Nat
  BY ProgIs
<1>2. /\ todo[u] # <<>> /\ inside[u] = NoSlot /\ Head(todo[u]) = StepAt(p, u, i, l)
      /\ StepAt(p, u, i, l).do = do /\ ~ Woken(u) /\ ~ Lost(u)
  BY AtStep
<1>3. /\ i \in DOMAIN p /\ u \in Mem(p, i) /\ Started(u) /\ Live(p, ids, i)
      /\ left[u][i] = l /\ l \in 1 .. Size(p, u, i) /\ todo[u] \in Seq(StepRec)
  BY <1>2, Underway
<1>4. Size(p, u, i) \in Nat /\ i \in Nat /\ l \in Nat
  BY <1>1, <1>3, SizeType
<1>5. Head(todo[u]) \in StepRec
  BY <1>2, <1>3
<1>6. /\ T(u) = TeamId(ids, p[i].on) /\ p[i].on \in Teams(p, ids) /\ Mem(p, i) = TeamMembers(p, p[i].on)
      /\ p[i].on # 0 => ~ Deleted(p, left, p[i].on) /\ left[u][p[i].on] = 0
      /\ Entry(u, T(u)) = EntryOf(p, ids, p[i].on, u) /\ SizeOf(u, T(u)) = Cardinality(Mem(p, i))
  BY <1>2, <1>3, LookUp
<1>7. buf[u].op = i
  BY <1>3 DEF Started
<1>. QED  BY <1>2, <1>3, <1>4, <1>5, <1>6, <1>7 DEF Standing

\* The FIFOs of a team to each of its members are there as long as one of them
\* makes a call on it that does not destroy it.
LEMMA FifosThere ==
    ASSUME NEW p, NEW ids, NEW left, NEW over, Coupled(p, ids, left, over),
           NEW u \in Units, NEW i, NEW c, NEW l, Standing(p, ids, left, u, i, c, l),
           p[i].kind # "destroy", NEW w \in Mem(p, i)
    PROVE  There(p, left, c, w)
<1>1. WellFormed(p)
  BY ProgIs
<1>2. CASE c = 0
  BY <1>1, <1>2, WorldStays DEF There
<1>3. CASE c # 0
  <2>1. /\ c \in DOMAIN p /\ p[c].kind = "create" /\ ids[c] # NoTeam /\ Live(p, ids, c)
        /\ Mem(p, i) = For(p, c) /\ i \in DOMAIN p /\ u \in For(p, c) /\ w \in For(p, c)
    BY <1>3 DEF Standing, Teams, TeamMembers, For, Coupled, IdsOK
  <2>2. w \in Units /\ u \in Mem(p, c) /\ w \in Mem(p, c)
    BY <1>1, <2>1, ProgramTeams DEF IsTeam
  <2>3. left[w][c] < 2
    <3>1. 2 \in 1 .. Barriers(p, c) /\ BarLeft(p, u, c, 2) = 1 /\ BarLeft(p, w, c, 2) = 1
      BY <2>1 DEF Barriers, BarLeft
    <3>2. left[u][c] = 0
      BY <1>3 DEF Standing
    <3>3. 2 <= over[c]
      BY <2>1, <2>2, <3>1, <3>2, OverIs
    <3>4. left[w][c] < 1 \/ left[w][c] = 1
      BY <2>1, <2>2, <3>1, <3>3, OverIs
    <3>. QED  BY <2>1, <2>2, <3>4, LeftIs
  <2>4. ASSUME NEW d \in DOMAIN p, p[d].kind = "destroy", p[d].on = c
        PROVE  ~ (left[w][d] < BarLeft(p, w, d, 2) + 1)
    <3>1. i <= d /\ d # i /\ d \in Nat /\ i \in Nat /\ i = pos[u]
      <4>1. i <= d
        BY <1>1, <1>3, <2>1, <2>4, ProgramOn DEF Standing
      <4>2. DOMAIN p = 1 .. Len(p)
        BY ProgIs
      <4>. QED  BY <2>1, <2>4, <4>1, <4>2 DEF Standing
    <3>2. d > pos[u]
      BY <3>1
    <3>3. u \in Mem(p, d) /\ w \in Mem(p, d) /\ Live(p, ids, d)
      BY <1>3, <2>1, <2>4 DEF Standing, Mem, Live
    <3>4. left[u][d] = Size(p, u, d)
      BY <3>2, <3>3, LeftIs
    <3>5. /\ Barriers(p, d) = 2 /\ Size(p, u, d) = BarLeft(p, u, d, 1) /\ Size(p, u, d) \in Nat
          /\ BarLeft(p, w, d, 1) = BarLeft(p, w, d, 2) + 2 /\ BarLeft(p, w, d, 2) \in Nat
      BY <1>1, <2>4, <3>3, DestroyPlaces
    <3>6. 1 \in 1 .. Barriers(p, d)
      BY <3>5
    <3>7. ~ (1 <= over[d])
      <4>1. ~ (left[u][d] < BarLeft(p, u, d, 1)) /\ d # pos[u]
        BY <3>1, <3>4, <3>5
      <4>. QED  BY <3>3, <3>6, <4>1, OverIs
    <3>8. ~ (left[w][d] < BarLeft(p, w, d, 1))
      BY <2>2, <3>3, <3>6, <3>7, OverIs
    <3>9. left[w][d] \in Nat
      BY <2>2, <3>3, LeftIs
    <3>. QED  BY <3>5, <3>8, <3>9
  <2>. QED  BY <2>3, <2>4 DEF There, Unlinked
<1>. QED  BY <1>2, <1>3

\* The FIFO of a unit that is to receive, and the message it will find there.
LEMMA ReceiverFinds ==
    ASSUME NEW p, NEW ids, NEW left, NEW over, Coupled(p, ids, left, over),
           NEW u \in Units, NEW i, NEW c, NEW l, Standing(p, ids, left, u, i, c, l), StepAt(p, u, i, l).do = "recv"
    PROVE  \E v \in TeamMembers(p, c) :
               /\ v \in Units /\ v \in Mem(p, i) /\ ReceivesFrom(p, u, i, l, v)
               /\ PipeFrom(u, Head(todo[u]).peer) = Pipe(p, ids, c, v, u)
               /\ Pipe(p, ids, c, v, u) \in DOMAIN pipes
               /\ QueueOK(p, ids, left, c, v, u, pipes[Pipe(p, ids, c, v, u)].queue)
<1>1. WellFormed(p) /\ i \in DOMAIN p /\ u \in Mem(p, i) /\ l \in 1 .. Size(p, u, i) /\ Mem(p, i) = TeamMembers(p, c)
  BY ProgIs DEF Standing
<1>2. PICK v \in Mem(p, i) : ReceivesFrom(p, u, i, l, v)
  BY <1>1, TalkPeers
<1>3. PipeFrom(u, Head(todo[u]).peer) = Pipe(p, ids, c, v, u)
  BY <1>1, <1>2 DEF Standing, PipeFrom, Pipe, EntryOf, ReceivesFrom
<1>4. p[i].kind # "destroy"
  BY <1>1, <1>2, TalkPairs DEF Pair
<1>5. There(p, left, c, u)
  BY <1>1, <1>4, FifosThere
<1>6. Pipe(p, ids, c, v, u) \in DOMAIN pipes
  BY <1>1, <1>5 DEF Standing, Coupled, PipesOK
<1>7. QueueOK(p, ids, left, c, v, u, pipes[Pipe(p, ids, c, v, u)].queue)
  BY <1>1, <1>6 DEF Standing, Coupled, QueuesOK
<1>. QED  BY <1>1, <1>2, <1>3, <1>6, <1>7, TeamMembersUnits

\* The FIFO of a unit that is to send.
LEMMA SenderFinds ==
    ASSUME NEW p, NEW ids, NEW left, NEW over, Coupled(p, ids, left, over),
           NEW u \in Units, NEW i, NEW c, NEW l, Standing(p, ids, left, u, i, c, l), StepAt(p, u, i, l).do = "send"
    PROVE  \E w \in TeamMembers(p, c) :
               /\ w \in Units /\ w \in Mem(p, i) /\ SendsTo(p, u, i, l, w)
               /\ PipeTo(u, Head(todo[u]).peer) = Pipe(p, ids, c, u, w)
               /\ Pipe(p, ids, c, u, w) \in DOMAIN pipes
               /\ QueueOK(p, ids, left, c, u, w, pipes[Pipe(p, ids, c, u, w)].queue)
<1>1. WellFormed(p) /\ i \in DOMAIN p /\ u \in Mem(p, i) /\ l \in 1 .. Size(p, u, i) /\ Mem(p, i) = TeamMembers(p, c)
  BY ProgIs DEF Standing
<1>2. PICK w \in Mem(p, i) : SendsTo(p, u, i, l, w)
  BY <1>1, TalkPeers
<1>3. PipeTo(u, Head(todo[u]).peer) = Pipe(p, ids, c, u, w)
  BY <1>1, <1>2 DEF Standing, PipeTo, Pipe, EntryOf, SendsTo
<1>4. p[i].kind # "destroy"
  BY <1>1, <1>2, TalkPairs DEF Pair
<1>5. There(p, left, c, w)
  BY <1>1, <1>4, FifosThere
<1>6. Pipe(p, ids, c, u, w) \in DOMAIN pipes
  BY <1>1, <1>5 DEF Standing, Coupled, PipesOK
<1>7. QueueOK(p, ids, left, c, u, w, pipes[Pipe(p, ids, c, u, w)].queue)
  BY <1>1, <1>6 DEF Standing, Coupled, QueuesOK
<1>. QED  BY <1>1, <1>2, <1>3, <1>6, <1>7, TeamMembersUnits

\* The first message in the FIFO of a unit that is to receive is of the call it is in.
LEMMA HeadIsOurs ==
    ASSUME NEW p, NEW ids, NEW left, NEW over, Coupled(p, ids, left, over),
           NEW u \in Units, NEW i, NEW c, NEW l, Standing(p, ids, left, u, i, c, l),
           NEW v \in Units, v \in Mem(p, i), ReceivesFrom(p, u, i, l, v),
           NEW q \in Seq(Message), q # <<>>, QueueOK(p, ids, left, c, v, u, q)
    PROVE  /\ Head(q).op = i /\ Sent(p, left, v, i, u) /\ MessageOK(p, ids, i, u, Head(q))
           /\ Head(q) \in Message
<1>1. /\ WellFormed(p) /\ i \in DOMAIN p /\ i \in Nat /\ u \in Mem(p, i) /\ l \in 1 .. Size(p, u, i)
      /\ c = p[i].on /\ left[u][i] = l /\ l \in Nat /\ i = pos[u] /\ Live(p, ids, i)
  BY ProgIs DEF Standing
<1>2. 1 \in DOMAIN q /\ Head(q) = q[1] /\ Head(q) \in Message /\ DOMAIN q = 1 .. Len(q) /\ Len(q) \in Nat
  OBVIOUS
<1>. PICK j : j = q[1].op
  OBVIOUS
<1>3. /\ j \in DOMAIN p /\ p[j].on = c /\ Sent(p, left, v, j, u) /\ ~ Got(p, left, u, j, v)
      /\ MessageOK(p, ids, j, u, q[1])
  BY <1>2 DEF QueueOK
<1>4. /\ u \in Mem(p, j) /\ v \in Mem(p, j) /\ Live(p, ids, j) /\ DOMAIN p = 1 .. Len(p) /\ j \in Nat
  BY <1>1, <1>3, ProgIs DEF Mem, Live
<1>5. ~ (j < i)
  <2>. SUFFICES ASSUME j < i PROVE FALSE
    OBVIOUS
  <2>1. Pair(p, j, v, u)
    BY <1>1, <1>3, <1>4, TalkPairs DEF Sent
  <2>2. PICK k \in 1 .. Size(p, u, j) : ReceivesFrom(p, u, j, k, v)
    BY <1>1, <1>3, <1>4, <2>1, TalkPairs
  <2>3. left[u][j] = 0
    BY <1>1, <1>3, <1>4, LeftIs
  <2>. QED  BY <1>3, <2>2, <2>3 DEF Got
<1>6. ~ Got(p, left, u, i, v)
  <2>1. ASSUME NEW k \in 1 .. Size(p, u, i), l < k, ReceivesFrom(p, u, i, k, v) PROVE FALSE
    <3>1. k = l
      BY <1>1, <2>1, TalkPairs
    <3>. QED  BY <1>1, <2>1, <3>1
  <2>. QED  BY <1>1, <2>1 DEF Got
<1>7. ~ (i < j)
  <2>. SUFFICES ASSUME i < j PROVE FALSE
    OBVIOUS
  <2>1. PICK k \in 1 .. Size(p, v, j) : left[v][j] < k
    BY <1>3 DEF Sent
  <2>2. ~ (j > pos[v])
    <3>1. j > pos[v] => left[v][j] = Size(p, v, j)
      BY <1>3, <1>4, LeftIs
    <3>2. Size(p, v, j) \in Nat
      BY <1>1, <1>3, <1>4, SizeType
    <3>. QED  BY <2>1, <3>1, <3>2
  <2>3. pos[v] \in Nat
    BY <1>3, <1>4, LeftIs
  <2>4. left[v][i] = 0
    BY <1>1, <1>4, <2>2, <2>3, LeftIs, SMTT(30)
  <2>5. Pair(p, i, v, u)
    BY <1>1, TalkPairs
  <2>6. PICK m \in 1 .. Size(p, v, i) : SendsTo(p, v, i, m, u)
    BY <1>1, <2>5, TalkPairs
  <2>7. Sent(p, left, v, i, u)
    BY <2>4, <2>6 DEF Sent
  <2>8. PICK k2 \in DOMAIN q : q[k2].op = i
    BY <1>1, <1>6, <2>7 DEF QueueOK
  <2>9. 1 < k2
    BY <1>1, <1>2, <1>4, <2>8
  <2>10. j < i
    BY <1>2, <2>8, <2>9 DEF QueueOK
  <2>. QED  BY <1>5, <2>10
<1>8. j = i
  BY <1>1, <1>4, <1>5, <1>7
<1>. QED  BY <1>2, <1>3, <1>8

\* A queue from which the first message has been taken.
LEMMA QueueTail ==
    ASSUME NEW p, NEW ids, NEW left, NEW c, NEW v, NEW u, NEW q \in Seq(Message), q # <<>>,
           QueueOK(p, ids, left, c, v, u, q), NEW i, Head(q).op = i, NEW next,
           \A j \in DOMAIN p : p[j].on = c =>
               /\ Sent(p, next, v, j, u) <=> Sent(p, left, v, j, u)
               /\ Got(p, next, u, j, v) <=> (Got(p, left, u, j, v) \/ j = i)
    PROVE  QueueOK(p, ids, next, c, v, u, Tail(q)) /\ Tail(q) \in Seq(Message)
<1>. PICK t : t = Tail(q)
  OBVIOUS
<1>1. /\ t \in Seq(Message) /\ Len(q) \in Nat /\ Len(q) >= 1 /\ DOMAIN q = 1 .. Len(q)
      /\ DOMAIN t = 1 .. Len(q) - 1 /\ Head(q) = q[1] /\ 1 \in DOMAIN q
      /\ \A k \in 1 .. Len(q) - 1 : t[k] = q[k + 1] /\ k + 1 \in DOMAIN q /\ 1 < k + 1
  <2>1. Len(q) \in Nat /\ Len(q) >= 1 /\ Tail(q) \in Seq(Message) /\ Len(Tail(q)) = Len(q) - 1
    OBVIOUS
  <2>2. \A k \in 1 .. Len(q) - 1 : Tail(q)[k] = q[k + 1]
    OBVIOUS
  <2>3. DOMAIN q = 1 .. Len(q) /\ Head(q) = q[1] /\ DOMAIN Tail(q) = 1 .. Len(Tail(q))
    BY <2>1
  <2>4. /\ \A k \in 1 .. Len(q) - 1 : k + 1 \in 1 .. Len(q) /\ 1 < k + 1
        /\ 1 \in 1 .. Len(q)
    BY <2>1
  <2>. QED  BY <2>1, <2>2, <2>3, <2>4
<1>2. /\ \A j, k \in DOMAIN q : j < k => q[j].op < q[k].op
      /\ \A k \in DOMAIN q : q[k].op \in Nat
  <2>1. \A k \in DOMAIN q : q[k] \in Message
    OBVIOUS
  <2>2. \A k \in DOMAIN q : q[k].op \in Nat
    BY <2>1 DEF Message
  <2>. QED  BY <2>2 DEF QueueOK
<1>3. \A j, k \in DOMAIN t : j < k => t[j].op < t[k].op
  <2>. SUFFICES ASSUME NEW j \in DOMAIN t, NEW k \in DOMAIN t, j < k PROVE t[j].op < t[k].op
    OBVIOUS
  <2>1. j + 1 < k + 1
    BY <1>1
  <2>. QED  BY <1>1, <1>2, <2>1
<1>4. ASSUME NEW k \in DOMAIN t
      PROVE  /\ t[k].op \in DOMAIN p /\ p[t[k].op].on = c
             /\ Sent(p, next, v, t[k].op, u) /\ ~ Got(p, next, u, t[k].op, v)
             /\ MessageOK(p, ids, t[k].op, u, t[k])
  <2>1. q[1].op < q[k + 1].op
    BY <1>1, <1>2
  <2>2. t[k] = q[k + 1] /\ k + 1 \in DOMAIN q /\ t[k].op # i
    BY <1>1, <1>2, <2>1
  <2>. QED  BY <2>2 DEF QueueOK
<1>5. ASSUME NEW j \in DOMAIN p, p[j].on = c, Sent(p, next, v, j, u), ~ Got(p, next, u, j, v)
      PROVE  \E k \in DOMAIN t : t[k].op = j
  <2>1. PICK k \in DOMAIN q : q[k].op = j
    BY <1>5 DEF QueueOK
  <2>2. k # 1
    BY <1>1, <1>5, <2>1
  <2>. PICK m : m = k - 1
    OBVIOUS
  <2>3. m \in DOMAIN t /\ m + 1 = k
    BY <1>1, <2>2
  <2>. QED  BY <1>1, <2>1, <2>3
<1>6. QueueOK(p, ids, next, c, v, u, t)
  BY <1>3, <1>4, <1>5 DEF QueueOK
<1>. QED  BY <1>1, <1>6

\* A queue to which a message has been added.
LEMMA QueueAppend ==
    ASSUME NEW p, NEW ids, NEW left, NEW c, NEW v, NEW u, NEW q \in Seq(Message),
           QueueOK(p, ids, left, c, v, u, q), NEW m \in Message, m.op \in DOMAIN p, p[m.op].on = c,
           MessageOK(p, ids, m.op, u, m), \A k \in DOMAIN q : q[k].op < m.op,
           NEW next,
           \A j \in DOMAIN p : p[j].on = c =>
               /\ Sent(p, next, v, j, u) <=> (Sent(p, left, v, j, u) \/ j = m.op)
               /\ Got(p, next, u, j, v) <=> Got(p, left, u, j, v),
           ~ Got(p, left, u, m.op, v)
    PROVE  QueueOK(p, ids, next, c, v, u, Append(q, m)) /\ Append(q, m) \in Seq(Message)
<1>. PICK t : t = Append(q, m)
  OBVIOUS
<1>1. /\ t \in Seq(Message) /\ Len(q) \in Nat /\ DOMAIN q = 1 .. Len(q) /\ DOMAIN t = 1 .. Len(q) + 1
      /\ t[Len(q) + 1] = m /\ \A k \in 1 .. Len(q) : t[k] = q[k]
  BY AppendProperties
<1>2. \A k \in DOMAIN t : (k \in DOMAIN q /\ t[k] = q[k]) \/ (k = Len(q) + 1 /\ t[k] = m)
  BY <1>1
<1>3. \A j, k \in DOMAIN t : j < k => t[j].op < t[k].op
  <2>. SUFFICES ASSUME NEW j \in DOMAIN t, NEW k \in DOMAIN t, j < k PROVE t[j].op < t[k].op
    OBVIOUS
  <2>1. j \in DOMAIN q
    BY <1>1
  <2>2. CASE k \in DOMAIN q
    BY <1>1, <2>1, <2>2 DEF QueueOK
  <2>3. CASE k = Len(q) + 1
    BY <1>1, <2>1, <2>3
  <2>. QED  BY <1>2, <2>2, <2>3
<1>4. ASSUME NEW k \in DOMAIN t
      PROVE  /\ t[k].op \in DOMAIN p /\ p[t[k].op].on = c
             /\ Sent(p, next, v, t[k].op, u) /\ ~ Got(p, next, u, t[k].op, v)
             /\ MessageOK(p, ids, t[k].op, u, t[k])
  <2>1. CASE k \in DOMAIN q /\ t[k] = q[k]
    BY <2>1 DEF QueueOK
  <2>2. CASE t[k] = m
    BY <2>2
  <2>. QED  BY <1>2, <2>1, <2>2
<1>5. ASSUME NEW j \in DOMAIN p, p[j].on = c, Sent(p, next, v, j, u), ~ Got(p, next, u, j, v)
      PROVE  \E k \in DOMAIN t : t[k].op = j
  <2>1. CASE j = m.op
    BY <1>1, <2>1
  <2>2. CASE j # m.op
    <3>1. PICK k \in DOMAIN q : q[k].op = j
      BY <1>5, <2>2 DEF QueueOK
    <3>. QED  BY <1>1, <3>1
  <2>. QED  BY <2>1, <2>2
<1>6. QueueOK(p, ids, next, c, v, u, t)
  BY <1>3, <1>4, <1>5 DEF QueueOK
<1>. QED  BY <1>1, <1>6

\* The barriers after a step outside them.
LEMMA PlainInside ==
    ASSUME NEW p, NEW ids, NEW left, NEW over, Coupled(p, ids, left, over),
           NEW u \in Units, inside[u] = NoSlot, inside' = inside, pos' = pos, prog' = prog,
           \A w \in Units : (Waiting(w)' <=> Waiting(w)) /\ (Entering(w)' <=> Entering(w)),
           \A w \in Units : w # u => handle'[w] = handle[w],
           \A s \in TeamSlots : /\ area'.teams[s].barr.asleep = area.teams[s].barr.asleep
                                /\ area'.teams[s].barr.woken = area.teams[s].barr.woken,
           \A w \in Units : \A s \in TeamSlots :
               (inside[w] = s /\ w \notin area.teams[s].barr.woken) =>
                   /\ area'.teams[s].inuse = area.teams[s].inuse
                   /\ area'.teams[s].id = area.teams[s].id
    PROVE  \A w \in Units : InsideOK(w)'
<1>1. NoSlot \notin TeamSlots
  BY SizesAssumption DEF NoSlot, TeamSlots
<1>2. \A w \in Units : w # u => T(w)' = T(w)
  BY DEF T, TeamOf
<1>3. \A w \in Units : \A s \in TeamSlots : inside[w] = s => T(w)' = T(w)
  BY <1>1, <1>2
<1>4. \A w \in Units : InsideOK(w)
  BY DEF Coupled
<1>5. \A w \in Units : \A s \in TeamSlots :
               (inside[w] = s /\ w \notin area.teams[s].barr.woken) =>
                   /\ area'.teams[s].inuse = area.teams[s].inuse
                   /\ area'.teams[s].id = area.teams[s].id /\ T(w)' = T(w)
  BY <1>3
<1>6. /\ inside' = inside
      /\ \A w \in Units : (Waiting(w)' <=> Waiting(w)) /\ (Entering(w)' <=> Entering(w))
      /\ \A s \in TeamSlots : /\ area'.teams[s].barr.asleep = area.teams[s].barr.asleep
                              /\ area'.teams[s].barr.woken = area.teams[s].barr.woken
  OBVIOUS
<1>. QED  BY ONLY <1>4, <1>5, <1>6, InsideFrame

\* What a step that leaves the shared area alone leaves as it was.
LEMMA AreaParts ==
    ASSUME NEW p, NEW ids, NEW left, NEW over, Coupled(p, ids, left, over),
           NEW u \in Units, NEW do, At(u, do), do \notin {"find", "await", "wait", "lost"},
           Advance(u) \/ Forward(p, u), UNCHANGED <<prog, area, pos, inside>>, \A w \in Units : w # u => handle'[w] = handle[w],
           \A w \in Units : buf'[w].op = buf[w].op, do \in {"newteam", "takelock"} => ~ Few(p),
           NEW next, next = [left EXCEPT ![u][pos[u]] = @ - 1]
    PROVE  /\ Stepped(p, left, next, u, pos[u], do, Len(todo[u])) /\ GhostsOK(p, ids, next, over)
           /\ \A w \in Units : PlaceOK(p, ids, next, w)' /\ OverOK(p, ids, next, over, w)' /\ InsideOK(w)'
           /\ IdsOK(p, ids, next) /\ CountOK(p, ids, next)' /\ AreaOK(p, ids, next)' /\ LocksOK(p, ids, next)'
           /\ \A w \in Units : (todo'[w] # <<>> => todo[w] # <<>>) /\ (w # u => todo'[w] = todo[w])
           /\ \A w \in Units : ~ Lost(w)' => ~ Lost(w)
           /\ todo' \in [Units -> Seq(StepRec)]
<1>1. WellFormed(p) /\ GhostsOK(p, ids, left, over)
  BY ProgIs
<1>2. /\ Stepped(p, left, next, u, pos[u], do, Len(todo[u])) /\ GhostsOK(p, ids, next, over)
      /\ \A w \in Units : PlaceOK(p, ids, next, w)' /\ OverOK(p, ids, next, over, w)'
      /\ \A w \in Units : (Waiting(w)' <=> Waiting(w)) /\ (Entering(w)' <=> Entering(w))
      /\ \A w \in Units : ~ Lost(w)' => ~ Lost(w)
      /\ \A w \in Units : (todo'[w] # <<>> => todo[w] # <<>>) /\ (w # u => todo'[w] = todo[w])
      /\ todo' \in [Units -> Seq(StepRec)]
  <2>1. /\ Coupled(p, ids, left, over) /\ At(u, do) /\ do \notin {"find", "await", "wait", "lost"}
        /\ (Advance(u) \/ Forward(p, u)) /\ pos' = pos /\ prog' = prog /\ inside' = inside /\ \A w \in Units : buf'[w].op = buf[w].op
        /\ \A s \in TeamSlots : area'.teams[s].barr.woken = area.teams[s].barr.woken
        /\ next = [left EXCEPT ![u][pos[u]] = @ - 1] /\ GhostsOK(p, ids, left, over)
        /\ \A w \in Units : PlaceOK(p, ids, left, w) /\ OverOK(p, ids, left, over, w)
    BY <1>1 DEF Coupled
  <2>. QED  BY ONLY <2>1, u \in Units, PlainStep
<1>. PICK i, l : i = pos[u] /\ l = Len(todo[u])
  OBVIOUS
<1>3. Stepped(p, left, next, u, i, do, l)
  BY <1>2
<1>4. \A w \in Units : InsideOK(w)'
  <2>1. inside[u] = NoSlot
    BY DEF At
  <2>2. /\ inside' = inside /\ pos' = pos /\ prog' = prog /\ \A w \in Units : w # u => handle'[w] = handle[w]
        /\ \A s \in TeamSlots : /\ area'.teams[s].barr.asleep = area.teams[s].barr.asleep
                                /\ area'.teams[s].barr.woken = area.teams[s].barr.woken
        /\ \A w \in Units : \A s \in TeamSlots :
               (inside[w] = s /\ w \notin area.teams[s].barr.woken) =>
                   /\ area'.teams[s].inuse = area.teams[s].inuse
                   /\ area'.teams[s].id = area.teams[s].id
    OBVIOUS
  <2>. QED  BY ONLY Coupled(p, ids, left, over), u \in Units, <1>2, <2>1, <2>2, PlainInside
<1>5. IdsOK(p, ids, next)
  BY <1>3, IdsStep DEF Coupled
<1>6. CountOK(p, ids, next)'
  BY <1>1, <1>3, CountStep DEF Coupled
<1>7. AreaOK(p, ids, next)'
  <2>1. AreaOK(p, ids, left) /\ area' = area
    BY DEF Coupled
  <2>2. /\ area'.nextid = area.nextid
        /\ \A s \in TeamSlots : /\ area'.teams[s].inuse = area.teams[s].inuse
                                /\ area'.teams[s].id = area.teams[s].id
                                /\ area'.teams[s].barr.procs = area.teams[s].barr.procs
                                /\ ~ area.teams[s].inuse => area'.teams[s].barr.asleep = {}
    BY <2>1 DEF AreaOK
  <2>. QED  BY ONLY <1>3, <2>1, <2>2, AreaStep
<1>8. LocksOK(p, ids, next)'
  BY <1>3, LocksStep DEF Coupled
<1>. QED  BY <1>2, <1>4, <1>5, <1>6, <1>7, <1>8

\* What a step that leaves the tables of the units alone leaves as it was there.
LEMMA TableParts ==
    ASSUME NEW p, NEW ids, NEW left, NEW over, Coupled(p, ids, left, over),
           NEW next, NEW u, NEW i, NEW do, NEW l, Stepped(p, left, next, u, i, do, l),
           UNCHANGED <<area, teams>>, \A w \in Units : ~ Lost(w)' => ~ Lost(w),
           do = "init" => ids[i] = NoTeam
    PROVE  \A w \in Units : TableOK(p, ids, next, w)'
<1>1. /\ \A w \in Units : TableOK(p, ids, left, w)
      /\ \A s \in TeamSlots : /\ area'.teams[s].inuse => area.teams[s].inuse
                              /\ area'.teams[s].id = area.teams[s].id
      /\ \A w \in Units : ~ Lost(w)' => ~ Lost(w) /\ teams'[w] = teams[w]
      /\ Stepped(p, left, next, u, i, do, l) /\ (do = "init" => ids[i] = NoTeam)
  BY DEF Coupled
<1>. QED  BY ONLY <1>1, TableStep

\* What a send or a receive leaves as it was.
LEMMA TalkParts ==
    ASSUME NEW p, NEW ids, NEW left, NEW over, Coupled(p, ids, left, over),
           NEW u \in Units, NEW do \in {"send", "recv"}, At(u, do), Advance(u),
           UNCHANGED <<prog, area, holder, teams, handle, pos, inside>>,
           \A w \in Units : buf'[w].op = buf[w].op, DOMAIN pipes' = DOMAIN pipes,
           NEW next, next = [left EXCEPT ![u][pos[u]] = @ - 1]
    PROVE  /\ Stepped(p, left, next, u, pos[u], do, Len(todo[u])) /\ GhostsOK(p, ids, next, over)
           /\ \A w \in Units : PlaceOK(p, ids, next, w)' /\ OverOK(p, ids, next, over, w)' /\ InsideOK(w)'
           /\ IdsOK(p, ids, next) /\ CountOK(p, ids, next)' /\ \A w \in Units : HandlesOK(p, ids, next, w)'
           /\ AreaOK(p, ids, next)' /\ \A w \in Units : TableOK(p, ids, next, w)'
           /\ PipesOK(p, ids, next)' /\ LocksOK(p, ids, next)'
           /\ \A w \in Units : (todo'[w] # <<>> => todo[w] # <<>>) /\ (w # u => todo'[w] = todo[w])
           /\ todo' \in [Units -> Seq(StepRec)]
<1>1. WellFormed(p)
  BY ProgIs
<1>2. do \notin {"find", "await", "wait", "lost", "init", "setlock", "unlink"}
  OBVIOUS
<1>3. /\ Stepped(p, left, next, u, pos[u], do, Len(todo[u])) /\ GhostsOK(p, ids, next, over)
      /\ \A w \in Units : PlaceOK(p, ids, next, w)' /\ OverOK(p, ids, next, over, w)' /\ InsideOK(w)'
      /\ IdsOK(p, ids, next) /\ CountOK(p, ids, next)' /\ AreaOK(p, ids, next)' /\ LocksOK(p, ids, next)'
      /\ \A w \in Units : (todo'[w] # <<>> => todo[w] # <<>>) /\ (w # u => todo'[w] = todo[w])
      /\ \A w \in Units : ~ Lost(w)' => ~ Lost(w)
      /\ todo' \in [Units -> Seq(StepRec)]
  <2>1. /\ Coupled(p, ids, left, over) /\ At(u, do) /\ Advance(u) /\ next = [left EXCEPT ![u][pos[u]] = @ - 1]
        /\ UNCHANGED <<prog, area, pos, inside>> /\ \A w \in Units : w # u => handle'[w] = handle[w]
        /\ \A w \in Units : buf'[w].op = buf[w].op
    OBVIOUS
  <2>2. do \notin {"find", "await", "wait", "lost"} /\ (do \in {"newteam", "takelock"} => ~ Few(p))
    BY <1>2
  <2>. QED  BY <2>1, <2>2, u \in Units, AreaParts, ZenonT(30)
<1>. PICK i, l : i = pos[u] /\ l = Len(todo[u])
  OBVIOUS
<1>4. Stepped(p, left, next, u, i, do, l)
  BY <1>3
<1>5. \A w \in Units : HandlesOK(p, ids, next, w)'
  <2>1. handle' = handle /\ IdsOK(p, ids, left) /\ \A w \in Units : HandlesOK(p, ids, left, w)
    BY DEF Coupled
  <2>2. do \notin {"init", "setlock"}
    OBVIOUS
  <2>. QED  BY ONLY <1>4, <2>1, <2>2, HandlesStep
<1>6. \A w \in Units : TableOK(p, ids, next, w)'
  <2>1. Coupled(p, ids, left, over) /\ UNCHANGED <<area, teams>> /\ (do = "init" => ids[i] = NoTeam)
    BY <1>2
  <2>. QED  BY ONLY <1>3, <1>4, <2>1, TableParts
<1>7. PipesOK(p, ids, next)'
  <2>1. DOMAIN pipes' = DOMAIN pipes /\ area'.nextid = area.nextid /\ PipesOK(p, ids, left)
    BY DEF Coupled
  <2>2. do # "unlink" /\ (do = "init" => ids[i] = NoTeam)
    BY <1>2
  <2>. QED  BY ONLY <1>1, <1>4, <2>1, <2>2, PipesStep
<1>. QED  BY <1>3, <1>5, <1>6, <1>7

\* A change of the queue of one FIFO.
WithQueue(name, q) == [pipes EXCEPT ![name].queue = q]

\* The FIFOs when one of them has other contents.
LEMMA NewQueue ==
    ASSUME pipes \in [DOMAIN pipes -> [opened : BOOLEAN, queue : Seq(Message)]],
           NEW name \in DOMAIN pipes, NEW q \in Seq(Message), pipes' = WithQueue(name, q)
    PROVE  /\ pipes' \in [DOMAIN pipes -> [opened : BOOLEAN, queue : Seq(Message)]]
           /\ DOMAIN pipes' = DOMAIN pipes /\ pipes'[name].queue = q
           /\ \A x \in DOMAIN pipes : x # name => pipes'[x].queue = pipes[x].queue
  BY DEF WithQueue

\* Step l of u in i sends to nobody but w, then u is v, and receives from nobody
\* but v, then u is w; no queue but that of one FIFO has changed.
OnlyBetween(p, u, i, l, v, w) ==
    /\ \A x : x \in Mem(p, i) /\ SendsTo(p, u, i, l, x) => u = v /\ x = w
    /\ \A x : x \in Mem(p, i) /\ ReceivesFrom(p, u, i, l, x) => x = v /\ u = w

\* A step that changes the contents of one FIFO only.
OnlyQueue(name) ==
    /\ DOMAIN pipes' = DOMAIN pipes
    /\ \A x \in DOMAIN pipes : x # name => pipes'[x].queue = pipes[x].queue

\* The queues after one of them has changed.
LEMMA OtherQueues ==
    ASSUME NEW p, NEW ids, NEW left, WellFormed(p), IdsOK(p, ids, left), QueuesOK(p, ids, left), NEW next,
           NEW u, NEW i \in DOMAIN p, NEW do, NEW l, Stepped(p, left, next, u, i, do, l),
           NEW v, NEW w, NEW c, c = p[i].on, c \in Teams(p, ids), v \in TeamMembers(p, c), w \in TeamMembers(p, c),
           OnlyBetween(p, u, i, l, v, w), OnlyQueue(Pipe(p, ids, c, v, w)),
           QueueOK(p, ids, next, c, v, w, pipes'[Pipe(p, ids, c, v, w)].queue)
    PROVE  QueuesOK(p, ids, next)'
<1>1. WellFormed(p) /\ IdsOK(p, ids, left) /\ QueuesOK(p, ids, left)
  OBVIOUS
<1>2. ASSUME NEW e \in Teams(p, ids), NEW x \in TeamMembers(p, e), NEW y \in TeamMembers(p, e),
             Pipe(p, ids, e, x, y) \in DOMAIN pipes'
      PROVE  QueueOK(p, ids, next, e, x, y, pipes'[Pipe(p, ids, e, x, y)].queue)
  <2>1. CASE Pipe(p, ids, e, x, y) = Pipe(p, ids, c, v, w)
    <3>1. e = c /\ x = v /\ y = w
      BY <1>1, <2>1, PipeNamesDiffer
    <3>. QED  BY <3>1
  <2>2. CASE Pipe(p, ids, e, x, y) # Pipe(p, ids, c, v, w)
    <3>1. pipes'[Pipe(p, ids, e, x, y)].queue = pipes[Pipe(p, ids, e, x, y)].queue
      BY <1>2, <2>2 DEF OnlyQueue
    <3>2. QueueOK(p, ids, left, e, x, y, pipes[Pipe(p, ids, e, x, y)].queue)
      BY <1>1, <1>2 DEF QueuesOK, OnlyQueue
    <3>3. ~ (e = c /\ x = v /\ y = w)
      BY <2>2
    <3>4. ASSUME NEW j \in DOMAIN p, p[j].on = e
          PROVE  /\ Sent(p, next, x, j, y) <=> Sent(p, left, x, j, y)
                 /\ Got(p, next, y, j, x) <=> Got(p, left, y, j, x)
      <4>1. x \in Mem(p, j) /\ y \in Mem(p, j)
        BY <3>4 DEF Mem
      <4>2. ~ (x = u /\ j = i /\ SendsTo(p, u, i, l, y))
        BY <3>3, <3>4, <4>1 DEF OnlyBetween
      <4>3. ~ (y = u /\ j = i /\ ReceivesFrom(p, u, i, l, x))
        BY <3>3, <3>4, <4>1 DEF OnlyBetween
      <4>. QED  BY <4>1, <4>2, <4>3 DEF Stepped
    <3>5. QueueOK(p, ids, next, e, x, y, pipes[Pipe(p, ids, e, x, y)].queue)
      BY <3>2, <3>4, QueueSame
    <3>. QED  BY <3>1, <3>5
  <2>. QED  BY <2>1, <2>2
<1>. QED  BY <1>2 DEF QueuesOK
=============================================================================
