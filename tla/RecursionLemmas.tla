----------------------------- MODULE RecursionLemmas ------------------------------
(***************************************************************************)
(* Induction and recursive definitions, as first-order facts: the          *)
(* properties are sets and the steps of a recursion functions, so that     *)
(* the lemmas can be cited for the recursive functions of the models.      *)
(***************************************************************************)
EXTENDS Integers, Sequences, FiniteSetsExt, FiniteSetTheorems, TLAPS

\* A set of natural numbers has a least one, as they are well founded.
LEMMA LeastNumber ==
    ASSUME NEW S \in SUBSET Nat, S # {}
    PROVE  \E x \in S : \A y \in S : x <= y
<1>. DEFINE R == OpToRel(<, Nat)
<1>1. IsWellFoundedOn(R, Nat)
  BY NatLessThanWellFounded
<1>2. PICK x \in S : \A y \in S : ~ (<<y, x>> \in R)
  <2>. HIDE DEF R
  <2>. QED  BY <1>1, WFMin
<1>3. \A y \in S : ~ (y < x)
  BY <1>2 DEF OpToRel
<1>. QED  BY <1>3

\* Induction over the natural numbers: the least one outside S would have no
\* predecessor.
LEMMA NatSetInduction ==
    ASSUME NEW S, 0 \in S, \A n \in Nat : n \in S => n + 1 \in S
    PROVE  \A n \in Nat : n \in S
<1>. DEFINE Bad == Nat \ S
<1>. SUFFICES ASSUME Bad # {} PROVE FALSE
  OBVIOUS
<1>1. PICK x \in Bad : \A y \in Bad : x <= y
  <2>. Bad \in SUBSET Nat
    OBVIOUS
  <2>. HIDE DEF Bad
  <2>. QED  BY LeastNumber
<1>2. x - 1 \in Nat /\ x - 1 \notin Bad
  BY <1>1
<1>. QED  BY <1>2

\* Induction over a set along a measure of its elements.
LEMMA MeasureInduction ==
    ASSUME NEW D, NEW m \in [D -> Nat], NEW P,
           \A x \in D : (\A y \in D : m[y] < m[x] => y \in P) => x \in P
    PROVE  \A x \in D : x \in P
<1>. DEFINE S == {n \in Nat : \A x \in D : m[x] < n => x \in P}
<1>1. 0 \in S
  OBVIOUS
<1>2. \A n \in Nat : n \in S => n + 1 \in S
  <2>. SUFFICES ASSUME NEW n \in Nat, n \in S, NEW x \in D, m[x] < n + 1
                PROVE  x \in P
    OBVIOUS
  <2>1. \A y \in D : m[y] < m[x] => y \in P
    OBVIOUS
  <2>. QED  BY <2>1
<1>3. \A n \in Nat : n \in S
  <2>. HIDE DEF S
  <2>. QED  BY <1>1, <1>2, NatSetInduction
<1>4. \A x \in D : m[x] + 1 \in S
  BY <1>3
<1>. QED  BY <1>4

\* The value at x is val[x] where the recursion stops; elsewhere step makes it
\* from the value at next[x], which is in the domain and of smaller measure.
IsRecursion(D, V, M, m, Stop, val, next, step) ==
    /\ M \in Nat /\ m \in [D -> Nat] /\ step \in [D \X V -> V]
    /\ \A x \in D : m[x] < M
    /\ \A x \in D : IF x \in Stop THEN val[x] \in V
                    ELSE next[x] \in D /\ m[next[x]] < m[x]

Solves(f, E, Stop, val, next, step) ==
    \A x \in E : f[x] = IF x \in Stop THEN val[x] ELSE step[<<x, f[next[x]]>>]

\* Such a recursion has a solution.
LEMMA LinearRecursion ==
    ASSUME NEW D, NEW V, NEW M, NEW m, NEW Stop, NEW val, NEW next, NEW step,
           IsRecursion(D, V, M, m, Stop, val, next, step)
    PROVE  \E f \in [D -> V] : Solves(f, D, Stop, val, next, step)
<1>. DEFINE Below(n) == {x \in D : m[x] < n}
            Solved(f, n) == Solves(f, Below(n), Stop, val, next, step)
            S == {n \in Nat : \E f \in [Below(n) -> V] : Solved(f, n)}
<1>. USE DEF IsRecursion
<1>1. 0 \in S
  <2>. DEFINE f == [x \in Below(0) |-> val[x]]
  <2>1. Below(0) = {}
    OBVIOUS
  <2>2. f \in [Below(0) -> V] /\ Solved(f, 0)
    BY <2>1 DEF Solves
  <2>. QED  BY <2>2
<1>2. ASSUME NEW n \in Nat, n \in S PROVE n + 1 \in S
  <2>1. PICK f \in [Below(n) -> V] : Solved(f, n)
    BY <1>2
  <2>. DEFINE g == [x \in Below(n + 1) |->
                       IF x \in Stop THEN val[x] ELSE step[<<x, f[next[x]]>>]]
  <2>2. \A x \in Below(n + 1) : x \notin Stop => next[x] \in Below(n)
    OBVIOUS
  <2>3. Below(n) \subseteq Below(n + 1)
    OBVIOUS
  <2>4. \A x \in Below(n) : g[x] = f[x]
    BY <2>1, <2>3 DEF Solves
  <2>5. g \in [Below(n + 1) -> V]
    <3>. SUFFICES ASSUME NEW x \in Below(n + 1)
                  PROVE  (IF x \in Stop THEN val[x] ELSE step[<<x, f[next[x]]>>]) \in V
      OBVIOUS
    <3>1. CASE x \in Stop
      BY <3>1
    <3>2. CASE x \notin Stop
      <4>1. f[next[x]] \in V /\ x \in D
        BY <3>2, <2>2
      <4>. QED  BY <3>2, <4>1
    <3>. QED  BY <3>1, <3>2
  <2>6. Solved(g, n + 1)
    BY <2>2, <2>4 DEF Solves
  <2>7. \E h \in [Below(n + 1) -> V] : Solved(h, n + 1)
    <3>. HIDE DEF g, Below, Solved
    <3>. QED  BY <2>5, <2>6
  <2>8. n + 1 \in Nat
    OBVIOUS
  <2>. HIDE DEF Below, Solved
  <2>. QED  BY <2>7, <2>8
<1>3. M \in S
  <2>. HIDE DEF S
  <2>. QED  BY <1>1, <1>2, NatSetInduction
<1>4. Below(M) = D
  OBVIOUS
<1>. QED  BY <1>3, <1>4

-----------------------------------------------------------------------------
(* Sums over finite sets, as MapThenSumSet of FiniteSetsExt computes them.  *)

Chosen(s) == CHOOSE x \in s : TRUE

\* h holds the sum of f over every subset of S, taken element by element.
Sums(h, f, S) ==
    /\ f \in [S -> Int] /\ h \in [SUBSET S -> Int]
    /\ \A s \in SUBSET S :
           h[s] = IF s = {} THEN 0 ELSE f[Chosen(s)] + h[s \ {Chosen(s)}]

\* The cardinalities of the subsets of a finite set are a measure.
LEMMA SubsetMeasure ==
    ASSUME NEW S, IsFiniteSet(S)
    PROVE  /\ [s \in SUBSET S |-> Cardinality(s)] \in [SUBSET S -> Nat]
           /\ Cardinality(S) + 1 \in Nat
           /\ \A s \in SUBSET S : Cardinality(s) < Cardinality(S) + 1
           /\ \A s \in SUBSET S : \A x \in s :
                  /\ s \ {x} \in SUBSET S
                  /\ Cardinality(s \ {x}) < Cardinality(s)
<1>1. Cardinality(S) \in Nat
  BY FS_CardinalityType
<1>2. \A s \in SUBSET S : /\ IsFiniteSet(s)
                          /\ Cardinality(s) \in Nat
                          /\ Cardinality(s) <= Cardinality(S)
  BY FS_Subset, FS_CardinalityType
<1>3. ASSUME NEW s \in SUBSET S, NEW x \in s
      PROVE  s \ {x} \in SUBSET S /\ Cardinality(s \ {x}) < Cardinality(s)
  <2>1. Cardinality(s \ {x}) = Cardinality(s) - 1
    BY <1>2, FS_RemoveElement
  <2>. QED  BY <1>2, <2>1
<1>4. \A s \in SUBSET S : Cardinality(s) < Cardinality(S) + 1
  BY <1>1, <1>2
<1>. QED  BY <1>1, <1>2, <1>3, <1>4

\* The sums exist.
LEMMA SumsExist ==
    ASSUME NEW S, IsFiniteSet(S), NEW f \in [S -> Int]
    PROVE  \E h : Sums(h, f, S)
<1>. DEFINE D == SUBSET S
            m == [s \in D |-> Cardinality(s)]
            M == Cardinality(S) + 1
            val == [s \in {{}} |-> 0]
            next == [s \in D |-> s \ {Chosen(s)}]
            plus == [p \in D \X Int |->
                        IF p[1] = {} THEN 0 ELSE f[Chosen(p[1])] + p[2]]
<1>1. \A s \in D : s # {} => Chosen(s) \in s
  BY DEF Chosen
<1>2. M \in Nat /\ m \in [D -> Nat] /\ \A s \in D : m[s] < M
  BY SubsetMeasure
<1>3. plus \in [D \X Int -> Int]
  BY <1>1
<1>4. \A s \in D : IF s \in {{}} THEN val[s] \in Int
                   ELSE next[s] \in D /\ m[next[s]] < m[s]
  BY <1>1, SubsetMeasure
<1>5. IsRecursion(D, Int, M, m, {{}}, val, next, plus)
  BY <1>2, <1>3, <1>4 DEF IsRecursion
<1>6. PICK h \in [D -> Int] : Solves(h, D, {{}}, val, next, plus)
  <2>. HIDE DEF D, m, M, val, next, plus
  <2>. QED  BY <1>5, LinearRecursion
<1>7. ASSUME NEW s \in D
      PROVE  h[s] = IF s = {} THEN 0 ELSE f[Chosen(s)] + h[s \ {Chosen(s)}]
  <2>1. CASE s = {}
    BY <1>6, <2>1 DEF Solves
  <2>2. CASE s # {}
    <3>1. next[s] = s \ {Chosen(s)} /\ next[s] \in D
      OBVIOUS
    <3>2. h[next[s]] \in Int
      BY <3>1
    <3>3. plus[<<s, h[next[s]]>>] = f[Chosen(s)] + h[next[s]]
      BY <3>2, <2>2
    <3>. QED  BY <1>6, <2>2, <3>1, <3>3 DEF Solves
  <2>. QED  BY <2>1, <2>2
<1>. QED  BY <1>7 DEF Sums

\* The recursion of MapThenSumSet over the subsets of S.
SumStep(f, S, g) ==
    [s \in SUBSET S |-> IF s = {} THEN 0 ELSE f[Chosen(s)] + g[s \ {Chosen(s)}]]

\* A function that satisfies it, such as the one it is the CHOOSE of, holds
\* the sums.
LEMMA SumsSolve ==
    ASSUME NEW S, IsFiniteSet(S), NEW f \in [S -> Int]
    PROVE  /\ \E h : h = SumStep(f, S, h)
           /\ \A h : h = SumStep(f, S, h) => Sums(h, f, S)
<1>1. PICK g : Sums(g, f, S)
  BY SumsExist
<1>2. g = SumStep(f, S, g)
  BY <1>1 DEF Sums, SumStep
<1>3. ASSUME NEW h, h = SumStep(f, S, h) PROVE Sums(h, f, S)
  <2>. DEFINE D == SUBSET S
              m == [s \in D |-> Cardinality(s)]
              P == {s \in D : h[s] \in Int}
  <2>1. \A s \in D : h[s] = IF s = {} THEN 0 ELSE f[Chosen(s)] + h[s \ {Chosen(s)}]
    BY <1>3 DEF SumStep
  <2>2. m \in [D -> Nat]
    BY SubsetMeasure
  <2>3. ASSUME NEW s \in D, \A t \in D : m[t] < m[s] => t \in P
        PROVE  s \in P
    <3>0. h[s] = IF s = {} THEN 0 ELSE f[Chosen(s)] + h[s \ {Chosen(s)}]
      BY <2>1
    <3>1. CASE s = {}
      BY <3>0, <3>1
    <3>2. CASE s # {}
      <4>1. Chosen(s) \in s
        BY <3>2 DEF Chosen
      <4>2. \A y \in s : s \ {y} \in D /\ m[s \ {y}] < m[s]
        BY SubsetMeasure
      <4>3. s \ {Chosen(s)} \in P
        BY <4>1, <4>2, <2>3
      <4>4. h[s \ {Chosen(s)}] \in Int /\ f[Chosen(s)] \in Int
        BY <4>1, <4>3
      <4>. QED  BY <3>0, <3>2, <4>4
    <3>. QED  BY <3>1, <3>2
  <2>4. \A s \in D : s \in P
    <3>. HIDE DEF D, m, P
    <3>. QED  BY <2>2, <2>3, MeasureInduction
  <2>5. h \in [D -> Int]
    BY <1>3, <2>4 DEF SumStep
  <2>. QED  BY <2>1, <2>5 DEF Sums
<1>. QED  BY <1>2, <1>3

\* Whichever element is taken first, the sum is the same.
LEMMA SumRemove ==
    ASSUME NEW S, IsFiniteSet(S), NEW f, NEW h, Sums(h, f, S),
           NEW A \in SUBSET S, NEW a \in A
    PROVE  h[A] = f[a] + h[A \ {a}]
<1>. DEFINE D == SUBSET S
            m == [s \in D |-> Cardinality(s)]
            P == {s \in D : \A x \in s : h[s] = f[x] + h[s \ {x}]}
<1>1. m \in [D -> Nat]
  BY SubsetMeasure
<1>2. ASSUME NEW s \in D, \A t \in D : m[t] < m[s] => t \in P
      PROVE  s \in P
  <2>. SUFFICES ASSUME NEW x \in s PROVE h[s] = f[x] + h[s \ {x}]
    OBVIOUS
  <2>. DEFINE c == Chosen(s)
  <2>1. c \in s
    BY DEF Chosen
  <2>2. h[s] = f[c] + h[s \ {c}]
    BY DEF Sums
  <2>3. CASE x = c
    BY <2>2, <2>3
  <2>4. CASE x # c
    <3>1. s \ {c} \in P /\ s \ {x} \in P
      <4>1. \A y \in s : s \ {y} \in D /\ m[s \ {y}] < m[s]
        BY SubsetMeasure
      <4>. QED  BY <2>1, <4>1, <1>2
    <3>2. x \in s \ {c} /\ c \in s \ {x}
      BY <2>1, <2>4
    <3>. HIDE DEF c
    <3>3. h[s \ {c}] = f[x] + h[(s \ {c}) \ {x}]
      BY <3>1, <3>2
    <3>4. h[s \ {x}] = f[c] + h[(s \ {x}) \ {c}]
      BY <3>1, <3>2
    <3>5. h[(s \ {c}) \ {x}] = h[(s \ {x}) \ {c}]
      <4>1. (s \ {c}) \ {x} = (s \ {x}) \ {c}
        OBVIOUS
      <4>. QED  BY <4>1
    <3>. DEFINE rest == h[(s \ {x}) \ {c}]
    <3>6. f[x] \in Int /\ f[c] \in Int /\ rest \in Int
      BY <2>1 DEF Sums
    <3>7. h[s \ {c}] = f[x] + rest /\ h[s \ {x}] = f[c] + rest
      BY <3>3, <3>4, <3>5
    <3>. HIDE DEF rest
    <3>. QED  BY <2>2, <3>6, <3>7
  <2>. QED  BY <2>3, <2>4
<1>3. \A s \in D : s \in P
  <2>. HIDE DEF D, m, P
  <2>. QED  BY <1>1, <1>2, MeasureInduction
<1>. QED  BY <1>3

\* A sum depends only on the values of the elements that are summed.
LEMMA SumAgree ==
    ASSUME NEW S, IsFiniteSet(S), NEW T,
           NEW f, NEW h, Sums(h, f, S), NEW g, NEW k, Sums(k, g, T),
           NEW A, A \in SUBSET S, A \in SUBSET T, \A x \in A : f[x] = g[x]
    PROVE  h[A] = k[A]
<1>. DEFINE D == SUBSET A
            m == [s \in D |-> Cardinality(s)]
            P == {s \in D : h[s] = k[s]}
<1>1. m \in [D -> Nat]
  <2>1. IsFiniteSet(A)
    BY FS_Subset
  <2>. QED  BY <2>1, SubsetMeasure
<1>2. ASSUME NEW s \in D, \A t \in D : m[t] < m[s] => t \in P
      PROVE  s \in P
  <2>1. CASE s = {}
    BY <2>1 DEF Sums
  <2>2. CASE s # {}
    <3>1. Chosen(s) \in s
      BY <2>2 DEF Chosen
    <3>2. s \ {Chosen(s)} \in P
      <4>1. IsFiniteSet(A)
        BY FS_Subset
      <4>2. \A y \in s : s \ {y} \in D /\ m[s \ {y}] < m[s]
        BY <4>1, SubsetMeasure
      <4>. QED  BY <3>1, <4>2, <1>2
    <3>. QED  BY <2>2, <3>1, <3>2 DEF Sums
  <2>. QED  BY <2>1, <2>2
<1>3. \A s \in D : s \in P
  <2>. HIDE DEF D, m, P
  <2>. QED  BY <1>1, <1>2, MeasureInduction
<1>. QED  BY <1>3

\* Zeros sum to zero.
LEMMA SumOfZeros ==
    ASSUME NEW S, IsFiniteSet(S), NEW f, NEW h, Sums(h, f, S),
           \A x \in S : f[x] = 0
    PROVE  h[S] = 0
<1>. DEFINE D == SUBSET S
            m == [s \in D |-> Cardinality(s)]
            P == {s \in D : h[s] = 0}
<1>1. m \in [D -> Nat]
  BY SubsetMeasure
<1>2. ASSUME NEW s \in D, \A t \in D : m[t] < m[s] => t \in P
      PROVE  s \in P
  <2>1. h[s] = IF s = {} THEN 0 ELSE f[Chosen(s)] + h[s \ {Chosen(s)}]
    BY DEF Sums
  <2>2. CASE s # {}
    <3>1. Chosen(s) \in s
      BY <2>2 DEF Chosen
    <3>2. \A y \in s : s \ {y} \in D /\ m[s \ {y}] < m[s]
      BY SubsetMeasure
    <3>3. s \ {Chosen(s)} \in P
      BY <3>1, <3>2, <1>2
    <3>4. f[Chosen(s)] = 0 /\ h[s \ {Chosen(s)}] = 0
      BY <3>1, <3>3
    <3>. QED  BY <2>1, <2>2, <3>4
  <2>. QED  BY <2>1, <2>2
<1>3. \A s \in D : s \in P
  <2>. HIDE DEF D, m, P
  <2>. QED  BY <1>1, <1>2, MeasureInduction
<1>4. S \in D
  OBVIOUS
<1>. QED  BY <1>3, <1>4

\* When one value changes, the sum changes by as much.
LEMMA SumChange ==
    ASSUME NEW S, IsFiniteSet(S), NEW x \in S,
           NEW f, NEW h, Sums(h, f, S), NEW g, NEW k, Sums(k, g, S),
           \A y \in S \ {x} : f[y] = g[y]
    PROVE  k[S] = h[S] + (g[x] - f[x])
<1>1. h[S] = f[x] + h[S \ {x}] /\ k[S] = g[x] + k[S \ {x}]
  <2>1. S \in SUBSET S
    OBVIOUS
  <2>2. h[S] = f[x] + h[S \ {x}]
    BY <2>1, SumRemove
  <2>3. k[S] = g[x] + k[S \ {x}]
    BY <2>1, SumRemove
  <2>. QED  BY <2>2, <2>3
<1>2. k[S \ {x}] = h[S \ {x}]
  BY SumAgree
<1>3. h[S \ {x}] \in Int /\ f[x] \in Int /\ g[x] \in Int
  BY DEF Sums
<1>. DEFINE rest == h[S \ {x}]
            a == f[x]
            b == g[x]
<1>4. h[S] = a + rest /\ k[S] = b + rest /\ rest \in Int /\ a \in Int /\ b \in Int
  BY <1>1, <1>2, <1>3
<1>. HIDE DEF rest, a, b
<1>5. k[S] = h[S] + (b - a)
  BY <1>4
<1>. QED  BY <1>5 DEF a, b

\* What is summed elsewhere counts as zero: larger values have a larger sum.
LEMMA SumLess ==
    ASSUME NEW S, IsFiniteSet(S), NEW T, IsFiniteSet(T),
           NEW f, NEW h, Sums(h, f, S), NEW g, NEW k, Sums(k, g, T),
           \A x \in S \cap T : f[x] <= g[x],
           \A x \in S \ T : f[x] <= 0, \A x \in T \ S : 0 <= g[x]
    PROVE  h[S] <= k[T]
<1>. DEFINE U == S \cup T
            D == SUBSET U
            m == [s \in D |-> Cardinality(s)]
            P == {s \in D : h[s \cap S] <= k[s \cap T]}
<1>0. IsFiniteSet(U)
  BY FS_Union
<1>1. m \in [D -> Nat]
  BY <1>0, SubsetMeasure
<1>2. ASSUME NEW s \in D, \A t \in D : m[t] < m[s] => t \in P
      PROVE  s \in P
  <2>1. CASE s = {}
    <3>1. s \cap S = {} /\ s \cap T = {} /\ {} \in SUBSET S /\ {} \in SUBSET T
      BY <2>1
    <3>2. h[{}] = 0 /\ k[{}] = 0
      BY <3>1 DEF Sums
    <3>. QED  BY <3>1, <3>2
  <2>2. ASSUME NEW x \in s PROVE s \in P
    <3>. DEFINE t == s \ {x}
                A == t \cap S
                B == t \cap T
                C == s \cap S
                E == s \cap T
    <3>1. t \in P
      <4>1. \A y \in s : s \ {y} \in D /\ m[s \ {y}] < m[s]
        BY <1>0, SubsetMeasure
      <4>. QED  BY <4>1, <1>2
    <3>2. h[A] <= k[B]
      BY <3>1
    <3>3. /\ C \in SUBSET S /\ E \in SUBSET T /\ A \in SUBSET S /\ B \in SUBSET T
          /\ x \in S => A = C \ {x} /\ x \in C
          /\ x \notin S => A = C
          /\ x \in T => B = E \ {x} /\ x \in E
          /\ x \notin T => B = E
          /\ x \in S \/ x \in T
      OBVIOUS
    <3>. HIDE DEF A, B, C, E
    <3>4. h[A] \in Int /\ k[B] \in Int
      BY <3>3 DEF Sums
    <3>5. x \in S => f[x] \in Int /\ h[C] = f[x] + h[A]
      <4>. SUFFICES ASSUME x \in S PROVE f[x] \in Int /\ h[C] = f[x] + h[A]
        OBVIOUS
      <4>1. f[x] \in Int
        BY DEF Sums
      <4>2. C \in SUBSET S /\ x \in C /\ A = C \ {x}
        BY <3>3
      <4>3. h[C] = f[x] + h[C \ {x}]
        BY <4>2, SumRemove
      <4>. QED  BY <4>1, <4>2, <4>3
    <3>6. x \in T => g[x] \in Int /\ k[E] = g[x] + k[B]
      <4>. SUFFICES ASSUME x \in T PROVE g[x] \in Int /\ k[E] = g[x] + k[B]
        OBVIOUS
      <4>1. g[x] \in Int
        BY DEF Sums
      <4>2. E \in SUBSET T /\ x \in E /\ B = E \ {x}
        BY <3>3
      <4>3. k[E] = g[x] + k[E \ {x}]
        BY <4>2, SumRemove
      <4>. QED  BY <4>1, <4>2, <4>3
    <3>7. h[C] <= k[E]
      BY <3>2, <3>3, <3>4, <3>5, <3>6
    <3>. QED  BY <3>7 DEF C, E
  <2>. QED  BY <2>1, <2>2
<1>3. \A s \in D : s \in P
  <2>. HIDE DEF D, m, P
  <2>. QED  BY <1>1, <1>2, MeasureInduction
<1>4. U \in D /\ U \cap S = S /\ U \cap T = T
  OBVIOUS
<1>. QED  BY <1>3, <1>4

\* The sum of f over S, whatever f is elsewhere.
SumOf(f, S) == (CHOOSE h : Sums(h, [x \in S |-> f[x]], S))[S]

\* It is what any function holds that has the sums.
LEMMA SumOfIs ==
    ASSUME NEW S, IsFiniteSet(S), NEW f, NEW h, Sums(h, [x \in S |-> f[x]], S)
    PROVE  SumOf(f, S) = h[S] /\ SumOf(f, S) \in Int
<1>. DEFINE g == [x \in S |-> f[x]]
            k == CHOOSE i : Sums(i, g, S)
<1>1. Sums(k, g, S)
  BY DEF k
<1>2. SumOf(f, S) = k[S]
  BY DEF SumOf
<1>. HIDE DEF g, k
<1>3. S \in SUBSET S
  OBVIOUS
<1>4. Sums(h, g, S)
  BY DEF g
<1>5. k[S] = h[S]
  BY <1>1, <1>3, <1>4, SumAgree
<1>6. h[S] \in Int
  BY <1>3, <1>4 DEF Sums
<1>. QED  BY <1>2, <1>5, <1>6

\* Such a function exists.
LEMMA SumOfExists ==
    ASSUME NEW S, IsFiniteSet(S), NEW f, \A x \in S : f[x] \in Int
    PROVE  /\ \E h : Sums(h, [x \in S |-> f[x]], S) /\ SumOf(f, S) = h[S]
           /\ SumOf(f, S) \in Int
<1>. DEFINE g == [x \in S |-> f[x]]
<1>1. g \in [S -> Int]
  OBVIOUS
<1>2. PICK h : Sums(h, g, S)
  <2>. HIDE DEF g
  <2>. QED  BY <1>1, SumsExist
<1>. QED  BY <1>2, SumOfIs

\* Equal terms have an equal sum.
LEMMA SumOfEqual ==
    ASSUME NEW S, NEW f, NEW g, \A x \in S : f[x] = g[x]
    PROVE  SumOf(f, S) = SumOf(g, S)
<1>1. [x \in S |-> f[x]] = [x \in S |-> g[x]]
  OBVIOUS
<1>. QED  BY <1>1, Zenon DEF SumOf

\* Nothing sums to zero.
LEMMA SumOfNothing == \A f : SumOf(f, {}) = 0
<1>. SUFFICES ASSUME NEW f PROVE SumOf(f, {}) = 0
  OBVIOUS
<1>1. IsFiniteSet({})
  BY FS_EmptySet
<1>2. PICK h : Sums(h, [x \in {} |-> f[x]], {}) /\ SumOf(f, {}) = h[{}]
  BY <1>1, SumOfExists
<1>. QED  BY <1>2 DEF Sums

\* One more term.
LEMMA SumOfInsert ==
    ASSUME NEW S, IsFiniteSet(S), NEW f, NEW y, y \notin S, \A x \in S \cup {y} : f[x] \in Int
    PROVE  SumOf(f, S \cup {y}) = SumOf(f, S) + f[y]
<1>. DEFINE T == S \cup {y}
            ft == [x \in T |-> f[x]]
            fs == [x \in S |-> f[x]]
<1>1. IsFiniteSet(T)
  BY FS_AddElement
<1>2. PICK h : Sums(h, ft, T) /\ SumOf(f, T) = h[T]
  BY <1>1, SumOfExists
<1>3. PICK k : Sums(k, fs, S) /\ SumOf(f, S) = k[S] /\ SumOf(f, S) \in Int
  BY SumOfExists
<1>4. /\ T \in SUBSET T /\ y \in T /\ S \in SUBSET T /\ S \in SUBSET S /\ T \ {y} = S
      /\ ft[y] = f[y] /\ \A x \in S : ft[x] = fs[x]
  OBVIOUS
<1>. HIDE DEF T, ft, fs
<1>5. h[T] = ft[y] + h[T \ {y}]
  BY <1>1, <1>2, <1>4, SumRemove
<1>6. h[S] = k[S]
  BY <1>1, <1>2, <1>3, <1>4, SumAgree
<1>7. f[y] \in Int
  BY <1>4 DEF T
<1>8. SumOf(f, T) = f[y] + SumOf(f, S)
  BY <1>2, <1>3, <1>4, <1>5, <1>6, Zenon
<1>. QED  BY <1>3, <1>7, <1>8 DEF T

\* The terms of an interval, the last one apart.
LEMMA SumOfNext ==
    ASSUME NEW a \in Int, NEW n \in Nat, NEW f, \A i \in a .. a + n : f[i] \in Int
    PROVE  /\ SumOf(f, a .. a + (n + 1) - 1) = SumOf(f, a .. a + n - 1) + f[a + n]
           /\ SumOf(f, a .. a + n - 1) \in Int
<1>. DEFINE S == a .. a + n - 1
            y == a + n
<1>1. a .. a + (n + 1) - 1 = S \cup {y} /\ y \notin S /\ S \cup {y} = a .. a + n
  OBVIOUS
<1>2. IsFiniteSet(S)
  BY FS_Interval
<1>. HIDE DEF S, y
<1>3. \A x \in S \cup {y} : f[x] \in Int
  BY <1>1
<1>4. SumOf(f, S \cup {y}) = SumOf(f, S) + f[y]
  BY <1>1, <1>2, <1>3, SumOfInsert
<1>5. SumOf(f, S) \in Int
  BY <1>2, <1>3, SumOfExists
<1>. QED  BY <1>1, <1>4, <1>5 DEF S, y

Span(a, n) == a .. a + n - 1
SameTerms(f, a, g, b, n) == \A i \in 0 .. n - 1 : f[a + i] \in Int /\ g[b + i] = f[a + i]

\* The same terms elsewhere have the same sum.
LEMMA SumOfShift ==
    ASSUME NEW n \in Nat, NEW a \in Int, NEW b \in Int, NEW f, NEW g,
           SameTerms(f, a, g, b, n)
    PROVE  SumOf(f, Span(a, n)) = SumOf(g, Span(b, n))
<1>. USE DEF SameTerms, Span
<1>. DEFINE P == {m \in Nat : m <= n => SumOf(f, a .. a + m - 1) = SumOf(g, b .. b + m - 1)}
<1>1. 0 \in P
  <2>1. a .. a + 0 - 1 = {} /\ b .. b + 0 - 1 = {}
    OBVIOUS
  <2>2. SumOf(f, a .. a + 0 - 1) = 0 /\ SumOf(g, b .. b + 0 - 1) = 0
    BY <2>1, SumOfNothing
  <2>. QED  BY <2>2
<1>2. ASSUME NEW m \in Nat, m \in P PROVE m + 1 \in P
  <2>. SUFFICES ASSUME m + 1 <= n
                PROVE SumOf(f, a .. a + (m + 1) - 1) = SumOf(g, b .. b + (m + 1) - 1)
    OBVIOUS
  <2>1. SumOf(f, a .. a + m - 1) = SumOf(g, b .. b + m - 1)
    BY <1>2
  <2>2. \A i \in a .. a + m : f[i] \in Int
    <3>1. \A i \in a .. a + m : i - a \in 0 .. n - 1 /\ a + (i - a) = i
      OBVIOUS
    <3>. QED  BY <3>1
  <2>3. \A i \in b .. b + m : g[i] \in Int
    <3>1. \A i \in b .. b + m : i - b \in 0 .. n - 1 /\ b + (i - b) = i
      OBVIOUS
    <3>. QED  BY <3>1
  <2>4. /\ SumOf(f, a .. a + (m + 1) - 1) = SumOf(f, a .. a + m - 1) + f[a + m]
        /\ SumOf(g, b .. b + (m + 1) - 1) = SumOf(g, b .. b + m - 1) + g[b + m]
    BY <2>2, <2>3, SumOfNext
  <2>5. f[a + m] = g[b + m]
    <3>1. m \in 0 .. n - 1
      OBVIOUS
    <3>. QED  BY <3>1
  <2>. QED  BY <2>1, <2>4, <2>5
<1>3. \A m \in Nat : m \in P
  <2>. HIDE DEF P
  <2>. QED  BY <1>1, <1>2, NatSetInduction
<1>4. n \in P /\ n <= n
  BY <1>3
<1>. QED  BY <1>4

\* Two intervals one behind the other.
LEMMA SumOfBoth ==
    ASSUME NEW a \in Int, NEW b \in Int, NEW c \in Int, a <= b, b <= c,
           NEW f, \A i \in a .. c - 1 : f[i] \in Int
    PROVE  SumOf(f, a .. c - 1) = SumOf(f, a .. b - 1) + SumOf(f, b .. c - 1)
<1>. DEFINE n == b - a
            m == c - b
            P == {k \in Nat : k <= m => SumOf(f, a .. b + k - 1) = SumOf(f, a .. b - 1) + SumOf(f, b .. b + k - 1)}
<1>5. n \in Nat /\ m \in Nat /\ b = a + n /\ c = b + m
  OBVIOUS
<1>. HIDE DEF n, m
<1>0. SumOf(f, a .. b - 1) \in Int
  <2>1. IsFiniteSet(a .. b - 1)
    BY FS_Interval
  <2>2. \A i \in a .. b - 1 : f[i] \in Int
    OBVIOUS
  <2>. QED  BY <2>1, <2>2, SumOfExists
<1>1. 0 \in P
  <2>1. b .. b + 0 - 1 = {} /\ b + 0 = b
    OBVIOUS
  <2>2. SumOf(f, b .. b + 0 - 1) = 0
    BY <2>1, SumOfNothing
  <2>3. SumOf(f, a .. b + 0 - 1) = SumOf(f, a .. b - 1)
    BY <2>1
  <2>. QED  BY <1>0, <2>2, <2>3
<1>2. ASSUME NEW k \in Nat, k \in P PROVE k + 1 \in P
  <2>. SUFFICES ASSUME k + 1 <= m
                PROVE SumOf(f, a .. b + (k + 1) - 1) = SumOf(f, a .. b - 1) + SumOf(f, b .. b + (k + 1) - 1)
    OBVIOUS
  <2>1. SumOf(f, a .. b + k - 1) = SumOf(f, a .. b - 1) + SumOf(f, b .. b + k - 1)
    <3>1. k <= m
      BY <1>5
    <3>. QED  BY <1>2, <3>1
  <2>2. (\A i \in a .. a + (n + k) : f[i] \in Int) /\ (\A i \in b .. b + k : f[i] \in Int) /\ n + k \in Nat
    BY <1>5
  <2>3. SumOf(f, a .. a + ((n + k) + 1) - 1) = SumOf(f, a .. a + (n + k) - 1) + f[a + (n + k)]
    BY <2>2, SumOfNext
  <2>4. /\ SumOf(f, b .. b + (k + 1) - 1) = SumOf(f, b .. b + k - 1) + f[b + k]
        /\ SumOf(f, b .. b + k - 1) \in Int
    BY <2>2, SumOfNext
  <2>5. a + ((n + k) + 1) - 1 = b + (k + 1) - 1 /\ a + (n + k) - 1 = b + k - 1 /\ a + (n + k) = b + k
    BY <1>5
  <2>6. SumOf(f, a .. b + (k + 1) - 1) = SumOf(f, a .. b + k - 1) + f[b + k]
    BY <2>3, <2>5
  <2>7. f[b + k] \in Int
    BY <2>2
  <2>. QED  BY <1>0, <2>1, <2>4, <2>6, <2>7
<1>3. \A k \in Nat : k \in P
  <2>. HIDE DEF P
  <2>. QED  BY <1>1, <1>2, NatSetInduction
<1>4. SumOf(f, a .. b + m - 1) = SumOf(f, a .. b - 1) + SumOf(f, b .. b + m - 1)
  <2>1. m \in P
    BY <1>3, <1>5, Zenon
  <2>2. m <= m
    BY <1>5
  <2>. QED  BY <2>1, <2>2
<1>. QED  BY <1>4, <1>5

\* A sum taken in parts of s terms each.
LEMMA SumOfParts ==
    ASSUME NEW n \in Nat, NEW s \in Nat, NEW f, \A i \in 0 .. n * s - 1 : f[i] \in Int,
           NEW p, \A u \in 0 .. n - 1 : p[u] = SumOf(f, u * s .. (u + 1) * s - 1)
    PROVE  SumOf(p, 0 .. n - 1) = SumOf(f, 0 .. n * s - 1)
<1>. DEFINE P == {m \in Nat : m <= n => SumOf(p, 0 .. m - 1) = SumOf(f, 0 .. m * s - 1)}
<1>1. 0 \in P
  <2>1. 0 .. 0 - 1 = {} /\ 0 .. 0 * s - 1 = {}
    OBVIOUS
  <2>. QED  BY <2>1, SumOfNothing
<1>2. ASSUME NEW m \in Nat, m \in P PROVE m + 1 \in P
  <2>. SUFFICES ASSUME m + 1 <= n PROVE SumOf(p, 0 .. (m + 1) - 1) = SumOf(f, 0 .. (m + 1) * s - 1)
    OBVIOUS
  <2>. DEFINE b == m * s
  <2>1. /\ b \in Nat /\ (m + 1) * s = b + s /\ b + s <= n * s
        /\ \A u \in 0 .. m : u * s \in Nat /\ (u + 1) * s = u * s + s /\ u * s + s <= n * s
    <3>1. \A u \in Nat : u * s \in Nat /\ (u + 1) * s = u * s + s
      OBVIOUS
    <3>2. \A u, v \in Nat : u <= v => u * s <= v * s
      <4>1. ASSUME NEW u \in Nat, NEW v \in Nat, u <= v PROVE u * s <= v * s
        <5>1. PICK d \in Nat : v = u + d
          BY <4>1
        <5>2. (u + d) * s = u * s + d * s /\ d * s \in Nat /\ u * s \in Nat
          OBVIOUS
        <5>. QED  BY <5>1, <5>2
      <4>. QED  BY <4>1
    <3>3. \A u \in 0 .. m : (u + 1) * s <= n * s
      <4>1. \A u \in 0 .. m : u + 1 \in Nat /\ n \in Nat /\ u + 1 <= n
        OBVIOUS
      <4>. QED  BY <4>1, <3>2
    <3>4. m \in 0 .. m
      OBVIOUS
    <3>. QED  BY <3>1, <3>3, <3>4
  <2>2. SumOf(p, 0 .. m - 1) = SumOf(f, 0 .. b - 1)
    BY <1>2
  <2>. HIDE DEF b
  <2>. DEFINE z == 0
  <2>3. SumOf(f, 0 .. b + s - 1) = SumOf(f, 0 .. b - 1) + SumOf(f, b .. b + s - 1)
    <3>. DEFINE c == b + s
    <3>1. \A i \in 0 .. c - 1 : i \in 0 .. n * s - 1
      <4>1. n * s \in Nat
        OBVIOUS
      <4>. QED  BY <2>1, <4>1
    <3>2. b \in Int /\ c \in Int /\ 0 \in Int /\ 0 <= b /\ b <= c
      BY <2>1
    <3>3. \A i \in 0 .. c - 1 : f[i] \in Int
      BY <3>1
    <3>. HIDE DEF c
    <3>4. SumOf(f, 0 .. c - 1) = SumOf(f, 0 .. b - 1) + SumOf(f, b .. c - 1)
      BY <3>2, <3>3, SumOfBoth
    <3>5. c - 1 = b + s - 1
      BY <2>1 DEF c
    <3>. QED  BY <3>4, <3>5, Zenon
  <2>4. \A u \in z .. z + m : p[u] \in Int
    <3>1. ASSUME NEW u \in 0 .. m PROVE p[u] \in Int
      <4>. DEFINE c == u * s
                  e == n * s
      <4>1. c \in Nat /\ (u + 1) * s = c + s /\ c + s <= e /\ e \in Nat
        BY <2>1
      <4>2. p[u] = SumOf(f, c .. c + s - 1)
        <5>1. u \in 0 .. n - 1
          OBVIOUS
        <5>. QED  BY <4>1, <5>1
      <4>3. \A i \in 0 .. e - 1 : f[i] \in Int
        OBVIOUS
      <4>. HIDE DEF c, e
      <4>4. \A i \in c .. c + s - 1 : f[i] \in Int
        BY <4>1, <4>3
      <4>5. IsFiniteSet(c .. c + s - 1)
        BY <4>1, FS_Interval
      <4>. QED  BY <4>2, <4>4, <4>5, SumOfExists
    <3>. QED  BY <3>1
  <2>5. SumOf(p, z .. z + (m + 1) - 1) = SumOf(p, z .. z + m - 1) + p[z + m]
    <3>1. z \in Int
      OBVIOUS
    <3>. HIDE DEF z
    <3>. QED  BY <2>4, <3>1, SumOfNext
  <2>6. p[m] = SumOf(f, b .. b + s - 1)
    BY <2>1 DEF b
  <2>7. z + b = b /\ z + m = m /\ z + (m + 1) = m + 1 /\ z = 0
    BY <2>1
  <2>. QED  BY <2>1, <2>2, <2>3, <2>5, <2>6, <2>7
<1>3. \A m \in Nat : m \in P
  <2>. HIDE DEF P
  <2>. QED  BY <1>1, <1>2, NatSetInduction
<1>. QED  BY <1>3

\* What MapThenSumSet computes is such a sum.
LEMMA SumFold ==
    ASSUME NEW S, IsFiniteSet(S), NEW f, \A x \in S : f[x] \in Int
    PROVE  (CHOOSE h : h = SumStep(f, S, h))[S] = SumOf(f, S)
<1>. DEFINE g == [x \in S |-> f[x]]
            k == CHOOSE h : h = SumStep(f, S, h)
<1>1. g \in [S -> Int]
  OBVIOUS
<1>2. \A s \in SUBSET S : s # {} => Chosen(s) \in S
  BY DEF Chosen
<1>3. \A h : SumStep(g, S, h) = SumStep(f, S, h)
  BY <1>2 DEF SumStep
<1>. HIDE DEF g
<1>4. \E h : h = SumStep(g, S, h)
  BY <1>1, SumsSolve
<1>5. k = SumStep(f, S, k)
  BY <1>3, <1>4
<1>. HIDE DEF k
<1>6. Sums(k, g, S)
  BY <1>1, <1>3, <1>5, SumsSolve
<1>7. SumOf(f, S) = k[S]
  BY <1>6, SumOfIs DEF g
<1>. QED  BY <1>7 DEF k

-----------------------------------------------------------------------------
(* Folds over sequences, as FoldLeft of SequencesExt computes them: over   *)
(* the sets of positions, the greatest position last.                      *)

\* The greatest position of a non-empty set of them is its Max.
LEMMA GreatestPosition ==
    ASSUME NEW n \in Nat, NEW t \in SUBSET (1 .. n), t # {}
    PROVE  Max(t) \in t /\ \A i \in t : i <= Max(t)
<1>. DEFINE S == {n - i : i \in t}
<1>0. \A i \in t : i \in Int /\ 1 <= i /\ i <= n
  OBVIOUS
<1>1. S \in SUBSET Nat /\ S # {}
  <2>1. \A i \in t : n - i \in Nat
    BY <1>0
  <2>2. PICK i \in t : TRUE
    OBVIOUS
  <2>. QED  BY <2>1, <2>2
<1>2. PICK x \in S : \A y \in S : x <= y
  <2>. HIDE DEF S
  <2>. QED  BY <1>1, LeastNumber
<1>3. PICK i \in t : x = n - i
  OBVIOUS
<1>4. ASSUME NEW j \in t PROVE j <= i
  <2>1. n - i <= n - j
    BY <1>2, <1>3
  <2>. QED  BY <1>0, <2>1
<1>. QED  BY <1>3, <1>4 DEF Max

\* Induction along a fold.
LEMMA FoldInduction ==
    ASSUME NEW n \in Nat, NEW P, {} \in P,
           \A t \in SUBSET (1 .. n) : t # {} /\ t \ {Max(t)} \in P => t \in P
    PROVE  \A t \in SUBSET (1 .. n) : t \in P
<1>. DEFINE D == SUBSET (1 .. n)
            m == [t \in D |-> Cardinality(t)]
<1>1. IsFiniteSet(1 .. n)
  BY FS_Interval
<1>2. m \in [D -> Nat]
  BY <1>1, SubsetMeasure
<1>3. ASSUME NEW t \in D, \A s \in D : m[s] < m[t] => s \in P
      PROVE  t \in P
  <2>1. CASE t # {}
    <3>1. Max(t) \in t
      BY <2>1, GreatestPosition
    <3>2. \A x \in t : t \ {x} \in D /\ m[t \ {x}] < m[t]
      BY <1>1, SubsetMeasure
    <3>. QED  BY <2>1, <1>3, <3>1, <3>2
  <2>. QED  BY <2>1
<1>4. \A t \in D : t \in P
  <2>. HIDE DEF D, m
  <2>. QED  BY <1>2, <1>3, MeasureInduction
<1>. QED  BY <1>4

\* h holds what the fold has made of every set of positions.
Folds(h, n, base, step) ==
    \A t \in SUBSET (1 .. n) :
        h[t] = IF t = {} THEN base ELSE step[<<Max(t), h[t \ {Max(t)}]>>]

\* A fold whose steps stay in V exists.
LEMMA FoldExists ==
    ASSUME NEW n \in Nat, NEW V, NEW base \in V, NEW step \in [(1 .. n) \X V -> V]
    PROVE  \E h \in [SUBSET (1 .. n) -> V] : Folds(h, n, base, step)
<1>. DEFINE N == 1 .. n
            D == SUBSET N
            m == [t \in D |-> Cardinality(t)]
            M == Cardinality(N) + 1
            val == [t \in {{}} |-> base]
            next == [t \in D |-> t \ {Max(t)}]
            extend == [p \in D \X V |-> IF p[1] = {} THEN base ELSE step[<<Max(p[1]), p[2]>>]]
<1>1. \A t \in D : t # {} => Max(t) \in t
  BY GreatestPosition
<1>2. M \in Nat /\ m \in [D -> Nat] /\ \A t \in D : m[t] < M
  <2>1. IsFiniteSet(1 .. n)
    BY FS_Interval
  <2>. QED  BY <2>1, SubsetMeasure
<1>3. extend \in [D \X V -> V]
  BY <1>1
<1>4. \A t \in D : IF t \in {{}} THEN val[t] \in V
                   ELSE next[t] \in D /\ m[next[t]] < m[t]
  <2>1. \A t \in D : \A x \in t : t \ {x} \in D /\ m[t \ {x}] < m[t]
    <3>1. IsFiniteSet(N)
      BY FS_Interval
    <3>. HIDE DEF N
    <3>. QED  BY <3>1, SubsetMeasure
  <2>. QED  BY <1>1, <2>1
<1>5. IsRecursion(D, V, M, m, {{}}, val, next, extend)
  BY <1>2, <1>3, <1>4 DEF IsRecursion
<1>6. PICK h \in [D -> V] : Solves(h, D, {{}}, val, next, extend)
  <2>. HIDE DEF D, m, M, val, next, extend
  <2>. QED  BY <1>5, LinearRecursion
<1>7. ASSUME NEW t \in D
      PROVE  h[t] = IF t = {} THEN base ELSE step[<<Max(t), h[t \ {Max(t)}]>>]
  <2>1. CASE t = {}
    BY <1>6, <2>1 DEF Solves
  <2>2. CASE t # {}
    <3>1. next[t] = t \ {Max(t)} /\ next[t] \in D
      OBVIOUS
    <3>2. h[next[t]] \in V
      BY <3>1
    <3>3. extend[<<t, h[next[t]]>>] = step[<<Max(t), h[next[t]]>>]
      BY <3>2, <2>2
    <3>. QED  BY <1>6, <2>2, <3>1, <3>3 DEF Solves
  <2>. QED  BY <2>1, <2>2
<1>. QED  BY <1>7 DEF Folds

-----------------------------------------------------------------------------
(* Remainders.                                                             *)

\* A number is made of its quotient and its remainder.
LEMMA DivMod ==
    ASSUME NEW s \in Int, NEW n \in Nat, n > 0
    PROVE  s = n * (s \div n) + (s % n) /\ s \div n \in Int /\ s % n \in 0 .. n - 1
BY SMTT(30)

\* The remainder is determined by that.
LEMMA RemainderUnique ==
    ASSUME NEW n \in Nat, n > 0, NEW p \in Int, NEW q \in Int,
           NEW a \in 0 .. n - 1, NEW b \in 0 .. n - 1, n * p + a = n * q + b
    PROVE  a = b
BY SMTT(30)

\* Counting by one, modulo n.
LEMMA RemainderOfSuccessor ==
    ASSUME NEW s \in Int, NEW n \in Nat, n > 0
    PROVE  (s + 1) % n = IF (s % n) + 1 < n THEN (s % n) + 1 ELSE 0
<1>. DEFINE q == s \div n
            a == s % n
            p == (s + 1) \div n
            b == (s + 1) % n
<1>1. s = n * q + a /\ q \in Int /\ a \in 0 .. n - 1
  BY DivMod
<1>2. s + 1 = n * p + b /\ p \in Int /\ b \in 0 .. n - 1
  BY DivMod
<1>. HIDE DEF q, a, p, b
<1>3. CASE a + 1 < n
  <2>1. n * p + b = n * q + (a + 1) /\ a + 1 \in 0 .. n - 1
    BY <1>1, <1>2, <1>3
  <2>2. b = a + 1
    BY <2>1, <1>1, <1>2, RemainderUnique
  <2>. QED  BY <2>2, <1>3 DEF a, b
<1>4. CASE ~ (a + 1 < n)
  <2>1. n * p + b = n * (q + 1) + 0 /\ q + 1 \in Int /\ 0 \in 0 .. n - 1
    BY <1>1, <1>2, <1>4
  <2>2. b = 0
    BY <2>1, <1>2, RemainderUnique
  <2>. QED  BY <2>2, <1>4 DEF a, b
<1>. QED  BY <1>3, <1>4

\* Quotient and remainder of a number that is given by them.
LEMMA QuotientOf ==
    ASSUME NEW s \in Nat \ {0}, NEW q \in Int, NEW r \in 0 .. s - 1
    PROVE  (q * s + r) \div s = q /\ (q * s + r) % s = r
<1>. DEFINE x == q * s + r
            d == x \div s
            e == x % s
<1>1. x \in Int /\ s > 0 /\ s \in Nat
  OBVIOUS
<1>2. x = s * d + e /\ d \in Int /\ e \in 0 .. s - 1
  <2>. HIDE DEF x
  <2>. QED  BY <1>1, DivMod
<1>3. s * q + r = s * d + e
  <2>. HIDE DEF d, e
  <2>. QED  BY <1>2
<1>4. r = e
  <2>. HIDE DEF d, e, x
  <2>. QED  BY <1>1, <1>2, <1>3, RemainderUnique
<1>5. q = d
  <2>. HIDE DEF d, e, x
  <2>1. s * (q - d) = 0
    BY <1>2, <1>3, <1>4
  <2>. QED  BY <1>2, <2>1
<1>. QED  BY <1>4, <1>5

\* Where quotients are, and what quotients and remainders make.
LEMMA QuotientBound ==
    ASSUME NEW s \in Nat \ {0}, NEW n \in Nat
    PROVE  /\ \A x \in 0 .. n * s - 1 : /\ x \div s \in 0 .. n - 1 /\ x % s \in 0 .. s - 1
                                        /\ x = (x \div s) * s + (x % s)
           /\ \A q \in 0 .. n - 1, r \in 0 .. s - 1 : q * s + r \in 0 .. n * s - 1
<1>1. ASSUME NEW x \in 0 .. n * s - 1
      PROVE  x \div s \in 0 .. n - 1 /\ x % s \in 0 .. s - 1 /\ x = (x \div s) * s + (x % s)
  <2>. DEFINE d == x \div s
              e == x % s
  <2>1. x \in Int /\ s > 0 /\ s \in Nat
    OBVIOUS
  <2>2. x = s * d + e /\ d \in Int /\ e \in 0 .. s - 1
    BY <2>1, DivMod
  <2>. HIDE DEF d, e
  <2>3. d >= 0
    <3>1. CASE d <= -1
      <4>1. s * d <= -s
        <5>1. s * (d + 1) <= 0
          BY <2>1, <2>2, <3>1
        <5>. QED  BY <2>1, <2>2, <5>1
      <4>. QED  BY <2>1, <2>2, <4>1
    <3>. QED  BY <2>2, <3>1
  <2>4. d < n
    <3>1. CASE d >= n
      <4>1. s * d >= s * n
        <5>1. s * (d - n) >= 0
          BY <2>1, <2>2, <3>1
        <5>. QED  BY <2>1, <2>2, <5>1
      <4>. QED  BY <2>1, <2>2, <4>1
    <3>. QED  BY <2>2, <3>1
  <2>. QED  BY <2>1, <2>2, <2>3, <2>4 DEF d, e
<1>2. ASSUME NEW q \in 0 .. n - 1, NEW r \in 0 .. s - 1 PROVE q * s + r \in 0 .. n * s - 1
  <2>1. q * s + s <= n * s
    <3>1. (n - 1 - q) * s >= 0
      OBVIOUS
    <3>. QED  BY <3>1
  <2>2. q * s \in Nat /\ n * s \in Nat
    OBVIOUS
  <2>. QED  BY <2>1, <2>2
<1>. QED  BY <1>1, <1>2

\* Counting modulo n from c, every remainder is met once.
LEMMA Rotation ==
    ASSUME NEW n \in Nat \ {0}, NEW c \in 0 .. n - 1
    PROVE  /\ \A j, k \in 0 .. n - 1 : (j + c) % n = (k + c) % n => j = k
           /\ \A v \in 0 .. n - 1 : \E k \in 0 .. n - 1 : (k + c) % n = v
<1>1. n > 0 /\ n \in Nat
  OBVIOUS
<1>2. ASSUME NEW j \in 0 .. n - 1, NEW k \in 0 .. n - 1, (j + c) % n = (k + c) % n PROVE j = k
  <2>. DEFINE a == (j + c) \div n
              b == (k + c) \div n
              r == (j + c) % n
  <2>1. j + c = n * a + r /\ a \in Int /\ r \in 0 .. n - 1
    BY <1>1, DivMod
  <2>2. k + c = n * b + r /\ b \in Int
    BY <1>1, <1>2, DivMod
  <2>. HIDE DEF a, b, r
  <2>3. n * (-a) + j = n * (-b) + k
    BY <2>1, <2>2
  <2>4. -a \in Int /\ -b \in Int
    BY <2>1, <2>2
  <2>. QED  BY <1>1, <2>3, <2>4, RemainderUnique
<1>3. ASSUME NEW v \in 0 .. n - 1 PROVE \E k \in 0 .. n - 1 : (k + c) % n = v
  <2>1. (0 * n + v) % n = v /\ (1 * n + v) % n = v
    BY QuotientOf
  <2>2. 0 * n + v = v /\ 1 * n + v = n + v
    OBVIOUS
  <2>3. CASE c <= v
    <3>1. v - c \in 0 .. n - 1 /\ (v - c) + c = v
      BY <2>3
    <3>. QED  BY <2>1, <2>2, <3>1
  <2>4. CASE v < c
    <3>1. n + v - c \in 0 .. n - 1 /\ (n + v - c) + c = n + v
      BY <2>4
    <3>. QED  BY <2>1, <2>2, <3>1
  <2>. QED  BY <2>3, <2>4
<1>. QED  BY <1>2, <1>3
=============================================================================
