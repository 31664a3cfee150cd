---------------------------- MODULE MCDashArray ----------------------------
(* Instance of DashArray for TLC: all units are 0, 1, 2; arrays of all of   *)
(* them, and of the units 1 and 2, in every kind of layout.                 *)
EXTENDS DashArray, TLC

ThreeUnits == 0 .. 2
TeamOf(k) == CASE k = 1 -> <<2>> [] k = 2 -> <<1, 2>> [] k = 3 -> <<0, 1, 2>>
Nothing   == PA!TraitsOf(<<>>, <<>>, <<>>)
ArraysOf(pats) == {[pat |-> p, team |-> TeamOf(p.nunits), asked |-> Nothing] : p \in pats}

Blocked(s, k) == B1!FromTeam(s, B1!BLOCKED, k)
Lengths(a, b, c) == CS!FromLocalSizesOfTeam([u \in 0 .. 2 |-> <<a, b, c>>[u + 1]], 3)
Tiles(b)      == <<BN!TILE(b), BN!TILE(b)>>

Contiguous1D == {Blocked(4, 3), Lengths(1, 2, 1)}
Scattered ==
    {B1!FromTeam(4, B1!CYCLIC, 3), B1!FromTeam(5, B1!BLOCKCYCLIC(2), 2), Blocked(3, 2),
     TN!FromTeam(<<2, 2>>, "row", Tiles(1), 2), ST!FromTeam(<<2, 2>>, "row", Tiles(1), 2)}

Layouts1D ==
    {B1!FromTeam(s, d, k) : s \in 1 .. 8, k \in 1 .. 3,
        d \in {B1!BLOCKED, B1!CYCLIC, B1!NONE, B1!BLOCKCYCLIC(2), B1!BLOCKCYCLIC(3), B1!TILE(3)}}
    \cup {T1!FromTeam(2 * k * t, T1!TILE(2), k) : k \in 1 .. 3, t \in 1 .. 2}
    \cup {S1!FromTeam(2 * k * t, T1!TILE(2), k) : k \in 1 .. 3, t \in 1 .. 2}
    \cup {CS!FromTeam(2 * k, CS!BLOCKED, k) : k \in 1 .. 3} \cup {CS!FromArguments(<<CS!Extent(6)>>, 3)}
    \cup {CS!FromLocalSizesOfTeam(f, k) : <<f, k>> \in UNION {[0 .. k - 1 -> 0 .. 2] \X {k} : k \in 1 .. 3}}

(* The arrangements of k units in two dimensions: TeamSpec(team) fitted to  *)
(* the distribution, TeamSpec(distribution, team), and balance_extents.     *)
Layouts2D ==
    {BN!FromSpecs(s, o, <<d, e>>, BN!LinearTeamSpec(k, 2), k) : s \in {<<4, 2>>, <<3, 3>>}, o \in {"row", "col"},
        d \in {BN!BLOCKED, BN!CYCLIC, BN!BLOCKCYCLIC(2)}, e \in {BN!NONE, BN!TILE(2)}, k \in 2 .. 3}
    \cup {TN!FromSpecs(<<2 * a, 2 * b>>, o, Tiles(2), BN!Arranged(t), BN!SizeOf(t)) :
             a, b \in 1 .. 2, o \in {"row", "col"}, t \in {BN!BalancedExtents(2), <<1, 3>>}}
    \cup {ST!FromTeam(<<k * a, k>>, o, Tiles(1), k) : a \in 1 .. 2, o \in {"row", "col"}, k \in 1 .. 3}

(* What the tests and examples ask make_pattern for, with extents that are  *)
(* multiples of the number of units, as theirs are.                         *)
Requests ==
    {PA!DefaultTraits,
     PA!TraitsOf(<<"balanced", "rectangular">>, <<"balanced", "diagonal">>, <<"blocked", "linear">>),
     PA!TraitsOf(<<"balanced", "rectangular">>, <<"balanced", "neighbor">>, <<"linear", "canonical">>),
     PA!TraitsOf(<<"minimal", "balanced", "rectangular">>, <<"balanced">>, <<"blocked", "linear">>),
     PA!TraitsOf(<<"minimal">>, <<"unbalanced">>, <<"blocked", "linear">>)}
MadeFor(k) ==
    {[pat |-> MakePattern(r, <<k * s[1], k * s[2]>>, team, k), team |-> TeamOf(k), asked |-> r] :
        r \in Requests, s \in {<<1, 1>>, <<2, 1>>}, team \in {MakeTeamSpec(PA!DefaultTraits, 1, k), <<1, k>>}}

Writable   == ArraysOf(Contiguous1D \cup Scattered)
AllArrays  == Writable \cup ArraysOf({p \in Layouts1D \cup Layouts2D : Size(p) > 0})
              \cup {a \in UNION {MadeFor(k) : k \in 2 .. 3} : a.pat # NULL}
SomeRanges == {<<1, 4>>, <<2, 2>>}
=============================================================================
