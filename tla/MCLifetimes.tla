---------------------------- MODULE MCLifetimes -----------------------------
(* Instance of Lifetimes for TLC: three units, split into two parts, on two *)
(* nodes that cut across them, and programs with one to four containers.    *)
EXTENDS Lifetimes, TLC

ThreeUnits == {0, 1, 2}
Halves == [u \in ThreeUnits |-> IF u = 2 THEN 2 ELSE 1]
TwoNodes == [u \in ThreeUnits |-> IF u = 0 THEN 1 ELSE 2]

C(o) == <<"construct", o>>      A(o) == <<"allocate", o>>
T(o) == <<"touch", o>>          D(o) == <<"destroy", o>>
K(o) == <<"deallocate", o>>     B(t) == <<"barrier", t>>
F(t) == <<"free", t>>           S == <<"split", "all">>
X == <<"finalize", "all">>      E == <<"end", "all">>

All(kind) == [kind |-> kind, team |-> "all"]
Sub(kind) == [kind |-> kind, team |-> "sub"]

\* One container: used, given up and taken again, freed with its team, left
\* to finalize, and destroyed before or after that.
OneOf(o) == LET t == o.team IN
    {[objs |-> "a" :> o, calls |-> <<S, C("a")>> \o use \o end] :
        use \in (CASE o.kind = "array" -> {<<T("a")>>, <<K("a"), A("a"), T("a")>>, <<T("a"), F(t)>>, <<F(t), F(t)>>}
                   [] o.kind = "late" -> {<<A("a"), T("a")>>, <<A("a"), K("a"), A("a"), F(t)>>}
                   [] o.kind = "matrix" -> {<<T("a"), B(t)>>, <<T("a"), F(t)>>, <<T("a"), B("all"), K("a")>>}
                   [] o.kind = "shared" -> {<<T("a"), B(t)>>}
                   [] o.kind = "counter" -> {<<B(t), T("a")>>, <<B(t), T("a"), F(t)>>}),
        end \in {<<D("a"), X, E>>, <<X, D("a"), X, E>>}}

\* Two and more containers: the loop of Team::free over lists of two to four.
Two(x, y) ==
    {[objs |-> ("a" :> x @@ "b" :> y), calls |-> <<S, C("a"), C("b"), T("a"), T("b"), B("all")>> \o end] :
        end \in {<<D("a"), T("b"), B("all"), D("b"), X, E>>, <<X, D("b"), D("a"), E>>,
                 <<F("all"), D("b"), D("a"), X, E>>}}
Names == <<"a", "b", "c", "d">>
Many(n) ==
    {[objs |-> [o \in {Names[i] : i \in 1 .. n} |-> All("array")],
      calls |-> [i \in 1 .. n |-> C(Names[i])] \o mid \o [i \in 1 .. n |-> D(Names[n + 1 - i])] \o end] :
        <<mid, end>> \in {<<<<F("all"), F("all")>>, <<X, E>>>>, <<<<X>>, <<E>>>>}}

SomePrograms ==
    UNION {OneOf(All(k)) : k \in Kinds} \union
           UNION {OneOf(Sub(k)) : k \in {"array", "late", "matrix"}} \union
           UNION {Two(x, y) : x \in {All("array"), Sub("matrix")}, y \in {All("matrix"), Sub("array")}} \union
           Many(3) \union Many(4)
===============================================================================
