----------------------------- MODULE DashArray -----------------------------
(***************************************************************************)
(* A dash::Array of a team and the algorithms on it: Array.h, GlobMem.h,   *)
(* GlobIter.h and algorithm/*.h.  The elements lie where the pattern puts  *)
(* them, in the memory every unit of the team allocated for the array.     *)
(*                                                                         *)
(* Program: units assign through iterators, fill, copy and visit ranges    *)
(* while nobody is inside min_element; all units call min_element with the *)
(* same range, MaxCalls times, and may call it again at once.              *)
(***************************************************************************)
EXTENDS MatrixView, Copy

CONSTANTS
    Arrays,       \* the arrays: [pat, team, asked], team the global ids of its units,
                  \* asked the properties its pattern was made for by make_pattern
    Exercised,    \* the arrays whose elements the program accesses
    Values,       \* the values of an element
    AllUnits,     \* dash::Team::All(): 0 .. size - 1
    MaxCalls,     \* bound: calls of min_element by each unit
    MinRanges     \* bound: the ranges min_element is called with

ASSUME ArraysAssumption ==
    /\ Exercised \subseteq Arrays
    /\ AllUnits \subseteq Nat
    /\ \A a \in Arrays : \A i \in DOMAIN a.team : a.team[i] \in AllUnits
ASSUME BoundsAssumption == MaxCopyElem \in Nat \ {0} /\ MaxCalls \in Nat

VARIABLES
    arr,      \* the array
    layout,   \* what the pattern of the array answers
    place,    \* place[g]: where index_to_gptr finds the element g
    mem,      \* mem[u][o]: the element at offset o of unit u (a global id)
    call,     \* the call a unit has just made: arguments and result
    script,   \* the ranges of the calls of min_element so far
    calls,    \* calls[u]: how many calls unit u has entered
    pc,       \* pc[u]: where in min_element unit u is
    barriers, \* barriers[u]: the barriers of the team unit u has entered
    minarr,   \* minarr[u]: the local minimum unit u has found
    bcasts,   \* how many times unit 0 has allocated and broadcast shared_min
    shared    \* what shared_min holds; freed memory keeps it

reduction == <<script, calls, pc, barriers, minarr, bcasts, shared>>
vars == <<arr, layout, place, mem, call, reduction>>

pat  == arr.pat
n    == pat.nunits
TeamAll == Cardinality(AllUnits) = Len(arr.team)
Members == {arr.team[i] : i \in DOMAIN arr.team}

(* dart_team_unit_g2l, dart_team_unit_l2g. *)
G2L(u) == (CHOOSE i \in DOMAIN arr.team : arr.team[i] = u) - 1
L2G(u) == arr.team[u + 1]

NoCall == [op |-> "none"]

----------------------------------------------------------------------------
(* GlobMem: m_begptr is the portion of the first unit of the team.         *)

IndexToGptr(unit, local) ==
    LET lunit == (G2L(arr.team[1]) + unit) % n
    IN [unit |-> IF TeamAll THEN lunit ELSE L2G(lunit), offset |-> local]

(* GlobIter: lpos(), operator*, is_local(), local(). *)
LPos(i) ==
    LET max == Size(pat) - 1
    IN IF i > max THEN [layout.local[max] EXCEPT !.index = @ + (i - max)] ELSE layout.local[i]

Deref(i) == IndexToGptr(layout.local[i].unit, layout.local[i].index)

IterIsLocal(me, i) == me = LPos(i).unit

LocalPtr(me, i) == IF me # LPos(i).unit THEN NULL ELSE LPos(i).index

Read(gptr) == mem[gptr.unit][gptr.offset]

----------------------------------------------------------------------------
(* local_index_range: the part of [first, last) between the first and the  *)
(* last element of the unit, as local offsets.                             *)
LocalIndexRange(me, first, last) ==
    LET own    == layout.range[me]
        lbegin == IF own[1] > first THEN own[1] ELSE first
        lend   == IF own[2] < last THEN own[2] ELSE last
    IN IF layout.size[me][me] = 0 \/ own[2] <= first \/ own[1] >= last THEN <<0, 0>>
       ELSE <<layout.at[me][lbegin], layout.at[me][lend - 1] + 1>>

LocalIndices(me, first, last) ==
    LocalIndexRange(me, first, last)[1] .. LocalIndexRange(me, first, last)[2] - 1

(* The algorithms take the elements between two elements of a unit to be   *)
(* the unit's, and its id in the team to be its global id.                 *)
Contiguous ==
    /\ TeamAll
    /\ \A g, h \in DOMAIN place : g < h /\ place[g].unit = place[h].unit =>
          /\ place[g].offset < place[h].offset
          /\ \A k \in g .. h : place[k].unit = place[g].unit

Ranges == {r \in (0 .. Size(pat)) \X (0 .. Size(pat)) : r[1] <= r[2]}

(* Nobody is inside min_element, and every unit has called it as often.    *)
Idle == call = NoCall /\ \A u \in Members : pc[u] = "idle" /\ calls[u] = Len(script)

----------------------------------------------------------------------------
Store(u, gptr, v) == mem' = [mem EXCEPT ![gptr.unit][gptr.offset] = v]

(* *it = v: GlobRef puts the value at the iterator's pointer. *)
Assign(u, i, v) ==
    /\ Store(u, Deref(i), v)
    /\ call' = [op |-> "assign", unit |-> u, at |-> i, value |-> v]
    /\ UNCHANGED <<arr, layout, place, reduction>>

(* fill: the local range of the unit, from lbegin. *)
Fill(u, first, last, v) ==
    /\ mem' = [mem EXCEPT ![u] =
                  [o \in DOMAIN @ |-> IF o \in LocalIndices(u, first, last) THEN v ELSE @[o]]]
    /\ call' = [op |-> "fill", unit |-> u, first |-> first, last |-> last, value |-> v]
    /\ UNCHANGED <<arr, layout, place, reduction>>

(* for_each: the global indices the function is called with. *)
ForEach(u, first, last) == {layout.global[u][o] : o \in LocalIndices(u, first, last)}

----------------------------------------------------------------------------
(* copy from a global range: internal::copy_impl reads piece by piece.     *)

(* What the pattern answers the unit me that copies. *)
AsSeenBy(me) == [layout EXCEPT !.size = @[me]]

(* What the reads put into the output. *)
GetRange(me, first, last) ==
    LET From[cur \in first .. last] ==
          IF cur = last THEN <<>>
          ELSE LET k == PieceSize(AsSeenBy(me), first, last, cur)
                   src == Deref(cur)
               IN [i \in 1 .. k |-> mem[src.unit][src.offset + i - 1]] \o From[cur + k]
    IN From[first]

(* copy: the part before the local one, the local part, the part after it. *)
CopyOut(u, first, last) ==
    LET own   == LocalIndexRange(u, first, last)
        nloc  == own[2] - own[1]
        begin == layout.global[u][own[1]]
        end   == layout.global[u][own[2] - 1] + 1
        Local_(i) == [j \in 1 .. nloc |-> mem[u][LocalPtr(u, i) + j - 1]]
    IN CASE nloc = last - first -> Local_(first)
         [] nloc > 0 -> GetRange(u, first, begin) \o Local_(begin) \o GetRange(u, end, last)
         [] OTHER -> GetRange(u, first, last)

\* Faulty variant: the reads after the local part begin where the local
\* part does.
CopyAsyncOverlapping(u, first, last) ==
    LET own   == LocalIndexRange(u, first, last)
        nloc  == own[2] - own[1]
        begin == layout.global[u][own[1]]
        end   == layout.global[u][own[2] - 1] + 1
        pre   == begin - first
        local(i) == {[to |-> i - first, from |-> [unit |-> G2L(u), index |-> LocalPtr(u, i)], len |-> nloc]}
    IN CASE nloc = last - first -> local(first)
         [] nloc > 0 -> Gets(AsSeenBy(u), first, begin, 0) \cup Gets(AsSeenBy(u), end, last, pre) \cup local(begin)
         [] OTHER -> Gets(AsSeenBy(u), first, last, 0)

(* copy_async: the same parts; only the local one is there at once, the    *)
(* others when the future has been waited for.                             *)
CopyAsync(u, first, last) ==
    LET own   == LocalIndexRange(u, first, last)
        nloc  == own[2] - own[1]
        begin == layout.global[u][own[1]]
        end   == layout.global[u][own[2] - 1] + 1
        pre   == begin - first
        local(i) == {[to |-> i - first, from |-> [unit |-> G2L(u), index |-> LocalPtr(u, i)], len |-> nloc]}
    IN CASE nloc = last - first -> local(first)
         [] nloc > 0 -> Gets(AsSeenBy(u), first, begin, 0) \cup Gets(AsSeenBy(u), end, last, pre + nloc) \cup local(begin)
         [] OTHER -> Gets(AsSeenBy(u), first, last, 0)

(* copy into a global range: internal::copy_impl writes with one put. *)
PutRange(m, first, vals) ==
    IF vals = <<>> THEN m
    ELSE LET dst == Deref(first)
         IN [m EXCEPT ![dst.unit] =
                [o \in DOMAIN @ |-> IF o - dst.offset \in 0 .. Len(vals) - 1
                                    THEN vals[o - dst.offset + 1] ELSE @[o]]]

(* A put stays within a unit: what the caller has to see to. *)
WithinOneUnit(first, last) == first < last => layout.unitAt[first] = layout.unitAt[last - 1]

(* copy: the local part, the part before it, the part after it.  The last  *)
(* goes to out_first + num_local_elem, which is its place only if no part  *)
(* comes before the local one: the program does not copy into a range with *)
(* parts on both sides.                                                    *)
CopyIn(u, first, vals) ==
    LET last  == first + Len(vals)
        own   == LocalIndexRange(u, first, last)
        nloc  == own[2] - own[1]
        begin == layout.global[u][own[1]]
        end   == layout.global[u][own[2] - 1] + 1
        skip  == begin - first
        local == [mem EXCEPT ![u] =
                     [o \in DOMAIN @ |-> IF o - LocalPtr(u, begin) \in 0 .. nloc - 1
                                         THEN vals[skip + o - LocalPtr(u, begin) + 1] ELSE @[o]]]
    IN /\ vals # <<>>
       /\ IF nloc = 0
          THEN WithinOneUnit(first, last) /\ mem' = PutRange(mem, first, vals)
          ELSE /\ WithinOneUnit(first, begin) /\ WithinOneUnit(end, last)
               /\ skip = 0 \/ end = last
               /\ mem' = PutRange(PutRange(local, first, SubSeq(vals, 1, skip)),
                                  first + nloc, SubSeq(vals, skip + nloc + 1, Len(vals)))
       /\ call' = [op |-> "copy", unit |-> u, first |-> first, vals |-> vals]
       /\ UNCHANGED <<arr, layout, place, reduction>>

----------------------------------------------------------------------------
(* min_element.  Every call has four barriers: at the end of the           *)
(* constructor of minarr, two of its own, and one in the destructor of     *)
(* minarr.  shared_min is broadcast by unit 0 and freed by it, without a   *)
(* barrier: others may read it after that.                                 *)

Garbage == [unit |-> -1, offset |-> -1]  \* memory nobody has written
Root == arr.team[1]
MyRange(u) == script[calls[u]]

(* The calls up to the present one that get as far as the broadcast. *)
Broadcasts(u) == Cardinality({c \in 1 .. calls[u] : script[c][1] < script[c][2]})

MinResult(u, result) ==
    [op |-> "min", unit |-> u, first |-> MyRange(u)[1], last |-> MyRange(u)[2], result |-> result]

Goto(u, label) == pc' = [pc EXCEPT ![u] = label]

Arrive(u) == barriers' = [barriers EXCEPT ![u] = @ + 1]

Released(u) == \A w \in Members : barriers[w] >= barriers[u]

(* dash::Array minarr(team.size()), up to the barrier of its constructor.  *)
CallMin(u, r) ==
    /\ pc[u] = "idle" /\ calls[u] < MaxCalls /\ arr \in Exercised /\ Contiguous
    /\ r[2] <= Size(pat)
    /\ IF calls[u] = Len(script) THEN script' = Append(script, r)
                                 ELSE r = script[calls[u] + 1] /\ UNCHANGED script
    /\ calls' = [calls EXCEPT ![u] = @ + 1]
    /\ Arrive(u)
    /\ Goto(u, "allocated")
    /\ call' = NoCall
    /\ UNCHANGED <<arr, layout, place, mem, minarr, bcasts, shared>>

(* first == last: return last, by way of the destructor of minarr. *)
ReturnLast(u) ==
    /\ pc[u] = "allocated" /\ Released(u)
    /\ MyRange(u)[1] = MyRange(u)[2]
    /\ call' = MinResult(u, MyRange(u)[2])
    /\ Arrive(u)
    /\ Goto(u, "leaving")
    /\ UNCHANGED <<arr, layout, place, mem, script, calls, minarr, bcasts, shared>>

\* Faulty variant: a unit without elements in the range returns at once.
ReduceLocalOrLeave(u) ==
    LET part == LocalIndices(u, MyRange(u)[1], MyRange(u)[2])
        least == {o \in part : \A q \in part : mem[u][o] <= mem[u][q]}
    IN /\ pc[u] = "allocated" /\ Released(u)
       /\ MyRange(u)[1] < MyRange(u)[2]
       /\ minarr' = [minarr EXCEPT ![u] = IF part = {} THEN NULL ELSE IndexToGptr(G2L(u), Min(least))]
       /\ Arrive(u)
       /\ Goto(u, IF part = {} THEN "leaving" ELSE "reduced")
       /\ call' = NoCall
       /\ UNCHANGED <<arr, layout, place, mem, script, calls, bcasts, shared>>

(* std::min_element over the local part of the range; then the barrier. *)
ReduceLocal(u) ==
    LET part == LocalIndices(u, MyRange(u)[1], MyRange(u)[2])
        least == {o \in part : \A q \in part : mem[u][o] <= mem[u][q]}
    IN /\ pc[u] = "allocated" /\ Released(u)
       /\ MyRange(u)[1] < MyRange(u)[2]
       /\ minarr' = [minarr EXCEPT ![u] = IF part = {} THEN NULL ELSE IndexToGptr(G2L(u), Min(least))]
       /\ Arrive(u)
       /\ Goto(u, "reduced")
       /\ call' = NoCall
       /\ UNCHANGED <<arr, layout, place, mem, script, calls, bcasts, shared>>

(* Shared<globptr_t> shared_min: unit 0 allocates and broadcasts. *)
ShareMin(u) ==
    /\ pc[u] = "reduced" /\ Released(u)
    /\ IF u = Root
       THEN /\ bcasts' = bcasts + 1 /\ shared' = Garbage
            /\ Goto(u, "searching") /\ UNCHANGED barriers
       ELSE /\ bcasts >= Broadcasts(u)
            /\ Goto(u, "shared") /\ Arrive(u) /\ UNCHANGED <<bcasts, shared>>
    /\ call' = NoCall
    /\ UNCHANGED <<arr, layout, place, mem, script, calls, minarr>>

(* Unit 0: the first local minimum less than all before it; set; barrier.  *)
SearchMin(u) ==
    LET Better[i \in 0 .. n] ==
          IF i = 0 THEN NULL
          ELSE LET best == Better[i - 1]
                   next == minarr[L2G(i - 1)]
               IN IF next # NULL /\ (best = NULL \/ Read(next) < Read(best)) THEN next ELSE best
    IN /\ pc[u] = "searching"
       /\ shared' = Better[n]
       /\ Arrive(u)
       /\ Goto(u, "shared")
       /\ call' = NoCall
       /\ UNCHANGED <<arr, layout, place, mem, script, calls, minarr, bcasts>>

\* Faulty variant: without the barrier between set and get.
ReadMinEarly(u) ==
    /\ pc[u] = "shared"
    /\ call' = MinResult(u, CASE shared = NULL -> MyRange(u)[2]
                               [] shared = Garbage -> -1
                               [] OTHER -> CHOOSE g \in Indices(pat) : Deref(g) = shared)
    /\ Arrive(u)
    /\ Goto(u, "leaving")
    /\ UNCHANGED <<arr, layout, place, mem, script, calls, minarr, bcasts, shared>>

(* globptr_t minimum = shared_min.get(), as the index it points to; then   *)
(* the destructors: unit 0 frees shared_min, minarr waits for all units.   *)
ReadMin(u) ==
    /\ pc[u] = "shared" /\ Released(u)
    /\ call' = MinResult(u, CASE shared = NULL -> MyRange(u)[2]
                               [] shared = Garbage -> -1
                               [] OTHER -> CHOOSE g \in Indices(pat) : Deref(g) = shared)
    /\ Arrive(u)
    /\ Goto(u, "leaving")
    /\ UNCHANGED <<arr, layout, place, mem, script, calls, minarr, bcasts, shared>>

LeaveMin(u) ==
    /\ pc[u] = "leaving" /\ Released(u)
    /\ Goto(u, "idle")
    /\ call' = NoCall
    /\ UNCHANGED <<arr, layout, place, mem, script, calls, barriers, minarr, bcasts, shared>>

----------------------------------------------------------------------------
Init ==
    /\ arr \in Arrays
    /\ layout = Layout(pat)
    /\ place = [g \in Indices(pat) |-> Deref(g)]
    /\ mem = [u \in Members |-> [o \in 0 .. LocalCapacity(pat, G2L(u)) - 1 |-> Min(Values)]]
    /\ call = NoCall
    /\ script = <<>>
    /\ calls = [u \in Members |-> 0]
    /\ pc = [u \in Members |-> "idle"]
    /\ barriers = [u \in Members |-> 0]
    /\ minarr = [u \in Members |-> NULL]
    /\ bcasts = 0
    /\ shared = Garbage

(* Bound: what is copied in; neighbours differ, so a shift shows. *)
Payloads(k) ==
    {[i \in 1 .. k |-> IF i % 2 = b THEN Min(Values) ELSE Max(Values)] : b \in {0, 1}}

(* Units access the array while nobody is inside min_element. *)
Access ==
    /\ arr \in Exercised /\ Idle
    /\ \/ \E u \in Members, i \in Indices(pat), v \in Values : Assign(u, i, v)
       \/ /\ Contiguous
          /\ \E u \in Members, r \in Ranges :
                \/ \E v \in Values : Fill(u, r[1], r[2], v)
                \/ \E vals \in Payloads(r[2] - r[1]) : CopyIn(u, r[1], vals)

MinStep(u) ==
    \/ ReturnLast(u) \/ ReduceLocal(u) \/ ShareMin(u) \/ SearchMin(u)
    \/ ReadMin(u) \/ LeaveMin(u)

(* The caller goes on. *)
GoOn == call # NoCall /\ call' = NoCall /\ UNCHANGED <<arr, layout, place, mem, reduction>>

Next ==
    \/ GoOn
    \/ Access
    \/ \E u \in Members : MinStep(u) \/ \E r \in MinRanges : CallMin(u, r)

Spec == Init /\ [][Next]_vars

(* A unit inside min_element goes on, and the program calls it everywhere. *)
Fairness ==
    \A u \in AllUnits :
        /\ WF_vars(u \in Members /\ MinStep(u))
        /\ WF_vars(u \in Members /\ calls[u] < Len(script) /\ CallMin(u, script[calls[u] + 1]))

FairSpec == Spec /\ Fairness

----------------------------------------------------------------------------
(* The pattern of an array does not change: the states before the first    *)
(* call of min_element are enough to look at it.                           *)
Fresh == script = <<>> /\ call = NoCall

(* index_to_gptr gives two elements two places, each at a unit of the      *)
(* array's team, for teams that are part of all units too.                 *)
IteratorsApart ==
    \A g \in Indices(pat) :
        /\ place[g].unit = L2G(layout.unitAt[g])
        /\ \A h \in Indices(pat) \ {g} : place[g] # place[h]

(* LayoutConsistent: the elements of a unit fill its memory without gap or *)
(* overlap, local_size() counts them, local_capacity() holds them, and     *)
(* iterators point to them there; unit_at, is_local, at and local of a     *)
(* pattern name the same unit and offset, global() leads back to the       *)
(* element, and blocks and local blocks are made of the elements they      *)
(* should be.  The layout has the properties the pattern's class claims    *)
(* and those make_pattern was asked for, and does not depend on which of   *)
(* the constructors made the pattern.                                      *)
LayoutConsistent ==
    Fresh => /\ DenseStorage(pat) /\ RangeEncloses(pat) /\ IteratorsApart
             /\ RoundTrip(pat) /\ LookupsAgree(pat) /\ BlocksAgree(pat)
             /\ TraitsHold(pat) /\ AsAsked(pat, arr.asked) /\ ConstructorsAgree(pat, Cardinality(AllUnits))

(* ViewsSeeSections: subscripts and iterators of sub-ranges, projections,  *)
(* blocks and local blocks of a matrix reach the elements of the section   *)
(* of the matrix the view stands for, each where the pattern has put it.   *)
ViewsSeeSections ==
    Fresh /\ pat.class \in {"block", "tile", "shift"} =>
        SubsSeeBoxes(pat) /\ ProjectionsSeeLines(pat) /\ BlocksSeeBoxes(pat) /\ LocalSubscriptsAgree(pat)

Array == INSTANCE GlobalArray WITH
    values <- [g \in DOMAIN place |-> Read(place[g])],
    owner  <- [g \in DOMAIN place |-> place[g].unit]

(* ImplementsGlobalArray: whatever the layout, the array is one array, the *)
(* algorithms of the units act on their parts of a range only, and         *)
(* min_element gives every unit the first position of the least value.     *)
ImplementsGlobalArray == Array!ASpec

(* What copy and copy_async of a range should read, at each place.         *)
Expected(first, i) == Read(place[first + i - 1])

(* The reads of copy_async may end in any order: each position of the      *)
(* output is written by one of them.                                       *)
AsyncSeesAll(u, first, last) ==
    \A i \in 1 .. last - first :
        LET covers(p) == p.to < i /\ i <= p.to + p.len
            writers   == {p \in CopyAsync(u, first, last) : covers(p)}
        IN /\ Cardinality(writers) = 1
           /\ \A p \in writers :
                 mem[L2G(p.from.unit)][p.from.index + i - 1 - p.to] = Expected(first, i)

(* The parts of a range that copy_impl reads for the unit u. *)
RemoteParts(u, first, last) ==
    LET own  == LocalIndexRange(u, first, last)
        nloc == own[2] - own[1]
    IN CASE nloc = last - first -> {}
         [] nloc > 0 -> {<<first, layout.global[u][own[1]]>>,
                         <<layout.global[u][own[2] - 1] + 1, last>>}
         [] OTHER -> {<<first, last>>}

(* A part at several units is cut by their local sizes.  CSRPattern gives  *)
(* the caller's own size for them: where that is another one, copy cuts    *)
(* wrong pieces, or none (Copy.h:188, 202, 351), and the program leaves    *)
(* such parts out.                                                         *)
SizesKnown(u, first, last) ==
    \/ WithinOneUnit(first, last)
    \/ \A g \in first .. last - 1 :
          LET w == layout.unitAt[g] IN layout.size[u][w] = layout.size[w][w]

(* RangesSeen: the copy of a range into local memory, put together from    *)
(* the reads of other units' parts and the local part, is the range, if    *)
(* the caller knows the sizes it is cut by; and for_each calls its         *)
(* function at every index of a range, each at the unit that owns it and   *)
(* nowhere else.                                                           *)
RangesSeen ==
    Fresh /\ Contiguous =>
        \A r \in Ranges, u \in Members :
            /\ ForEach(u, r[1], r[2]) = {g \in r[1] .. r[2] - 1 : place[g].unit = u}
            /\ r[1] < r[2] /\ (\A part \in RemoteParts(u, r[1], r[2]) : SizesKnown(u, part[1], part[2])) =>
                              /\ CopyOut(u, r[1], r[2]) = [i \in 1 .. r[2] - r[1] |-> Expected(r[1], i)]
                              /\ AsyncSeesAll(u, r[1], r[2])

(* MinReturns: when one unit has called min_element, all units return from *)
(* that call.                                                              *)
MinReturns == \A c \in 1 .. MaxCalls : Len(script) >= c ~> (\A u \in Members : calls[u] >= c /\ (calls[u] = c => pc[u] = "idle"))
=============================================================================
