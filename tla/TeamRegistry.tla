---------------------------- MODULE TeamRegistry ----------------------------
(***************************************************************************)
(* Groups and teams of the MPI runtime: the operations on groups,          *)
(* dart_team_create and dart_team_destroy of                               *)
(* dart-impl/mpi/src/dart_team_group.c over the teamlist of                *)
(* dart_team_private.c.                                                    *)
(*                                                                         *)
(* Every unit has its own tables and learns of a team only by the          *)
(* collective calls it takes part in: the id is the maximum of the         *)
(* counters of the parent team, the slot is the unit's own.  MPI           *)
(* communicators are numbered, 1 is MPI_COMM_WORLD; of MPI it is used that *)
(* a collective call returns after every member has made it, and of the    *)
(* program that all members call the same operations in the same order.    *)
(*                                                                         *)
(* A definition marked as a faulty variant is no part of the system: it is *)
(* the operation after it with a mistake that a property must notice.      *)
(***************************************************************************)
EXTENDS Integers, FiniteSets, FiniteSetsExt, SequencesExt

CONSTANTS
    Units,      \* the units of the program, numbers from 0
    MaxTeams,   \* DART_MAX_TEAM_NUMBER
    Recipes,    \* bound: how the program makes the groups of its teams
    MaxCalls    \* bound: collective calls of the program, over all teams

ASSUME UnitsAssumption == IsFiniteSet(Units) /\ Units # {} /\ Units = 0 .. Cardinality(Units) - 1
ASSUME BoundsAssumption == MaxTeams \in Nat \ {0} /\ MaxCalls \in Nat

Ascending(g) == \A i, j \in DOMAIN g : i < j => g[i] < g[j]

\* What a program can make by the operations on groups, and the arguments it
\* passes to them: units, groups made before, and a part of a split.
Groups == {g \in Seq(Units) : Ascending(g)}
Steps ==
    [op : {"add", "delete"}, arg : Units] \cup [op : {"union", "intersect"}, arg : Groups]
        \cup {s \in [op : {"split"}, arg : Nat \X Nat] : s.arg[2] \in 1 .. s.arg[1]}

ASSUME RecipesAssumption == Recipes \subseteq [from : {"none", "team"}, steps : Seq(Steps)]

TeamAll == 0           \* DART_TEAM_ALL
World == 1             \* MPI_COMM_WORLD
NoComm == 0            \* MPI_COMM_NULL
NotYet == [id |-> -1, comm |-> NoComm]
Slots == 0 .. MaxTeams - 1

VARIABLES
    members,    \* members[c]: the units of communicator c, by their rank
    calls,      \* calls[c]: the collective calls made on c and their results
    made,       \* made[c][u]: how many of them u has made
    pc,         \* pc[u]: where u is, and in which call
    nextId,     \* nextId[u]: dart_next_availteamid
    allocated,  \* allocated[u]: dart_allocated_teamlist_array
    free,       \* free[u]: the free teamlist, its header first
    teams,      \* teams[u]: dart_teams
    wins        \* wins[u]: dart_win_lists, a window being that of its communicator

mpiVars == <<members, calls, made>>
listVars == <<nextId, allocated, free, teams, wins>>
registryVars == <<mpiVars, pc, listVars>>

Idle == [at |-> "idle", comm |-> NoComm, n |-> 0, slot |-> 0, pos |-> 0]

\* dart_init: team 0 takes the first slot of the free list.
RegistryInit ==
    /\ members = <<[r \in 1 .. Cardinality(Units) |-> r - 1]>>
    /\ calls = << <<>> >>
    /\ made = << [u \in Units |-> 0] >>
    /\ pc = [u \in Units |-> Idle]
    /\ nextId = [u \in Units |-> TeamAll + 1]
    /\ allocated = [u \in Units |-> <<[index |-> 0, id |-> TeamAll]>>]
    /\ free = [u \in Units |-> [i \in 1 .. MaxTeams - 1 |-> i]]
    /\ teams = [u \in Units |-> [s \in Slots |-> IF s = 0 THEN World ELSE NoComm]]
    /\ wins = [u \in Units |-> [s \in Slots |-> IF s = 0 THEN World ELSE NoComm]]

-----------------------------------------------------------------------------
(* dart_adapt_teamlist_convert: a binary search in the allocated list.     *)

\* Faulty variant: the search goes right of an entry that is equal.
SearchPast(list, t) ==
    LET search[r \in (1 .. Len(list) + 1) \X (1 .. Len(list))] ==
            LET mid == (r[1] + r[2]) \div 2
            IN  IF r[1] >= r[2] THEN r[1]
                ELSE IF list[mid].id <= t THEN search[<<mid + 1, r[2]>>]
                ELSE search[<<r[1], mid>>]
    IN  search[<<1, Len(list)>>]

\* The position the loop ends at, r being its bounds begin and end.
Search(list, t) ==
    LET search[r \in (1 .. Len(list)) \X (1 .. Len(list))] ==
            LET mid == (r[1] + r[2]) \div 2
            IN  IF r[1] >= r[2] THEN r[1]
                ELSE IF list[mid].id < t THEN search[<<mid + 1, r[2]>>]
                ELSE search[<<r[1], mid>>]
    IN  search[<<1, Len(list)>>]

\* Position of team t in the list of u, or 0 for "Invalid teamid".
Position(u, t) ==
    LET list == allocated[u]
        p == Search(list, t)
    IN  IF t = TeamAll THEN 1
        ELSE IF list # <<>> /\ list[p].id = t THEN p ELSE 0

Known(u, t) == Position(u, t) # 0

\* The index the search stores; DART_TEAM_ALL is not looked up.
SlotOf(u, t) == IF t = TeamAll THEN 0 ELSE allocated[u][Position(u, t)].index

CommOf(u, t) == teams[u][SlotOf(u, t)]

-----------------------------------------------------------------------------
(* Groups: MPI groups, the members by their rank.                          *)

Members(g) == ToSet(g)

\* The members of g in S, in their order.
Kept(g, S) == FoldLeft(LAMBDA kept, v : IF v \in S THEN Append(kept, v) ELSE kept, <<>>, g)

\* MPI_Group_difference.
Without(g, h) == Kept(g, Units \ Members(h))

\* MPI_Group_union: the members of g, then those of h it lacks.
MpiUnion(g, h) == g \o Without(h, g)

\* dart_group_union for a result that is neither operand: what MPI returns
\* is two runs of members, the first as long as g, and they are merged.
Merged(pre, length) ==
    LET n == Len(pre)
        merge[r \in (1 .. length + 1) \X (length + 1 .. n + 1)] ==
            LET i == r[1]
                j == r[2]
            IN  IF i > length THEN SubSeq(pre, j, n)
                ELSE IF j > n THEN SubSeq(pre, i, length)
                ELSE IF pre[i] <= pre[j] THEN <<pre[i]>> \o merge[<<i + 1, j>>]
                ELSE <<pre[j]>> \o merge[<<i, j + 1>>]
    IN  merge[<<1, length + 1>>]

\* Faulty variant: the result of MPI is taken as it is.
GroupUnionUnmerged(g, h) == MpiUnion(g, h)

GroupUnion(g, h) == Merged(MpiUnion(g, h), Len(g))

\* dart_group_intersect, addmember and delmember.
GroupIntersect(g, h) == Kept(g, Members(h))
AddMember(g, v) == GroupUnion(g, <<v>>)
DelMember(g, v) == Without(g, <<v>>)

\* dart_group_split: n runs of equal length but the last ones.
GroupSplit(g, n) ==
    LET length == (Len(g) + n - 1) \div n
    IN  [i \in 1 .. n |-> SubSeq(g, (i - 1) * length + 1, Min({i * length, Len(g)}))]

\* The group a program makes step by step, of none or of a team's members.
Step(g, s) ==
    CASE s.op = "add" -> AddMember(g, s.arg)
      [] s.op = "delete" -> DelMember(g, s.arg)
      [] s.op = "union" -> GroupUnion(g, s.arg)
      [] s.op = "intersect" -> GroupIntersect(g, s.arg)
      [] s.op = "split" -> GroupSplit(g, s.arg[1])[s.arg[2]]

Made(recipe, g) == FoldLeft(Step, IF recipe.from = "none" THEN <<>> ELSE g, recipe.steps)

-----------------------------------------------------------------------------
(* Collective calls of MPI.                                                *)

CallsMade == MapThenSumSet(LAMBDA c : Len(calls[c]), DOMAIN calls)

\* u makes its next call on c: the one others have made there, or a new one.
Make(u, c, request) ==
    LET n == made[c][u] + 1
    IN  /\ pc[u] = Idle
        /\ made' = [made EXCEPT ![c][u] = n]
        /\ IF n <= Len(calls[c])
           THEN /\ calls[c][n].request = request
                /\ UNCHANGED calls
           ELSE /\ CallsMade < MaxCalls
                /\ calls' = [calls EXCEPT ![c] =
                       Append(@, [request |-> request, result |-> NotYet])]
        /\ UNCHANGED members

\* Everybody in G has made the n-th call on c.
MadeBy(G, c, n) == \A v \in G : made[c][v] >= n

Everybody(u) == MadeBy(Members(members[pc[u].comm]), pc[u].comm, pc[u].n)

At(u, label, c, slot, pos) ==
    pc' = [pc EXCEPT ![u] = [at |-> label, comm |-> c, n |-> made[c][u] + 1,
                             slot |-> slot, pos |-> pos]]

Leave(u) == pc' = [pc EXCEPT ![u] = Idle]

CurrentCall(u) == calls[pc[u].comm][pc[u].n]

-----------------------------------------------------------------------------
(* dart_team_create.                                                       *)

\* The caller reaches MPI_Comm_create and MPI_Allreduce on the communicator
\* of the parent team; all its members ask for the group of one recipe.
EnterCreate(u, t, recipe) ==
    LET g == Made(recipe, members[CommOf(u, t)])
    IN
    /\ Known(u, t)
    /\ g # <<>> /\ Members(g) \subseteq Members(members[CommOf(u, t)])
    /\ Make(u, CommOf(u, t), [op |-> "create", arg |-> g])
    /\ At(u, "create", CommOf(u, t), SlotOf(u, t), 0)
    /\ UNCHANGED listVars

Counters(c) == {nextId[v] : v \in Members(members[c])}

NewId(c) == Max(Counters(c))

\* Both collective calls complete: there is a new communicator, and every
\* member of the parent gets the maximum of the counters.
CompleteCreate(c) ==
    \E n \in DOMAIN calls[c] :
        /\ calls[c][n].request.op = "create"
        /\ calls[c][n].result = NotYet
        /\ MadeBy(Members(members[c]), c, n)
        /\ calls' = Append([calls EXCEPT ![c][n].result =
                                [id |-> NewId(c), comm |-> Len(members) + 1]],
                           <<>>)
        /\ members' = Append(members, calls[c][n].request.arg)
        /\ made' = Append(made, [u \in Units |-> 0])
        /\ UNCHANGED <<pc, listVars>>

\* u returns to dart_team_create with the result and advances its counter.
Reduced(u) ==
    /\ pc[u].at = "create"
    /\ CurrentCall(u).result # NotYet
    /\ nextId' = [nextId EXCEPT ![u] = CurrentCall(u).result.id + 1]
    /\ UNCHANGED mpiVars

\* u is not in the group: MPI_COMM_NULL and DART_TEAM_NULL.
CreateForOthers(u) ==
    /\ Reduced(u)
    /\ u \notin Members(CurrentCall(u).request.arg)
    /\ Leave(u)
    /\ UNCHANGED <<allocated, free, teams, wins>>

\* dart_adapt_teamlist_alloc finds no free slot: DART_ERR_OTHER.
CreateWithoutSlot(u) ==
    /\ Reduced(u)
    /\ u \in Members(CurrentCall(u).request.arg)
    /\ free[u] = <<>>
    /\ Leave(u)
    /\ UNCHANGED <<allocated, free, teams, wins>>

\* u takes the first free slot, appends the team to its list and reaches
\* MPI_Win_create_dynamic on the new communicator.
CreateInSlot(u) ==
    LET slot == Head(free[u])
        new == CurrentCall(u).result
    IN  /\ Reduced(u)
        /\ u \in Members(CurrentCall(u).request.arg)
        /\ free[u] # <<>>
        /\ free' = [free EXCEPT ![u] = Tail(@)]
        /\ allocated' = [allocated EXCEPT ![u] =
               Append(@, [index |-> slot, id |-> new.id])]
        /\ teams' = [teams EXCEPT ![u][slot] = new.comm]
        /\ pc' = [pc EXCEPT ![u].at = "window", ![u].slot = slot]
        /\ UNCHANGED wins

\* MPI_Win_create_dynamic and MPI_Comm_split_type return when all members of
\* the new team are there; one that found no slot never comes.
FinishCreate(u) ==
    LET new == CurrentCall(u).result.comm
    IN  /\ pc[u].at = "window"
        /\ \A v \in Members(members[new]) : \E s \in Slots : teams[v][s] = new
        /\ wins' = [wins EXCEPT ![u][pc[u].slot] = new]
        /\ Leave(u)
        /\ UNCHANGED <<mpiVars, nextId, allocated, free, teams>>

-----------------------------------------------------------------------------
(* dart_team_destroy.                                                      *)

EnterDestroy(u, t) ==
    /\ t # TeamAll /\ Known(u, t)
    /\ Make(u, CommOf(u, t), [op |-> "destroy", arg |-> <<>>])
    /\ At(u, "destroy", CommOf(u, t), SlotOf(u, t), Position(u, t))
    /\ UNCHANGED listVars

\* Faulty variant: the position is recycled where the index should be.
FinishDestroyRecyclingPosition(u) ==
    /\ pc[u].at = "destroy"
    /\ Everybody(u)
    /\ free' = [free EXCEPT ![u] = <<pc[u].pos - 1>> \o @]
    /\ allocated' = [allocated EXCEPT ![u] = RemoveAt(@, pc[u].pos)]
    /\ Leave(u)
    /\ UNCHANGED <<mpiVars, nextId, teams, wins>>

\* MPI_Win_free returns when all members are there; the slot goes to the
\* head of the free list and the gap in the allocated list is closed.
FinishDestroy(u) ==
    /\ pc[u].at = "destroy"
    /\ Everybody(u)
    /\ free' = [free EXCEPT ![u] = <<pc[u].slot>> \o @]
    /\ allocated' = [allocated EXCEPT ![u] = RemoveAt(@, pc[u].pos)]
    /\ Leave(u)
    /\ UNCHANGED <<mpiVars, nextId, teams, wins>>

-----------------------------------------------------------------------------
TeamIds(u) == {allocated[u][i].id : i \in DOMAIN allocated[u]}

CreateStep(u) ==
    \/ CreateForOthers(u) \/ CreateWithoutSlot(u)
    \/ CreateInSlot(u) \/ FinishCreate(u)

RegistryNext ==
    \/ \E u \in Units, recipe \in Recipes : \E t \in TeamIds(u) : EnterCreate(u, t, recipe)
    \/ \E u \in Units : \E t \in TeamIds(u) : EnterDestroy(u, t)
    \/ \E c \in DOMAIN members : CompleteCreate(c)
    \/ \E u \in Units : CreateStep(u) \/ FinishDestroy(u)

-----------------------------------------------------------------------------
\* The collective operations, of the global memory too, and where a unit is.
Operations == {"create", "destroy", "memalloc", "memregister", "memfree", "memderegister"}
Labels == Operations \cup {"idle", "window"}
Requests == [op : Operations, arg : Seq(Nat)]
Results == [id : Int, comm : Nat]

\* RegistryTypeOK: the tables of each unit and the state of MPI.
RegistryTypeOK ==
    /\ members \in Seq(Seq(Units))
    /\ calls \in Seq(Seq([request : Requests, result : Results]))
    /\ made \in Seq([Units -> Nat])
    /\ Len(calls) = Len(members) /\ Len(made) = Len(members)
    /\ \A c \in DOMAIN members : \A u \in Units : made[c][u] <= Len(calls[c])
    /\ pc \in [Units -> [at : Labels, comm : Nat, n : Nat, slot : Slots, pos : Int]]
    /\ nextId \in [Units -> Nat]
    /\ allocated \in [Units -> Seq([index : Slots, id : Nat])]
    /\ free \in [Units -> Seq(Slots)]
    /\ teams \in [Units -> [Slots -> 0 .. Len(members)]]
    /\ wins \in [Units -> [Slots -> 0 .. Len(members)]]

\* The teams u has been given and has not destroyed, by their communicator.
Teams(u) == {teams[u][allocated[u][i].index] : i \in DOMAIN allocated[u]}

Creations(c) == {n \in DOMAIN calls[c] : calls[c][n].result # NotYet}

\* IdsIncrease: the comment in dart_adapt_teamlist_alloc, "the newly created
\* teamid will always be increased", on which the binary search relies, and
\* the third guarantee of dart_team_create: the teams of a unit differ in
\* their ids, although ids are reused by teams without a common unit.
IdsIncrease ==
    \A u \in Units :
        /\ \A i, j \in DOMAIN allocated[u] :
               i < j => allocated[u][i].id < allocated[u][j].id
        /\ \A i \in DOMAIN allocated[u] : allocated[u][i].id < nextId[u]

\* SlotsConserved: at every unit each slot is either free, once, or in use
\* by one team; no sequence of creations and destructions loses or doubles one.
SlotsConserved ==
    \A u \in Units :
        LET used == [i \in DOMAIN allocated[u] |-> allocated[u][i].index]
        IN  /\ IsInjective(free[u] \o used)
            /\ ToSet(free[u] \o used) = Slots

\* TeamsResolve: the first guarantee of dart_team_create with what makes it
\* useful.  A team is found under its id at every member, in whatever slot,
\* the id names the communicator it was created with, and its units are
\* numbered by their global ids in ascending order, however the program put
\* the group together (dart_team_group.h, "The order as in V1 is guaranteed").
TeamsResolve ==
    \A u \in Units : \A t \in TeamIds(u) :
        /\ Known(u, t)
        /\ u \in Members(members[CommOf(u, t)])
        /\ Ascending(members[CommOf(u, t)])
        /\ t # TeamAll =>
               \E c \in DOMAIN calls : \E n \in Creations(c) :
                   calls[c][n].result = [id |-> t, comm |-> CommOf(u, t)]

-----------------------------------------------------------------------------
(* The inductive invariant.                                                *)

\* The n-th call on c: the result of a creation is a later communicator of
\* the units asked for, known when all members have called.
CallInv(c, n) ==
    LET request == calls[c][n].request
        result == calls[c][n].result
    IN  /\ request.op = "create" => request.arg \in Groups \ {<<>>}
        /\ result # NotYet =>
               /\ request.op = "create" /\ result.id \in Nat
               /\ result.comm \in DOMAIN members
               /\ members[result.comm] = request.arg
               /\ MadeBy(Members(members[c]), c, n)

CallsInv ==
    /\ World \in DOMAIN members
    /\ members[World] = [r \in 1 .. Cardinality(Units) |-> r - 1]
    /\ \A c \in DOMAIN members :
           members[c] \in Groups \ {<<>>} /\ \A n \in DOMAIN calls[c] : CallInv(c, n)

\* A unit in a call has made it last, on a communicator it is a member of.
InCall(u) ==
    /\ pc[u].at = "idle" => pc[u] = Idle
    /\ pc[u].at # "idle" =>
           /\ pc[u].comm \in DOMAIN members
           /\ u \in Members(members[pc[u].comm])
           /\ pc[u].n = made[pc[u].comm][u] /\ pc[u].n \in DOMAIN calls[pc[u].comm]

\* The result a unit in dart_team_create is going to get is a new id and a
\* communicator it has not used; afterwards it has them in its lists.
Creating(u) ==
    /\ pc[u].at \in {"create", "window"} => CurrentCall(u).request.op = "create"
    /\ pc[u].at = "create" /\ CurrentCall(u).result # NotYet =>
           /\ CurrentCall(u).result.id >= nextId[u]
           /\ CurrentCall(u).result.comm \notin Teams(u)
           /\ made[CurrentCall(u).result.comm][u] = 0
    /\ pc[u].at = "window" =>
           /\ CurrentCall(u).result # NotYet
           /\ teams[u][pc[u].slot] = CurrentCall(u).result.comm

Destroying(u) ==
    pc[u].at = "destroy" =>
        pc[u].pos \in DOMAIN allocated[u] \ {1} /\ allocated[u][pc[u].pos].index = pc[u].slot

\* A team in the list of u has its communicator in its slot, created with its
\* id, and after the creation its window.
Listed(u, i) ==
    LET slot == allocated[u][i].index
        c == teams[u][slot]
    IN  /\ c \in DOMAIN members /\ u \in Members(members[c])
        /\ i # 1 => \E d \in DOMAIN calls : \E n \in Creations(d) :
               calls[d][n].result = [id |-> allocated[u][i].id, comm |-> c]
        /\ wins[u][slot] = c \/ (pc[u].at = "window" /\ pc[u].slot = slot)

\* The list of a unit: DART_TEAM_ALL comes first, and every team has another
\* communicator.
Lists(u) ==
    /\ allocated[u] # <<>> /\ allocated[u][1] = [index |-> 0, id |-> TeamAll]
    /\ teams[u][0] = World
    /\ \A i \in DOMAIN allocated[u] : Listed(u, i)
    /\ \A i, j \in DOMAIN allocated[u] :
           teams[u][allocated[u][i].index] = teams[u][allocated[u][j].index] => i = j

UnitInv(u) == InCall(u) /\ Creating(u) /\ Destroying(u) /\ Lists(u)

RegistryInv ==
    /\ RegistryTypeOK /\ SlotsConserved /\ IdsIncrease /\ CallsInv
    /\ \A u \in Units : UnitInv(u)
=============================================================================
