----------------------------- MODULE Lifetimes ------------------------------
(***************************************************************************)
(* Life and death of DASH's global containers: dash::Team with its list of *)
(* deallocators, dash::Array, Matrix, Shared and SharedCounter over GlobMem*)
(* and dash::init / finalize.  Every unit runs the same program, a list of *)
(* calls; a call is a list of steps in todo[u].  Barriers, allocations and *)
(* the creation of teams are steps the units of a team take together; the  *)
(* shared window of an allocation is freed by the units of the team on one *)
(* node together; everything else a unit does when it gets there.          *)
(*                                                                         *)
(* What the containers expect of their user, and do not see to themselves, *)
(* is in Disciplined.                                                      *)
(***************************************************************************)
EXTENDS Integers, Sequences, FiniteSets

CONSTANTS
    Units,
    PartOf,     \* PartOf[u]: the part of Team::All that split gives unit u
    NodeOf,     \* NodeOf[u]: the node unit u runs on
    Programs    \* the programs: objs maps the names of the containers to
                \* [kind |-> ..., team |-> ...], calls lists the calls

Kinds == {"array", "late", "matrix", "shared", "counter"}
Teams == {"all", "sub"}

\* Among the first n calls every touch of o is followed by one that waits for
\* its team: a barrier, or the barriers of free and finalize.
Settled(p, o, n) ==
    \A i \in 1 .. n : p.calls[i] = <<"touch", o>> =>
        \E k \in i .. n : p.calls[k] \in
            ({"barrier", "free"} \X {"all", p.objs[o].team}) \union {<<"finalize", "all">>}

\* Call y comes somewhere between a call x and the call at n.
Between(p, x, y, n) ==
    \A i \in 1 .. n : p.calls[i] = x => \E k \in i .. n : p.calls[k] = y

\* A program destroys what it has built, and ends after finalize.  It waits
\* between the last use of a matrix or a shared value and its destruction,
\* and between a counter's construction and its use; it gives a late array
\* memory, the constructor leaves its pointer unset.
Disciplined(p) ==
    LET q == p.calls IN
    /\ q[Len(q)] = <<"end", "all">> /\ \E k \in DOMAIN q : q[k] = <<"finalize", "all">>
    /\ \A o \in DOMAIN p.objs :
        /\ p.objs[o].kind \in Kinds /\ p.objs[o].team \in Teams
        /\ p.objs[o].kind = "shared" => p.objs[o].team = "all"
        /\ Between(p, <<"construct", o>>, <<"destroy", o>>, Len(q))
        /\ \A n \in DOMAIN q :
            /\ q[n] \in {<<"destroy", o>>, <<"deallocate", o>>} =>
                /\ p.objs[o].kind \in {"matrix", "shared"} => Settled(p, o, n)
                /\ p.objs[o].kind = "late" => Between(p, <<"construct", o>>, <<"allocate", o>>, n)
            /\ q[n] = <<"touch", o>> /\ p.objs[o].kind = "counter" =>
                Between(p, <<"construct", o>>, <<"barrier", "all">>, n)

ASSUME UnitsAssumption == IsFiniteSet(Units) /\ 0 \in Units /\ Units \subseteq Nat
ASSUME PartsAssumption == DOMAIN PartOf = Units /\ DOMAIN NodeOf = Units
ASSUME ProgramsAssumption == \A p \in Programs : Disciplined(p)

VARIABLES
    prog,           \* the program
    at,             \* at[u]: calls unit u has begun
    todo,           \* todo[u]: steps of its present call
    initialized,    \* initialized[u]: dash::_initialized
    child,          \* child[u]: whether Team::All()'s _child is set
    deallocs,       \* deallocs[u][t]: Team::_deallocs, oldest first
    base,           \* base[u]: base of Team::free's reverse iterator, 1 outside it
    built,          \* built[u]: containers between constructor and destructor
    bound,          \* bound[u]: those of them that have a team
    held,           \* held[u]: those whose m_globmem is not null
    live,           \* live[u]: those whose memory the unit has not given back
    zeroed,         \* zeroed[u]: counters the unit has set to zero
    sent            \* the Shared containers whose pointer unit 0 has sent

unitvars == <<at, todo, initialized, child, deallocs, base, built, bound, held, live, zeroed>>
vars == <<prog, unitvars, sent>>

Objs == DOMAIN prog.objs
Kind(o) == prog.objs[o].kind
TeamOf(o) == prog.objs[o].team
IsArray(o) == Kind(o) \in {"array", "late", "counter"}

\* The units of u's team t.
MembersOf(u, t) == IF t = "all" THEN Units ELSE {v \in Units : PartOf[v] = PartOf[u]}
Neighbours(u, t) == {v \in MembersOf(u, t) : NodeOf[v] = NodeOf[u]}
IsRoot(u, t) == \A v \in MembersOf(u, t) : u <= v           \* myid() == 0

Init ==
    /\ prog \in Programs
    /\ at = [u \in Units |-> 0]
    /\ todo = [u \in Units |-> <<>>]
    /\ initialized = [u \in Units |-> TRUE]
    /\ child = [u \in Units |-> FALSE]
    /\ deallocs = [u \in Units |-> [t \in Teams |-> <<>>]]
    /\ base = [u \in Units |-> 1]
    /\ built = [u \in Units |-> {}]
    /\ bound = [u \in Units |-> {}]
    /\ held = [u \in Units |-> {}]
    /\ live = [u \in Units |-> {}]
    /\ zeroed = [u \in Units |-> {}]
    /\ sent = {}

-----------------------------------------------------------------------------
(* The calls as lists of steps.  A step is <<name, team or container>>.    *)

Barrier(t) == <<<<"barrier", t>>>>

\* Team::split: dart_team_create on the team for every part.
SplitSteps == <<<<"create", "all">>>>

\* Faulty variant: a unit without elements of its own is done after the
\* allocation.
AllocateStepsWithoutBarrier(u, o) ==
    <<<<"alloc", o>>>> \o IF Kind(o) = "matrix" \/ PartOf[u] = 2 THEN <<>> ELSE Barrier(TeamOf(o))

\* Array::allocate and Matrix::allocate: GlobMem's collective allocation and
\* register_deallocator; only the array meets a barrier afterwards.
AllocateSteps(u, o) ==
    <<<<"alloc", o>>>> \o IF Kind(o) = "matrix" THEN <<>> ELSE Barrier(TeamOf(o))

\* The constructors.  A late array is Array(team) with the null team.
ConstructSteps(u, o) ==
    CASE Kind(o) \in {"array", "matrix"} -> AllocateSteps(u, o)
      [] Kind(o) = "counter" -> AllocateSteps(u, o) \o <<<<"zero", o>>>>
      [] Kind(o) = "shared" /\ IsRoot(u, TeamOf(o)) -> <<<<"local", o>>, <<"send", o>>>>
      [] Kind(o) = "shared" /\ ~IsRoot(u, TeamOf(o)) -> <<<<"receive", o>>>>
      [] OTHER -> <<>>

\* Faulty variant: the barrier comes when the memory is gone.
DeallocateStepsBarrierLast(u, o) ==
    IF IsArray(o)
    THEN <<<<"release", o>>>> \o
         IF initialized[u] /\ o \in bound[u] THEN Barrier(TeamOf(o)) ELSE <<>>
    ELSE IF o \in held[u] THEN <<<<"release", o>>>> ELSE <<>>

\* Faulty variant: the array meets its team whether or not DASH is still there.
DeallocateStepsAlways(u, o) ==
    IF IsArray(o)
    THEN (IF o \in bound[u] THEN Barrier(TeamOf(o)) ELSE <<>>) \o <<<<"release", o>>>>
    ELSE IF o \in held[u] THEN <<<<"release", o>>>> ELSE <<>>

\* Array::deallocate waits for its team while DASH is initialised (the null
\* team has no barrier); Matrix::deallocate returns early without memory.
DeallocateSteps(u, o) ==
    IF IsArray(o)
    THEN (IF initialized[u] /\ o \in bound[u] THEN Barrier(TeamOf(o)) ELSE <<>>)
         \o <<<<"release", o>>>>
    ELSE IF o \in held[u] THEN <<<<"release", o>>>> ELSE <<>>

\* Faulty variant: the unit that owns the value waits before it deletes it.
DestroyStepsOwnerWaits(u, o) ==
    (IF Kind(o) # "shared" THEN DeallocateSteps(u, o)
     ELSE IF initialized[u] /\ IsRoot(u, TeamOf(o))
     THEN Barrier(TeamOf(o)) \o <<<<"drop", o>>>> ELSE <<>>)
    \o <<<<"unbuild", o>>>>

\* The destructors; ~Shared deletes at unit 0 of the team, and myid() is -1
\* once DASH is gone.
DestroySteps(u, o) ==
    (IF Kind(o) # "shared" THEN DeallocateSteps(u, o)
     ELSE IF initialized[u] /\ IsRoot(u, TeamOf(o)) THEN <<<<"drop", o>>>> ELSE <<>>)
    \o <<<<"unbuild", o>>>>

\* Team::free, a loop over the list from its end.
FreeSteps(t) == <<<<"rbegin", t>>>>

\* dash::finalize.
FinalizeSteps(u) ==
    IF ~initialized[u] THEN <<>>
    ELSE Barrier("all") \o FreeSteps("all") \o Barrier("all") \o <<<<"exit", "all">>>>

\* The end of the process: ~Team of _team_all deletes its child, then frees.
EndSteps(u) == (IF child[u] THEN FreeSteps("sub") ELSE <<>>) \o FreeSteps("all")

StepsOf(u, c) ==
    CASE c[1] = "split" -> SplitSteps
      [] c[1] = "construct" -> ConstructSteps(u, c[2])
      [] c[1] = "allocate" -> AllocateSteps(u, c[2])
      [] c[1] = "deallocate" -> DeallocateSteps(u, c[2])
      [] c[1] = "destroy" -> DestroySteps(u, c[2])
      [] c[1] = "free" -> FreeSteps(c[2])
      [] c[1] = "barrier" -> Barrier(c[2])
      [] c[1] = "touch" -> <<<<"touch", c[2]>>>>
      [] c[1] = "finalize" -> FinalizeSteps(u)
      [] c[1] = "end" -> EndSteps(u)

Ended(u) == at[u] = Len(prog.calls) /\ todo[u] = <<>>

\* The next call of the program; a constructor's object exists from now on.
Begin(u) ==
    /\ todo[u] = <<>> /\ ~Ended(u)
    /\ LET c == prog.calls[at[u] + 1] IN
       /\ todo' = [todo EXCEPT ![u] = StepsOf(u, c)]
       /\ built' = IF c[1] = "construct" THEN [built EXCEPT ![u] = @ \union {c[2]}] ELSE built
    /\ at' = [at EXCEPT ![u] = @ + 1]
    /\ UNCHANGED <<prog, initialized, child, deallocs, base, bound, held, live, zeroed, sent>>

-----------------------------------------------------------------------------
(* Steps of a team together.                                               *)

Next1(u) == IF todo[u] = <<>> THEN <<"idle", "all">> ELSE Head(todo[u])
Done(G) == todo' = [u \in Units |-> IF u \in G THEN Tail(todo[u]) ELSE todo[u]]

\* dart_barrier
Meet(G, t) ==
    /\ \A u \in G : Next1(u) = <<"barrier", t>>
    /\ Done(G)
    /\ UNCHANGED <<prog, at, initialized, child, deallocs, base, built, bound, held, live,
                   zeroed, sent>>

\* GlobMem(team, nlelem), then register_deallocator.
Allocate(G, o) ==
    /\ \A u \in G : Next1(u) = <<"alloc", o>>
    /\ Done(G)
    /\ bound' = [u \in Units |-> IF u \in G THEN bound[u] \union {o} ELSE bound[u]]
    /\ held' = [u \in Units |-> IF u \in G THEN held[u] \union {o} ELSE held[u]]
    /\ live' = [u \in Units |-> IF u \in G THEN live[u] \union {o} ELSE live[u]]
    /\ deallocs' = [u \in Units |->
                       IF u \in G THEN [deallocs[u] EXCEPT ![TeamOf(o)] = Append(@, o)]
                       ELSE deallocs[u]]
    /\ UNCHANGED <<prog, at, initialized, child, base, built, zeroed, sent>>

\* dart_team_create and new Team(newteam, this, i).
CreateTeams ==
    /\ \A u \in Units : Next1(u) = <<"create", "all">>
    /\ Done(Units)
    /\ child' = [u \in Units |-> TRUE]
    /\ UNCHANGED <<prog, at, initialized, deallocs, base, built, bound, held, live, zeroed, sent>>

\* MPI_Win_free of the allocation's shared window, the end of ~GlobMem.
FreeWindow(G, o) ==
    /\ \A u \in G : Next1(u) = <<"winfree", o>>
    /\ Done(G)
    /\ held' = [u \in Units |-> IF u \in G THEN held[u] \ {o} ELSE held[u]]
    /\ UNCHANGED <<prog, at, initialized, child, deallocs, base, built, bound, live, zeroed, sent>>

Together(u) ==
    \/ \E t \in Teams : Meet(MembersOf(u, t), t)
    \/ \E o \in Objs : \/ Allocate(MembersOf(u, TeamOf(o)), o)
                       \/ FreeWindow(Neighbours(u, TeamOf(o)), o)
    \/ CreateTeams

-----------------------------------------------------------------------------
(* Steps of a unit alone.                                                  *)

At(u, name) == todo[u] # <<>> /\ Head(todo[u])[1] = name
Arg(u) == Head(todo[u])[2]
Then(u, steps) == todo' = [todo EXCEPT ![u] = steps \o Tail(@)]

\* The end of a destructor.
Unbuild(u) ==
    /\ At(u, "unbuild")
    /\ Then(u, <<>>)
    /\ built' = [built EXCEPT ![u] = @ \ {Arg(u)}]
    /\ bound' = [bound EXCEPT ![u] = @ \ {Arg(u)}]
    /\ held' = [held EXCEPT ![u] = @ \ {Arg(u)}]
    /\ UNCHANGED <<prog, at, initialized, child, deallocs, base, live, zeroed, sent>>

Without(q, o) == SelectSeq(q, LAMBDA p : p # o)
Before(q, k, o) == Cardinality({i \in 1 .. k - 1 : q[i] = o})

\* The rest of deallocate: unregister_deallocator removes every entry of the
\* container, wherever an iterator of Team::free stands; ~GlobMem calls
\* dart_team_memfree unless DASH is gone, which detaches the memory and goes
\* on to free the window it shares with the node's other members.
Release(u) ==
    LET o == Arg(u)
        t == TeamOf(o)
    IN  /\ At(u, "release")
        /\ deallocs' = [deallocs EXCEPT ![u][t] = Without(@, o)]
        /\ base' = [base EXCEPT ![u] = @ - Before(deallocs[u][t], @, o)]
        /\ IF initialized[u] /\ o \in held[u]
           THEN /\ Then(u, <<<<"winfree", o>>>>)
                /\ live' = [live EXCEPT ![u] = @ \ {o}]
                /\ UNCHANGED held
           ELSE /\ Then(u, <<>>)
                /\ held' = [held EXCEPT ![u] = @ \ {o}]
                /\ UNCHANGED live
        /\ UNCHANGED <<prog, at, initialized, child, built, bound, zeroed, sent>>

\* Shared: unit 0 allocates and sends the pointer, the others receive it;
\* only unit 0 deletes.
Local(u) ==
    /\ At(u, "local")
    /\ Then(u, <<>>)
    /\ held' = [held EXCEPT ![u] = @ \union {Arg(u)}]
    /\ live' = [live EXCEPT ![u] = @ \union {Arg(u)}]
    /\ UNCHANGED <<prog, at, initialized, child, deallocs, base, built, bound, zeroed, sent>>

Send(u) ==
    /\ At(u, "send")
    /\ Then(u, <<>>)
    /\ sent' = sent \union {Arg(u)}
    /\ UNCHANGED <<prog, at, initialized, child, deallocs, base, built, bound, held, live, zeroed>>

Receive(u) ==
    /\ At(u, "receive") /\ Arg(u) \in sent
    /\ Then(u, <<>>)
    /\ UNCHANGED <<prog, at, initialized, child, deallocs, base, built, bound, held, live, zeroed, sent>>

Drop(u) ==
    /\ At(u, "drop")
    /\ Then(u, <<>>)
    /\ held' = [held EXCEPT ![u] = @ \ {Arg(u)}]
    /\ live' = [live EXCEPT ![u] = @ \ {Arg(u)}]
    /\ UNCHANGED <<prog, at, initialized, child, deallocs, base, built, bound, zeroed, sent>>

\* SharedCounter's _local_counts[_myid] = 0, after the array's barrier.
Zero(u) ==
    /\ At(u, "zero")
    /\ Then(u, <<>>)
    /\ zeroed' = [zeroed EXCEPT ![u] = @ \union {Arg(u)}]
    /\ UNCHANGED <<prog, at, initialized, child, deallocs, base, built, bound, held, live, sent>>

\* The program reads the container's elements at every unit.
Touch(u) ==
    /\ At(u, "touch")
    /\ Then(u, <<>>)
    /\ UNCHANGED <<prog, at, initialized, child, deallocs, base, built, bound, held, live, zeroed, sent>>

\* Team::free: a reverse iterator with base b stands for element b - 1; the
\* base after the last element is end().
Loop(u, t, b) ==
    /\ base' = [base EXCEPT ![u] = b]
    /\ IF b # 1                                             \* rend()
       THEN /\ Then(u, Barrier(t) \o <<<<"invoke", t>>, <<"next", t>>>>)
            /\ UNCHANGED deallocs
       ELSE /\ Then(u, <<>>)
            /\ deallocs' = [deallocs EXCEPT ![u][t] = <<>>]
    /\ UNCHANGED <<prog, at, initialized, child, built, bound, held, live, zeroed, sent>>

RBegin(u) == At(u, "rbegin") /\ Loop(u, Arg(u), Len(deallocs[u][Arg(u)]) + 1)

\* (dealloc->deallocator)()
Invoke(u) ==
    /\ At(u, "invoke")
    /\ Then(u, DeallocateSteps(u, deallocs[u][Arg(u)][base[u] - 1]))
    /\ UNCHANGED <<prog, at, initialized, child, deallocs, base, built, bound, held, live, zeroed, sent>>

\* ++dealloc.  The list has shrunk meanwhile, and the base may stand at its
\* beginning: the node before it is end(), in the circular list of the build.
Advance(u) ==
    /\ At(u, "next")
    /\ LET t == Arg(u) IN
       Loop(u, t, IF base[u] = 1 THEN Len(deallocs[u][t]) + 1 ELSE base[u] - 1)

\* dart_exit, and _initialized = false.
Exit(u) ==
    /\ At(u, "exit")
    /\ Then(u, <<>>)
    /\ initialized' = [initialized EXCEPT ![u] = FALSE]
    /\ UNCHANGED <<prog, at, child, deallocs, base, built, bound, held, live, zeroed, sent>>

Alone(u) ==
    \/ Begin(u) \/ Unbuild(u) \/ Release(u) \/ Local(u) \/ Send(u) \/ Receive(u)
    \/ Drop(u) \/ Zero(u) \/ Touch(u) \/ RBegin(u) \/ Invoke(u) \/ Advance(u) \/ Exit(u)

Next == \E u \in Units : Alone(u) \/ Together(u)

\* Every unit keeps running its program.
Fairness == \A u \in Units : WF_vars(Alone(u)) /\ WF_vars(Together(u))

Spec == Init /\ [][Next]_vars /\ Fairness

-----------------------------------------------------------------------------
(* Properties.                                                             *)

\* Whoever reads a container finds its memory at every unit of the team, and
\* a counter set to zero.
AccessesLive ==
    \A u \in Units : At(u, "touch") =>
        LET o == Arg(u) IN
        \A v \in MembersOf(u, TeamOf(o)) :
            \/ Kind(o) = "shared" /\ ~IsRoot(v, TeamOf(o))
            \/ /\ o \in live[v] /\ initialized[v]
               /\ Kind(o) = "counter" => o \in zeroed[v]

\* A team's list names containers that exist and have memory, each once.
DeallocatorsLive ==
    \A u \in Units, t \in Teams :
        LET q == deallocs[u][t] IN
        /\ \A i \in DOMAIN q : q[i] \in built[u] \cap held[u]
        /\ \A i, j \in DOMAIN q : q[i] = q[j] => i = j

\* Construction and destruction synchronise enough for every access, and
\* Team::free calls no deallocator of an object that is gone, whatever was
\* given up, taken again, freed with its team or left to finalize.
NothingDangles == AccessesLive /\ DeallocatorsLive

\* After dart_exit a unit calls nothing of DART, whatever is destroyed then.
NoCallAfterExit ==
    \A u \in Units : ~initialized[u] =>
        Next1(u)[1] \notin {"barrier", "alloc", "create", "winfree", "local", "send", "receive",
                            "drop", "touch"}

\* A collective call: its communicator (of a team, or of its members on a
\* node) and what is called on it; a broadcast that is there does not wait.
Collective(s) ==
    \/ s[1] \in {"barrier", "alloc", "create", "winfree", "send"}
    \/ s[1] = "receive" /\ s[2] \notin sent
CommMeant(s) == <<s[1] = "winfree", IF s[2] \in Objs THEN TeamOf(s[2]) ELSE s[2]>>
CallMade(s) == IF s[1] = "receive" THEN <<"send", s[2]>> ELSE s
CommOf(u, c) == IF c[1] THEN Neighbours(u, c[2]) ELSE MembersOf(u, c[2])

\* Units that wait for each other on a communicator wait in the same
\* collective call: a barrier, an allocation, the creation of teams, the
\* broadcast of a shared value's pointer, the end of a shared window.
CollectivesMatch ==
    \A u \in Units : Collective(Next1(u)) =>
        LET c == CommMeant(Next1(u)) IN
        \A v \in CommOf(u, c) :
            Collective(Next1(v)) /\ CommMeant(Next1(v)) = c => CallMade(Next1(v)) = CallMade(Next1(u))

\* Every unit comes to the end of the program: no container leaves part of
\* its team waiting for the others.
EveryoneEnds == <>(\A u \in Units : Ended(u))

=============================================================================
