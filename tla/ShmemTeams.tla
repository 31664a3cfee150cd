----------------------------- MODULE ShmemTeams -----------------------------
(***************************************************************************)
(* Groups, teams, locks and collective communication of the SHMEM runtime: *)
(* dart_groups_impl.c, dart_teams_impl.c, dart_locks.c,                    *)
(* dart_collective_impl.c and the FIFOs of shmem_p2p_sysv.c, over the      *)
(* shared structure of module SyncArea.                                    *)
(*                                                                         *)
(* The program is a sequence of collective operations, each on the world   *)
(* or on the team an earlier one created; every unit makes the calls it is *)
(* a member for in that order.  A call is the list of its steps for that   *)
(* unit, and one step of the list is one action: a barrier (three), a send *)
(* or a receive through a FIFO, a change of the shared area or of the      *)
(* unit's own tables.  Between calls a unit acquires and releases locks.   *)
(***************************************************************************)
EXTENDS SyncArea, Sequences, Functions, SequencesExt, TLC

CONSTANTS
    Units,      \* all units, 0 .. size - 1
    Programs,   \* bound: the programs, see Op
    Garbage     \* what the team id reads as that dart_shmem_team_new left unset

ASSUME UnitsAssumption == IsFiniteSet(Units) /\ Units # {} /\ Units = 0 .. Cardinality(Units) - 1

\* An operation of a program: its kind, the operation that created its team
\* (0: the world), the group of a new team, the root or the lock's operation.
Op(kind, on, group, arg) == [kind |-> kind, on |-> on, group |-> group, arg |-> arg]

NoLock == -1
Nobody == -1

-----------------------------------------------------------------------------
(* Groups: the number of members, and the tables between global and local  *)
(* ids.  A unit is a member if g2l of it is not negative.                  *)

Ascending(S) ==
    CHOOSE f \in [1 .. Cardinality(S) -> S] : \A j, k \in DOMAIN f : j < k => f[j] < f[k]
MembersOf(g) == {v \in Units : g.g2l[v] >= 0}

\* dart_group_init.
EmptyGroup == [nmem |-> 0, g2l |-> [v \in Units |-> Nobody], l2g |-> [l \in Units |-> Nobody]]

\* group_rebuild numbers the members in one pass over all ids; behind the
\* last one l2g keeps what it had.
Rebuild(g) ==
    LET order == Ascending(MembersOf(g))
    IN  [nmem |-> Len(order),
         g2l |-> [v \in Units |-> IF v \in MembersOf(g) THEN SelectInSeq(order, LAMBDA w : w = v) - 1
                                 ELSE g.g2l[v]],
         l2g |-> [l \in Units |-> IF l < Len(order) THEN order[l + 1] ELSE g.l2g[l]]]

AddMember(g, v) == Rebuild([g EXCEPT !.g2l[v] = 1])
DelMember(g, v) == Rebuild([g EXCEPT !.g2l[v] = -1])

\* Union, intersection and a part of a split, in a group gout that is neither
\* operand: members are marked, then numbered.
Marked(gout, S) == Rebuild([gout EXCEPT !.g2l = [v \in Units |-> IF v \in S THEN 1 ELSE Nobody]])
GroupUnion(g, h, gout) == Marked(gout, MembersOf(g) \union MembersOf(h))
GroupIntersect(g, h, gout) == Marked(gout, MembersOf(g) \intersect MembersOf(h))
GroupSplit(g, n) ==
    LET size(i) == g.nmem \div n + (IF i < g.nmem % n THEN 1 ELSE 0)
        start(i) == i * (g.nmem \div n) + Min({i, g.nmem % n})
    IN  [i \in 1 .. n |-> Marked(EmptyGroup, {g.l2g[l] : l \in start(i - 1) .. start(i - 1) + size(i - 1) - 1})]

\* The group dart_shmem_team_init gives the world.
WorldGroup == FoldLeft(AddMember, EmptyGroup, Ascending(Units))

\* The rank of a unit in ascending order.
Rank(S, v) == Cardinality({w \in S : w < v})

\* What the calls make of every group: global and local ids of the members
\* translate into each other, in ascending order.
GroupOK(g) ==
    /\ g = [nmem |-> Cardinality(MembersOf(g)), g2l |-> g.g2l, l2g |-> g.l2g]
    /\ g.g2l \in [Units -> Int] /\ g.l2g \in [Units -> Int]
    /\ \A v \in MembersOf(g) : g.g2l[v] = Rank(MembersOf(g), v) /\ g.l2g[Rank(MembersOf(g), v)] = v

-----------------------------------------------------------------------------
(* Programs.  The interface demands that all members of a team make the    *)
(* same calls on it in the same order, with groups of members, and none on *)
(* a team or a lock that they have begun to destroy.                       *)

TeamMembers(p, c) == IF c = 0 THEN Units ELSE MembersOf(p[c].group)

\* No call before i has begun to take away what the call c made.
Lives(p, c, i, taking) ==
    /\ c \in 1 .. i - 1
    /\ \A j \in c .. i - 1 : ~(p[j].kind = taking /\ (IF taking = "destroy" THEN p[j].on ELSE p[j].arg) = c)

WellFormed(p) ==
    /\ p = [i \in 1 .. Len(p) |-> Op(p[i].kind, p[i].on, p[i].group, p[i].arg)] /\ Len(p) \in Nat
    /\ \A i \in DOMAIN p :
        LET op == p[i]  members == TeamMembers(p, op.on)
        IN  /\ op.on # 0 => Lives(p, op.on, i, "destroy") /\ p[op.on].kind = "create"
            /\ \/ /\ op.kind = "create" /\ GroupOK(op.group)
                  /\ MembersOf(op.group) # {} /\ MembersOf(op.group) \subseteq members
               \/ op.kind = "destroy" /\ op.on # 0
               \/ op.kind \in {"bcast", "scatter", "gather"} /\ op.arg \in 0 .. Cardinality(members) - 1
               \/ op.kind \in {"allgather", "lockinit"}
               \/ /\ op.kind = "lockfree" /\ Lives(p, op.arg, i, "lockfree")
                  /\ p[op.arg].kind = "lockinit" /\ p[op.arg].on = op.on

ASSUME ProgramsAssumption == \A p \in Programs : WellFormed(p)

\* An unset variable reads as anything, the id of a team included.
ASSUME GarbageAssumption == Garbage \subseteq Int
-----------------------------------------------------------------------------

VARIABLES
    prog,       \* the program
    area,       \* the synchronisation area
    holder,     \* holder[l]: the unit that holds the mutex of lock slot l
    pipes,      \* the FIFOs in the file system, by <<team, from, to>>
    teams,      \* teams[u]: the table teams[] of u
    handle,     \* handle[u][i]: the team or lock operation i returned to u
    pos,        \* pos[u]: the operation u is in, or will enter next
    todo,       \* todo[u]: the steps left of it
    inside,     \* inside[u]: the slot whose barrier u is in, or has looked up
    buf,        \* buf[u]: the message buffer of the operation
    wants       \* wants[u]: the lock slot u waits for in dart_lock_acquire

vars == <<prog, area, holder, pipes, teams, handle, pos, todo, inside, buf, wants>>

Ops == DOMAIN prog
Members(i) == TeamMembers(prog, prog[i].on)
TeamOf(u, i) == IF prog[i].on = 0 THEN TeamAll ELSE handle[u][prog[i].on]

\* The first operation from i on that u takes part in; one past the end if none.
NextOp(p, u, i) ==
    Min({j \in i .. Len(p) : u \in TeamMembers(p, p[j].on)} \union {Len(p) + 1})

Unset == [id |-> NoTeam, valid |-> FALSE, myid |-> 0, group |-> EmptyGroup]
NoMessage == [op |-> 0, newid |-> 0, id |-> NoTeam, size |-> 0, slot |-> NoSlot]

NewPipe == [opened |-> FALSE, queue |-> <<>>]
PipeNames(t, n, me) == {<<t, from, me>> : from \in 0 .. n - 1}

\* dart_shmem_mkfifo leaves a FIFO alone that is there already.
AddPipes(t, n, me) ==
    [name \in DOMAIN pipes \union PipeNames(t, n, me) |->
        IF name \in DOMAIN pipes THEN pipes[name] ELSE NewPipe]

\* dart_init has returned everywhere: the world is slot 0 of every table.
Init ==
    /\ prog \in Programs
    /\ area = AreaInit(Cardinality(Units))
    /\ holder = [l \in LockSlots |-> Nobody]
    /\ pipes = [name \in {TeamAll} \X Units \X Units |-> NewPipe]
    /\ teams = [u \in Units |-> [s \in TeamSlots |->
                   IF s = 0 THEN [id |-> TeamAll, valid |-> TRUE, myid |-> u, group |-> WorldGroup]
                   ELSE Unset]]
    /\ handle = [u \in Units |-> [i \in DOMAIN prog |-> NoTeam]]
    /\ pos = [u \in Units |-> NextOp(prog, u, 1)]
    /\ todo = [u \in Units |-> <<>>]
    /\ inside = [u \in Units |-> NoSlot]
    /\ buf = [u \in Units |-> NoMessage]
    /\ wants = [u \in Units |-> NoLock]

-----------------------------------------------------------------------------
(* The tables of a unit.                                                   *)

\* dart_shmem_team_valid looks at the unit's own table only, which keeps the
\* entries of teams that are gone.
Valid(u, t) == \E s \in TeamSlots : teams[u][s].valid /\ teams[u][s].id = t

Entry(u, t) == teams[u][SlotFor(area, t)]
SizeOf(u, t) == IF t = TeamAll THEN Cardinality(Units) ELSE Entry(u, t).group.nmem
MyId(u, t) == IF t = TeamAll THEN u ELSE Entry(u, t).myid      \* dart_team_myid
G2L(u, t, v) == Entry(u, t).group.g2l[v]                \* dart_team_unit_g2l
L2G(u, t, l) == Entry(u, t).group.l2g[l]                \* dart_team_unit_l2g, l a member's

-----------------------------------------------------------------------------
(* The calls as lists of steps.                                            *)

Step(do) == <<[do |-> do, peer |-> 0, newid |-> 0]>>
Send(l, newid) == [do |-> "send", peer |-> l, newid |-> newid]
Receive(l) == [do |-> "recv", peer |-> l, newid |-> 0]
Barrier == Step("find")

SendAll(ls) == [k \in DOMAIN ls |-> Send(ls[k], k)]
ReceiveAll(ls) == [k \in DOMAIN ls |-> Receive(ls[k])]

Others(n, l) == Ascending((0 .. n - 1) \ {l})

\* Faulty variant: no barrier at the end.
CreateStepsUnguarded(u, g2l, G) ==
    LET order == Ascending(MembersOf(G))
        others == [k \in 1 .. G.nmem - 1 |-> g2l[order[k + 1]]]
    IN  IF u \notin MembersOf(G) THEN Barrier
        ELSE IF u = Min(MembersOf(G))
        THEN Barrier \o Step("newteam") \o SendAll(others) \o Step("init")
        ELSE Barrier \o <<Receive(g2l[Min(MembersOf(G))])>> \o Step("init")

\* The smallest member of the group allocates the team and tells the others,
\* in the old team; non-members only meet the two barriers.
CreateSteps(u, g2l, G) ==
    LET order == Ascending(MembersOf(G))
        others == [k \in 1 .. G.nmem - 1 |-> g2l[order[k + 1]]]
    IN  IF u \notin MembersOf(G) THEN Barrier \o Barrier
        ELSE IF u = Min(MembersOf(G))
        THEN Barrier \o Step("newteam") \o SendAll(others) \o Step("init") \o Barrier
        ELSE Barrier \o <<Receive(g2l[Min(MembersOf(G))])>> \o Step("init") \o Barrier

\* Faulty variant: the FIFOs go first, and unit 0 deletes the team between the
\* barriers.
DestroyStepsDeletingFirst(me) ==
    Step("unlink") \o Barrier \o (IF me = 0 THEN Step("delteam") ELSE <<>>) \o Barrier

DestroySteps(me) ==
    Barrier \o Step("unlink") \o Barrier \o (IF me = 0 THEN Step("delteam") ELSE <<>>)

ScatterSteps(me, n, root) ==
    IF me = root THEN SendAll(Others(n, root)) ELSE <<Receive(root)>>

BcastSteps(me, n, root) == Barrier \o ScatterSteps(me, n, root) \o Barrier

GatherSteps(me, n, root) ==
    (IF me = root THEN ReceiveAll(Others(n, root)) ELSE <<Send(root, 0)>>) \o Barrier

AllgatherSteps(me, n) == GatherSteps(me, n, 0) \o BcastSteps(me, n, 0)

LockInitSteps(me, n) ==
    (IF me = 0 THEN Step("takelock") ELSE <<>>) \o BcastSteps(me, n, 0) \o Step("setlock")

\* The slot is given up before the barrier.
LockFreeSteps(me) == (IF me = 0 THEN Step("droplock") ELSE <<>>) \o Barrier

\* The call op of unit u, which is unit me of the n of its team; g2l are the
\* local ids there.
Steps(op, u, me, n, g2l) ==
    CASE op.kind = "create"    -> CreateSteps(u, g2l, op.group)
      [] op.kind = "destroy"   -> DestroySteps(me)
      [] op.kind = "bcast"     -> BcastSteps(me, n, op.arg)
      [] op.kind = "scatter"   -> ScatterSteps(me, n, op.arg)
      [] op.kind = "gather"    -> GatherSteps(me, n, op.arg)
      [] op.kind = "allgather" -> AllgatherSteps(me, n)
      [] op.kind = "lockinit"  -> LockInitSteps(me, n)
      [] op.kind = "lockfree"  -> LockFreeSteps(me)

StepsOf(u, i) ==
    LET t == TeamOf(u, i)
    IN  Steps(prog[i], u, MyId(u, t), SizeOf(u, t), Entry(u, t).group.g2l)

-----------------------------------------------------------------------------
Idle(u) == todo[u] = <<>> /\ inside[u] = NoSlot
Started(u) == buf[u].op = pos[u]

At(u, do) == inside[u] = NoSlot /\ todo[u] # <<>> /\ Head(todo[u]).do = do

Advance(u) == todo' = [todo EXCEPT ![u] = Tail(@)]

\* The team of the operation u is in.
T(u) == TeamOf(u, pos[u])

\* u neither holds a lock nor waits for one.
HoldsNoLock(u) == wants[u] = NoLock /\ \A l \in LockSlots : holder[l] # u

\* u enters its next operation.  Without its team dart_team_create and
\* dart_team_destroy return at once; the program does not make other calls then.
Begin(u) ==
    /\ Idle(u) /\ ~Started(u) /\ pos[u] \in Ops
    /\ HoldsNoLock(u)
    /\ buf' = [buf EXCEPT ![u] = [NoMessage EXCEPT !.op = pos[u]]]
    /\ todo' = [todo EXCEPT ![u] = IF Valid(u, T(u)) THEN StepsOf(u, pos[u]) ELSE <<>>]
    /\ UNCHANGED <<prog, area, holder, pipes, teams, handle, pos, inside, wants>>

Return(u) ==
    /\ Idle(u) /\ Started(u)
    /\ pos' = [pos EXCEPT ![u] = NextOp(prog, u, pos[u] + 1)]
    /\ UNCHANGED <<prog, area, holder, pipes, teams, handle, todo, inside, buf, wants>>

-----------------------------------------------------------------------------
(* dart_barrier: the slot is looked up, then the barrier there entered.    *)

FindBarrier(u) ==
    LET s == SlotFor(area, T(u))
    IN  /\ At(u, "find")
        /\ inside' = [inside EXCEPT ![u] = s]
        /\ todo' = [todo EXCEPT ![u] = IF ValidSlot(s) THEN Step("await") \o Tail(@) ELSE Tail(@)]
        /\ UNCHANGED <<prog, area, holder, pipes, teams, handle, pos, buf, wants>>

Arrive(u) ==
    LET s == inside[u]
    IN  /\ ValidSlot(s) /\ Head(todo[u]).do = "await"
        /\ area' = Await(area, s, u)
        /\ inside' = [inside EXCEPT ![u] = IF Completes(area, s) THEN NoSlot ELSE s]
        /\ todo' = [todo EXCEPT ![u] = (IF Completes(area, s) THEN <<>> ELSE Step("wait")) \o Tail(@)]
        /\ UNCHANGED <<prog, holder, pipes, teams, handle, pos, buf, wants>>

Leave(u) ==
    LET s == inside[u]
    IN  /\ ValidSlot(s) /\ Head(todo[u]).do = "wait"
        /\ u \in area.teams[s].barr.woken
        /\ area' = Wake(area, s, u)
        /\ inside' = [inside EXCEPT ![u] = NoSlot]
        /\ Advance(u)
        /\ UNCHANGED <<prog, holder, pipes, teams, handle, pos, buf, wants>>

BarrierStep(u) == FindBarrier(u) \/ Arrive(u) \/ Leave(u)

-----------------------------------------------------------------------------
(* FIFOs.  The slot of the team gives the table entry, and that the name.  *)

PipeTo(u, l) == LET e == Entry(u, T(u)) IN <<e.id, e.myid, l>>
PipeFrom(u, l) == LET e == Entry(u, T(u)) IN <<e.id, l, e.myid>>

\* dart_shmem_recv: the first time the FIFO is opened, which lets the sender
\* open it.
OpenToRead(u) ==
    LET name == PipeFrom(u, Head(todo[u]).peer)
    IN  /\ At(u, "recv")
        /\ name \in DOMAIN pipes /\ ~pipes[name].opened
        /\ pipes' = [pipes EXCEPT ![name].opened = TRUE]
        /\ UNCHANGED <<prog, area, holder, teams, handle, pos, todo, inside, buf, wants>>

\* A FIFO that does not exist is an error nobody looks at, here and in send.
Recv(u) ==
    LET name == PipeFrom(u, Head(todo[u]).peer)
        there == name \in DOMAIN pipes
    IN  /\ At(u, "recv")
        /\ there => pipes[name].queue # <<>>
        /\ pipes' = IF there THEN [pipes EXCEPT ![name].queue = Tail(@)] ELSE pipes
        /\ buf' = IF there
                  THEN [buf EXCEPT ![u] = [Head(pipes[name].queue) EXCEPT !.op = pos[u]]]
                  ELSE buf
        /\ Advance(u)
        /\ UNCHANGED <<prog, area, holder, teams, handle, pos, inside, wants>>

\* dart_shmem_send blocks in open until the reader has opened the FIFO.
SendTo(u) ==
    LET name == PipeTo(u, Head(todo[u]).peer)
        there == name \in DOMAIN pipes
        message == [buf[u] EXCEPT !.newid = Head(todo[u]).newid]
    IN  /\ At(u, "send")
        /\ there => pipes[name].opened
        /\ pipes' = IF there THEN [pipes EXCEPT ![name].queue = Append(@, message)] ELSE pipes
        /\ Advance(u)
        /\ UNCHANGED <<prog, area, holder, teams, handle, pos, inside, buf, wants>>

FifoStep(u) == OpenToRead(u) \/ Recv(u) \/ SendTo(u)

-----------------------------------------------------------------------------
(* Creation and destruction of teams.                                      *)

Group(u) == prog[pos[u]].group

\* dart_shmem_team_new by the master, whose own new id is 0.
NewTeamSlot(u) ==
    LET s == Min(FreeTeamSlots(area))
    IN  /\ At(u, "newteam") /\ FreeTeamSlots(area) # {}
        /\ area' = NewTeam(area, s, Group(u).nmem)
        /\ buf' = [buf EXCEPT ![u] =
               [@ EXCEPT !.id = area.nextid, !.size = Group(u).nmem, !.newid = 0, !.slot = s]]
        /\ Advance(u)
        /\ UNCHANGED <<prog, holder, pipes, teams, handle, pos, inside, wants>>

\* No slot: an error is logged, and the team id sent on was never written; it
\* may be that of a team.  Nobody looks at the slot in the message.
NewTeamNoSlot(u) ==
    /\ At(u, "newteam") /\ FreeTeamSlots(area) = {}
    /\ \E id \in Garbage :
           buf' = [buf EXCEPT ![u] =
               [@ EXCEPT !.id = id, !.size = Group(u).nmem, !.newid = 0, !.slot = NoSlot]]
    /\ Advance(u)
    /\ UNCHANGED <<prog, area, holder, pipes, teams, handle, pos, inside, wants>>

\* No team was made, and the id that was never written is that of the world or
\* of some other team.
Misled(u) ==
    /\ buf[u].slot = NoSlot
    /\ buf[u].id = TeamAll \/ ValidSlot(FindTeam(area, buf[u].id))

\* Faulty variant: an entry that is valid already is kept, as if destroying a
\* team reset it.
InitTeamOnce(u) ==
    LET m == buf[u]  s == FindTeam(area, m.id)
    IN  /\ At(u, "init") /\ ~ Misled(u) /\ ValidSlot(s)
        /\ teams' = [teams EXCEPT ![u][s] =
               IF @.valid THEN @
               ELSE [id |-> m.id, valid |-> TRUE, myid |-> m.newid, group |-> Group(u)]]
        /\ pipes' = AddPipes(m.id, m.size, m.newid)
        /\ handle' = [handle EXCEPT ![u][pos[u]] = m.id]
        /\ Advance(u)
        /\ UNCHANGED <<prog, area, holder, pos, inside, buf, wants>>

\* dart_shmem_team_init and the assignments after it, in a slot that is found.
InitTeam(u) ==
    LET m == buf[u]  s == FindTeam(area, m.id)
    IN  /\ At(u, "init") /\ ~ Misled(u) /\ ValidSlot(s)
        /\ teams' = [teams EXCEPT ![u][s] =
               [id |-> m.id, valid |-> TRUE, myid |-> m.newid, group |-> Group(u)]]
        /\ pipes' = AddPipes(m.id, m.size, m.newid)
        /\ handle' = [handle EXCEPT ![u][pos[u]] = m.id]
        /\ Advance(u)
        /\ UNCHANGED <<prog, area, holder, pos, inside, buf, wants>>

\* No slot has the id: DART_ERR_NOTFOUND is not looked at, *newteam stays null.
InitTeamNotFound(u) ==
    /\ At(u, "init") /\ ~ Misled(u) /\ ~ValidSlot(FindTeam(area, buf[u].id))
    /\ Advance(u)
    /\ UNCHANGED <<prog, area, holder, pipes, teams, handle, pos, inside, buf, wants>>

\* dart_shmem_team_init takes the entry of the other team for the new one, or
\* clears the table and makes the world a team of the new group.  From then on
\* u goes by a team it is not a member of, or not in that place: what it does
\* is not followed, and neither is what that does to the others.
InitMisled(u) ==
    LET entry == [id |-> buf[u].id, valid |-> TRUE, myid |-> buf[u].newid, group |-> Group(u)]
        cleared == [s \in TeamSlots |-> [teams[u][s] EXCEPT !.valid = FALSE]]
    IN  /\ At(u, "init") /\ Misled(u)
        /\ teams' = [teams EXCEPT ![u] =
               IF buf[u].id = TeamAll THEN [cleared EXCEPT ![0] = entry]
               ELSE [teams[u] EXCEPT ![FindTeam(area, buf[u].id)] = entry]]
        /\ todo' = [todo EXCEPT ![u] = Step("lost")]
        /\ UNCHANGED <<prog, area, holder, pipes, handle, pos, inside, buf, wants>>

\* The FIFOs of u's team that lead to u.
PipesTo(u) ==
    LET e == Entry(u, T(u)) IN PipeNames(e.id, SizeOf(u, T(u)), e.myid)

\* dart_shmem_p2p_destroy: the FIFOs to u are unlinked.
UnlinkPipes(u) ==
    /\ At(u, "unlink")
    /\ pipes' = Restrict(pipes, DOMAIN pipes \ PipesTo(u))
    /\ Advance(u)
    /\ UNCHANGED <<prog, area, holder, teams, handle, pos, inside, buf, wants>>

DeleteTeam(u) ==
    /\ At(u, "delteam")
    /\ area' = DelTeam(area, T(u))
    /\ Advance(u)
    /\ UNCHANGED <<prog, holder, pipes, teams, handle, pos, inside, buf, wants>>

TeamStep(u) ==
    \/ NewTeamSlot(u) \/ NewTeamNoSlot(u)
    \/ InitTeam(u) \/ InitTeamNotFound(u) \/ InitMisled(u)
    \/ UnlinkPipes(u) \/ DeleteTeam(u)

-----------------------------------------------------------------------------
(* Locks.                                                                  *)

TakeLockSlot(u) ==
    /\ At(u, "takelock")
    /\ area' = TakeLock(area, FreeLock(area), T(u))
    /\ buf' = [buf EXCEPT ![u].id = FreeLock(area)]
    /\ Advance(u)
    /\ UNCHANGED <<prog, holder, pipes, teams, handle, pos, inside, wants>>

\* The end of dart_team_lock_init: DART_ERR_OTHER leaves the lock unset.
SetLock(u) ==
    /\ At(u, "setlock")
    /\ handle' = [handle EXCEPT ![u][pos[u]] =
           IF buf[u].id = MaxLocks THEN NoLock ELSE buf[u].id]
    /\ Advance(u)
    /\ UNCHANGED <<prog, area, holder, pipes, teams, pos, inside, buf, wants>>

DropLockSlot(u) ==
    /\ At(u, "droplock")
    /\ area' = DropLock(area, handle[u][prog[pos[u]].arg])
    /\ Advance(u)
    /\ UNCHANGED <<prog, holder, pipes, teams, handle, pos, inside, buf, wants>>

\* u has been given the lock of operation i and has not begun to free it.
HasLock(u, i) ==
    /\ prog[i].kind = "lockinit" /\ i < pos[u] /\ handle[u][i] # NoLock
    /\ \A j \in Ops : prog[j].kind = "lockfree" /\ prog[j].arg = i =>
           j > pos[u] \/ (j = pos[u] /\ ~Started(u))

\* u is between two calls, holds no lock, and lock slot l is that of a lock it
\* has.  After its last operation a unit takes no lock (bound).
MayTake(u, l) ==
    /\ Idle(u) /\ ~Started(u) /\ pos[u] \in Ops /\ HoldsNoLock(u)
    /\ \E i \in Ops : HasLock(u, i) /\ l = handle[u][i]

\* dart_lock_acquire is entered, and returns with the mutex.
AcquireLock(u) ==
    /\ \E l \in LockSlots : MayTake(u, l) /\ wants' = [wants EXCEPT ![u] = l]
    /\ UNCHANGED <<prog, area, holder, pipes, teams, handle, pos, todo, inside, buf>>

GetLock(u) ==
    /\ wants[u] # NoLock /\ holder[wants[u]] = Nobody
    /\ holder' = [holder EXCEPT ![wants[u]] = u]
    /\ wants' = [wants EXCEPT ![u] = NoLock]
    /\ UNCHANGED <<prog, area, pipes, teams, handle, pos, todo, inside, buf>>

\* dart_lock_try_acquire, when it succeeds; otherwise it changes nothing.
TryAcquireLock(u) ==
    /\ \E l \in LockSlots :
           MayTake(u, l) /\ holder[l] = Nobody /\ holder' = [holder EXCEPT ![l] = u]
    /\ UNCHANGED <<prog, area, pipes, teams, handle, pos, todo, inside, buf, wants>>

ReleaseLock(u) ==
    /\ \E l \in LockSlots : holder[l] = u /\ holder' = [holder EXCEPT ![l] = Nobody]
    /\ UNCHANGED <<prog, area, pipes, teams, handle, pos, todo, inside, buf, wants>>

LockStep(u) ==
    \/ TakeLockSlot(u) \/ SetLock(u) \/ DropLockSlot(u)
    \/ AcquireLock(u) \/ GetLock(u) \/ TryAcquireLock(u) \/ ReleaseLock(u)

-----------------------------------------------------------------------------
Finished(u) == Idle(u) /\ wants[u] = NoLock /\ pos[u] \notin Ops

UnitStep(u) == Begin(u) \/ Return(u) \/ BarrierStep(u) \/ FifoStep(u) \/ TeamStep(u) \/ LockStep(u)

Next == \E u \in Units : UnitStep(u)

\* A slot whose barrier is torn, and a unit in that barrier or about to enter.
TornSlots == {s \in TeamSlots : area.teams[s].barr.torn}
InTorn(u) == inside[u] \in TornSlots

\* Every process keeps running, goes on with its program and releases the
\* locks it holds; a mutex that stays free is taken by one who waits for it,
\* and nothing more is assumed of who gets it.  A unit may take a lock between
\* any two calls, so going on is assumed strongly.  Nothing at all is assumed
\* of a unit in a torn barrier.
Fairness == \A u \in Units :
    /\ WF_vars(\/ Return(u) \/ (BarrierStep(u) /\ ~ InTorn(u)) \/ FifoStep(u) \/ TeamStep(u)
               \/ TakeLockSlot(u) \/ SetLock(u) \/ DropLockSlot(u) \/ GetLock(u))
    /\ SF_vars(Begin(u))
    /\ WF_vars(ReleaseLock(u))

Spec == Init /\ [][Next]_vars /\ Fairness

-----------------------------------------------------------------------------
(* Properties.                                                             *)

\* No unit has taken another team for the one it was to make (InitMisled).  The
\* properties are about the time up to then; a program that creates fewer than
\* MAXNUM_TEAMS teams never gets there.
Lost(u) == todo[u] = Step("lost")
NobodyLost == \A u \in Units : ~ Lost(u)

BeforeLastBarrier(u) == \E k \in DOMAIN todo[u] : todo[u][k].do \in {"find", "await"}

\* u may still use the team of operation i.
MayUse(u, i) ==
    /\ prog[i].kind = "create" /\ handle[u][i] # NoTeam
    /\ \A j \in Ops : prog[j].kind = "destroy" /\ prog[j].on = i =>
           j > pos[u] \/ (j = pos[u] /\ (~Started(u) \/ BeforeLastBarrier(u)))

\* As long as a unit may use a team, the shared area has the team in exactly
\* one slot, with a barrier for its size, and the unit's own entry of that slot
\* is that team; its members agree on the id and no other team has it; global
\* and local ids of members translate into each other in the ascending order
\* the interface guarantees, however the group was put together.  This is what
\* the look-ups by id in every call of dart_teams_impl.c rely on while slots
\* are recycled.
TeamsResolve ==
    NobodyLost => \A u \in Units, i \in Ops : MayUse(u, i) =>
        LET t == handle[u][i]  s == FindTeam(area, t)  G == prog[i].group
        IN  /\ SlotsOf(area, t) = {s}
            /\ area.teams[s].barr.procs = Cardinality(MembersOf(G))
            /\ teams[u][s] = [id |-> t, valid |-> TRUE, myid |-> Rank(MembersOf(G), u), group |-> G]
            /\ SizeOf(u, t) = Cardinality(MembersOf(G))
            /\ \A v \in MembersOf(G) : G2L(u, t, v) = Rank(MembersOf(G), v) /\ L2G(u, t, G2L(u, t, v)) = v
            /\ \A v \in Units, j \in Ops :
                   (prog[j].kind = "create" /\ handle[v][j] # NoTeam) =>
                       ((handle[v][j] = t) <=> (i = j))

\* Whoever sleeps in the barrier of a slot, or has looked the slot up and is
\* about to enter, is in a call on the team that has the slot: the slot is not
\* cleared or given to another team under it (dart_shmem_team_delete).
SleepersBelong ==
    NobodyLost => \A u \in Units : LET s == inside[u] IN
        ValidSlot(s) /\ u \notin area.teams[s].barr.woken =>
            /\ area.teams[s].inuse /\ area.teams[s].id = T(u)
            /\ (Head(todo[u]).do = "wait") <=> (u \in area.teams[s].barr.asleep)

\* A unit that is to send or receive finds its FIFO, and the next message it
\* receives was sent in the same collective operation, although scatter starts
\* and ends without a barrier and gather starts without one.  No FIFO is
\* unlinked with a message in it.
MessagesMatch ==
    NobodyLost => \A u \in Units :
        /\ At(u, "unlink") => \A name \in PipesTo(u) \cap DOMAIN pipes : pipes[name].queue = <<>>
        /\ At(u, "send") => PipeTo(u, Head(todo[u]).peer) \in DOMAIN pipes
        /\ At(u, "recv") =>
               LET name == PipeFrom(u, Head(todo[u]).peer)
               IN  /\ name \in DOMAIN pipes
                   /\ pipes[name].queue # <<>> => Head(pipes[name].queue).op = pos[u]

\* Nobody has begun to free the lock of operation i.
LockAlive(i) == \A v \in Members(i), j \in Ops :
    prog[j].kind = "lockfree" /\ prog[j].arg = i => j > pos[v] \/ (j = pos[v] /\ ~Started(v))

\* Members of a team agree on the slot of a lock, and two locks of which no
\* member has begun to free either have different slots, which are marked.
LocksApart ==
    NobodyLost => \A u, v \in Units, i, j \in Ops :
        HasLock(u, i) /\ HasLock(v, j) /\ LockAlive(i) /\ LockAlive(j) =>
            /\ (handle[u][i] = handle[v][j]) <=> (i = j)
            /\ area.locks[handle[u][i]].inuse

\* Every call of every unit returns: the blocking opens and reads of the FIFOs,
\* the barriers and dart_lock_acquire never leave a unit waiting for ever, up to
\* the first time a barrier is made anew under a unit that is leaving it.
EveryCallReturns == <>(TornSlots # {} \/ ~ NobodyLost \/ \A u \in Units : Finished(u))
=============================================================================
