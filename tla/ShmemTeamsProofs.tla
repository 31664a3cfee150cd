-------------------------- MODULE ShmemTeamsProofs --------------------------
(***************************************************************************)
(* Theorems about ShmemTeams, for any set of units and any set of well-    *)
(* formed programs: the look-ups by id find the one slot of the team,      *)
(* nobody sleeps in a slot that is cleared, every message is received in   *)
(* the operation it was sent in, and locks that are not freed are apart.   *)
(* The unset team id that is sent on when no slot is free may be anything; *)
(* each of these holds up to the first unit that takes another team for    *)
(* the new one because of it (NobodyLost), and the last theorem says that  *)
(* with fewer teams than slots no unit ever does.                          *)
(*                                                                         *)
(* The invariant is in ShmemTeamsLemmas; here are the steps that send and  *)
(* receive, those that make and end teams and locks, and the properties.   *)
(***************************************************************************)
EXTENDS ShmemTeamsLemmas

\* A unit receives.
LEMMA RecvStep ==
    ASSUME NEW p, NEW ids, NEW left, NEW over, Coupled(p, ids, left, over), NEW u \in Units, Recv(u)
    PROVE  \E next : Coupled(p, ids, next, over)'
<1>1. /\ WellFormed(p) /\ TypesOK(p) /\ prog = p /\ GhostsOK(p, ids, left, over) /\ p \in Programs
  BY ProgIs
<1>. PICK i, c, l : i = pos[u] /\ c = p[pos[u]].on /\ l = Len(todo[u])
  OBVIOUS
<1>. PICK next : next = [left EXCEPT ![u][pos[u]] = @ - 1]
  OBVIOUS
<1>2. At(u, "recv") /\ Advance(u) /\ UNCHANGED <<prog, area, holder, teams, handle, pos, inside>>
  BY DEF Recv
<1>3. Standing(p, ids, left, u, i, c, l) /\ StepAt(p, u, i, l).do = "recv"
  BY <1>2, AtStands
<1>4. PICK v \in TeamMembers(p, c) :
               /\ v \in Units /\ v \in Mem(p, i) /\ ReceivesFrom(p, u, i, l, v)
               /\ PipeFrom(u, Head(todo[u]).peer) = Pipe(p, ids, c, v, u)
               /\ Pipe(p, ids, c, v, u) \in DOMAIN pipes
               /\ QueueOK(p, ids, left, c, v, u, pipes[Pipe(p, ids, c, v, u)].queue)
  BY <1>3, ReceiverFinds
<1>. PICK name : name = Pipe(p, ids, c, v, u)
  OBVIOUS
<1>. PICK q : q = pipes[name].queue
  OBVIOUS
<1>5. pipes \in [DOMAIN pipes -> [opened : BOOLEAN, queue : Seq(Message)]] /\ name \in DOMAIN pipes
  BY <1>1, <1>4 DEF TypesOK
<1>6. q \in Seq(Message) /\ q # <<>> /\ QueueOK(p, ids, left, c, v, u, q)
  BY <1>4, <1>5, Zenon DEF Recv
<1>7. /\ Head(q).op = i /\ Sent(p, left, v, i, u) /\ MessageOK(p, ids, i, u, Head(q)) /\ Head(q) \in Message
  BY <1>3, <1>4, <1>6, HeadIsOurs, SMTT(30)
<1>8. /\ i \in DOMAIN p /\ i \in Nat /\ u \in Mem(p, i) /\ l \in 1 .. Size(p, u, i) /\ l \in Nat
      /\ left[u][i] = l /\ u \in TeamMembers(p, c) /\ c \in Teams(p, ids) /\ c = p[i].on /\ buf[u].op = i
      /\ Mem(p, i) = TeamMembers(p, c) /\ i = pos[u]
  BY <1>3 DEF Standing
<1>9. /\ pipes' = WithQueue(name, Tail(q))
      /\ buf' = [buf EXCEPT ![u] = [Head(q) EXCEPT !.op = pos[u]]]
  <2>1. PipeFrom(u, Head(todo[u]).peer) = name /\ name \in DOMAIN pipes
    BY <1>4
  <2>2. /\ pipes' = [pipes EXCEPT ![name].queue = Tail(@)]
        /\ buf' = [buf EXCEPT ![u] = [Head(pipes[name].queue) EXCEPT !.op = pos[u]]]
    BY <2>1, Zenon DEF Recv
  <2>3. [pipes EXCEPT ![name].queue = Tail(@)] = [pipes EXCEPT ![name].queue = Tail(pipes[name].queue)]
    OBVIOUS
  <2>. QED  BY <2>2, <2>3, Zenon DEF WithQueue
<1>10. Tail(q) \in Seq(Message)
  BY <1>6
<1>11. /\ pipes' \in [DOMAIN pipes -> [opened : BOOLEAN, queue : Seq(Message)]]
       /\ DOMAIN pipes' = DOMAIN pipes /\ pipes'[name].queue = Tail(q)
       /\ \A x \in DOMAIN pipes : x # name => pipes'[x].queue = pipes[x].queue
  BY <1>5, <1>9, <1>10, NewQueue, Zenon
<1>. PICK m : m = [Head(q) EXCEPT !.op = pos[u]]
  OBVIOUS
<1>12. /\ m \in Message /\ m.op = i /\ m.id = Head(q).id /\ m.size = Head(q).size /\ m.newid = Head(q).newid
       /\ m.slot = Head(q).slot
  BY <1>7, <1>8, Zenon DEF Message
<1>13. /\ buf' \in [Units -> Message] /\ buf'[u] = m /\ \A w \in Units : w # u => buf'[w] = buf[w]
       /\ \A w \in Units : buf'[w].op = buf[w].op
  BY <1>1, <1>8, <1>9, <1>12, Zenon DEF TypesOK
<1>14. /\ Stepped(p, left, next, u, pos[u], "recv", Len(todo[u])) /\ GhostsOK(p, ids, next, over)
       /\ \A w \in Units : PlaceOK(p, ids, next, w)' /\ OverOK(p, ids, next, over, w)' /\ InsideOK(w)'
       /\ IdsOK(p, ids, next) /\ CountOK(p, ids, next)' /\ \A w \in Units : HandlesOK(p, ids, next, w)'
       /\ AreaOK(p, ids, next)' /\ \A w \in Units : TableOK(p, ids, next, w)'
       /\ PipesOK(p, ids, next)' /\ LocksOK(p, ids, next)'
       /\ \A w \in Units : (todo'[w] # <<>> => todo[w] # <<>>) /\ (w # u => todo'[w] = todo[w])
       /\ todo' \in [Units -> Seq(StepRec)]
  <2>1. /\ \A w \in Units : buf'[w].op = buf[w].op
        /\ DOMAIN pipes' = DOMAIN pipes
        /\ next = [left EXCEPT ![u][pos[u]] = @ - 1]
    BY <1>11, <1>13, Zenon
  <2>2. "recv" \in {"send", "recv"}
    OBVIOUS
  <2>. QED  BY Coupled(p, ids, left, over), u \in Units, <1>2, <2>1, <2>2, TalkParts, ZenonT(30)
<1>15. Stepped(p, left, next, u, i, "recv", l)
  BY <1>14, Zenon
<1>16. TypesOK(p)'
  BY <1>1, <1>2, <1>11, <1>13, <1>14, Zenon DEF TypesOK
<1>17. \A x : ~ SendsTo(p, u, i, l, x)
  BY <1>3, Zenon DEF SendsTo
<1>18. \A x : x \in Mem(p, i) /\ ReceivesFrom(p, u, i, l, x) => x = v
  <2>1. \A x \in Mem(p, i) : Rank(Mem(p, i), x) = Rank(Mem(p, i), v) => x = v
    BY <1>1, <1>4, <1>8, ProgramTeams
  <2>. QED  BY ONLY <1>4, <2>1 DEF ReceivesFrom
<1>19. QueueOK(p, ids, next, c, v, u, Tail(q))
  <2>1. \A j \in DOMAIN p : p[j].on = c =>
               /\ Sent(p, next, v, j, u) <=> Sent(p, left, v, j, u)
               /\ Got(p, next, u, j, v) <=> (Got(p, left, u, j, v) \/ j = i)
    <3>1. \A j \in DOMAIN p : p[j].on = c => v \in Mem(p, j) /\ u \in Mem(p, j)
      BY <1>8, Zenon DEF Mem
    <3>. QED  BY <1>4, <1>15, <1>17, <3>1, Zenon DEF Stepped
  <2>. QED  BY ONLY <1>6, <1>7, <2>1, QueueTail
<1>20. QueuesOK(p, ids, next)'
  <2>. PICK w, do : w = u /\ do = "recv"
    OBVIOUS
  <2>1. /\ WellFormed(p) /\ IdsOK(p, ids, left) /\ QueuesOK(p, ids, left)
        /\ i \in DOMAIN p /\ Stepped(p, left, next, u, i, do, l)
    BY <1>1, <1>8, <1>15, Zenon DEF Coupled
  <2>2. c = p[i].on /\ c \in Teams(p, ids) /\ v \in TeamMembers(p, c) /\ w \in TeamMembers(p, c)
    BY <1>8, Zenon
  <2>3. OnlyBetween(p, u, i, l, v, w)
    BY <1>17, <1>18, Zenon DEF OnlyBetween
  <2>4. OnlyQueue(Pipe(p, ids, c, v, w))
    BY <1>11, Zenon DEF OnlyQueue
  <2>5. QueueOK(p, ids, next, c, v, w, pipes'[Pipe(p, ids, c, v, w)].queue)
    BY <1>11, <1>19, Zenon
  <2>. QED  BY <2>1, <2>2, <2>3, <2>4, <2>5, OtherQueues, Zenon
<1>21. ReceivedOK(p, next)
  <2>. SUFFICES ASSUME NEW j \in DOMAIN p, NEW x \in Mem(p, j), NEW y \in Mem(p, j), Got(p, next, x, j, y)
                PROVE  Sent(p, next, y, j, x)
    BY Zenon DEF ReceivedOK
  <2>1. Got(p, left, x, j, y) \/ (x = u /\ j = i /\ y = v)
    BY <1>15, <1>18, Zenon DEF Stepped
  <2>2. Sent(p, left, y, j, x)
    BY <1>7, <2>1, Zenon DEF Coupled, ReceivedOK
  <2>. QED  BY <1>15, <2>2, Zenon DEF Stepped
<1>22. ASSUME NEW w \in Units PROVE BufOK(p, ids, next, w)'
  <2>1. CASE w # u
    <3>1. BufOK(p, ids, left, w) /\ buf'[w] = buf[w] /\ pos' = pos /\ (todo'[w] # <<>> => todo[w] # <<>>)
      BY <1>2, <1>13, <1>14, <2>1, Zenon DEF Coupled
    <3>. QED  BY ONLY w \in Units, <1>15, <2>1, <3>1, BufOther
  <2>2. CASE w = u
    <3>1. MessageOK(p, ids, i, u, m)
      <4>1. Told(p, i, m) = Told(p, i, Head(q))
        BY ONLY <1>12 DEF Told
      <4>. QED  BY <1>7, <1>12, <4>1, Zenon DEF MessageOK
    <3>. QED  BY <1>2, <1>8, <1>13, <2>2, <3>1, Zenon DEF BufOK
  <2>. QED  BY <2>1, <2>2, Zenon
<1>23. Coupled(p, ids, next, over)'
  BY <1>1, <1>14, <1>16, <1>20, <1>21, <1>22, Zenon DEF Coupled
<1>. QED  BY <1>23, Zenon

\* What a sender has not sent yet is not in the FIFO, and nothing after it is.
LEMMA NotSentYet ==
    ASSUME NEW p, NEW ids, NEW left, NEW over, Coupled(p, ids, left, over),
           NEW u \in Units, NEW i, NEW c, NEW l, Standing(p, ids, left, u, i, c, l),
           NEW w, w \in Mem(p, i), SendsTo(p, u, i, l, w)
    PROVE  /\ ~ Sent(p, left, u, i, w)
           /\ \A j \in DOMAIN p : u \in Mem(p, j) /\ Sent(p, left, u, j, w) => j <= i
<1>1. /\ WellFormed(p) /\ i \in DOMAIN p /\ u \in Mem(p, i) /\ l \in 1 .. Size(p, u, i) /\ left[u][i] = l /\ i = pos[u]
      /\ l \in Nat /\ i \in Nat
  BY ProgIs DEF Standing
<1>2. ~ Sent(p, left, u, i, w)
  <2>. SUFFICES ASSUME NEW k \in 1 .. Size(p, u, i), l < k, SendsTo(p, u, i, k, w)
                PROVE  FALSE
    BY <1>1 DEF Sent
  <2>1. k = l
    BY <1>1, TalkPairs
  <2>. QED  BY <1>1, <2>1
<1>3. ASSUME NEW j \in DOMAIN p, u \in Mem(p, j), Sent(p, left, u, j, w)
      PROVE  j <= i
  <2>1. PICK k \in 1 .. Size(p, u, j) : left[u][j] < k
    BY <1>3 DEF Sent
  <2>2. /\ left[u][j] \in Nat /\ Size(p, u, j) \in Nat /\ pos[u] \in Nat /\ j \in Nat
        /\ j > pos[u] => left[u][j] = Size(p, u, j)
    BY <1>3, LeftIs
  <2>. QED  BY <1>1, <2>1, <2>2
<1>. QED  BY <1>2, <1>3

\* What the master of a create or of a lock's initialisation sends is what it
\* made, and the new id it gives is the receiver's.
LEMMA MessageIs ==
    ASSUME NEW p, NEW ids, NEW left, NEW over, Coupled(p, ids, left, over),
           NEW u \in Units, NEW i, NEW c, NEW l, Standing(p, ids, left, u, i, c, l), StepAt(p, u, i, l).do = "send",
           NEW w, w \in Mem(p, i), SendsTo(p, u, i, l, w),
           NEW m, m.id = buf[u].id, m.size = buf[u].size, m.newid = StepAt(p, u, i, l).newid,
           m.slot = buf[u].slot
    PROVE  MessageOK(p, ids, i, w, m)
<1>. SUFFICES ASSUME p[i].kind \in {"create", "lockinit"}
              PROVE  MessageOK(p, ids, i, w, m)
  BY DEF MessageOK
<1>1. /\ WellFormed(p) /\ i \in DOMAIN p /\ u \in Mem(p, i) /\ l \in 1 .. Size(p, u, i) /\ left[u][i] = l /\ i = pos[u]
      /\ Started(u) /\ todo[u] # <<>>
  BY ProgIs DEF Standing
<1>2. MakingAt(p, u, i, l)
  BY <1>1, CallIs DEF CallOK, MakingOK
<1>3. /\ u = Maker(p, i) /\ l < MakeLeft(p, i)
      /\ p[i].kind = "create" => \E x \in For(p, i) \ {u} :
            /\ StepAt(p, u, i, l).peer = Rank(Mem(p, i), x)
            /\ StepAt(p, u, i, l).newid = Rank(For(p, i), x)
  BY <1>2 DEF MakingAt
<1>4. u \in For(p, i) /\ For(p, i) \subseteq Mem(p, i)
  BY <1>1, <1>3, ProgramTeams
<1>5. Informed(p, left, u, i)
  BY <1>1, <1>3 DEF Informed
<1>6. MessageOK(p, ids, i, u, buf[u])
  BY <1>1, <1>4, <1>5 DEF Coupled, BufOK
<1>7. p[i].kind = "create" => m.newid = Rank(For(p, i), w)
  <2>. SUFFICES ASSUME p[i].kind = "create" PROVE m.newid = Rank(For(p, i), w)
    OBVIOUS
  <2>1. PICK x \in For(p, i) : /\ StepAt(p, u, i, l).peer = Rank(Mem(p, i), x)
                               /\ StepAt(p, u, i, l).newid = Rank(For(p, i), x)
    BY <1>3
  <2>2. x \in Mem(p, i) /\ Rank(Mem(p, i), w) = Rank(Mem(p, i), x)
    BY <1>4, <2>1 DEF SendsTo
  <2>3. x = w
    BY <1>1, <2>2, ProgramTeams
  <2>. QED  BY <2>1, <2>3
<1>8. Told(p, i, m) = Told(p, i, buf[u])
  BY DEF Told
<1>. QED  BY <1>6, <1>7, <1>8 DEF MessageOK

\* A unit sends.
LEMMA SendStep ==
    ASSUME NEW p, NEW ids, NEW left, NEW over, Coupled(p, ids, left, over), NEW u \in Units, SendTo(u)
    PROVE  \E next : Coupled(p, ids, next, over)'
<1>1. /\ WellFormed(p) /\ TypesOK(p) /\ prog = p /\ GhostsOK(p, ids, left, over) /\ p \in Programs
  BY ProgIs
<1>. PICK i, c, l : i = pos[u] /\ c = p[pos[u]].on /\ l = Len(todo[u])
  OBVIOUS
<1>. PICK next : next = [left EXCEPT ![u][pos[u]] = @ - 1]
  OBVIOUS
<1>2. At(u, "send") /\ Advance(u) /\ UNCHANGED <<prog, area, holder, teams, handle, pos, inside, buf>>
  BY DEF SendTo
<1>3. Standing(p, ids, left, u, i, c, l) /\ StepAt(p, u, i, l).do = "send"
  BY <1>2, AtStands
<1>4. PICK w \in TeamMembers(p, c) :
               /\ w \in Units /\ w \in Mem(p, i) /\ SendsTo(p, u, i, l, w)
               /\ PipeTo(u, Head(todo[u]).peer) = Pipe(p, ids, c, u, w)
               /\ Pipe(p, ids, c, u, w) \in DOMAIN pipes
               /\ QueueOK(p, ids, left, c, u, w, pipes[Pipe(p, ids, c, u, w)].queue)
  BY <1>3, SenderFinds
<1>. PICK name : name = Pipe(p, ids, c, u, w)
  OBVIOUS
<1>. PICK q : q = pipes[name].queue
  OBVIOUS
<1>. PICK m : m = [buf[u] EXCEPT !.newid = Head(todo[u]).newid]
  OBVIOUS
<1>5. pipes \in [DOMAIN pipes -> [opened : BOOLEAN, queue : Seq(Message)]] /\ name \in DOMAIN pipes
  BY <1>1, <1>4 DEF TypesOK
<1>6. q \in Seq(Message) /\ QueueOK(p, ids, left, c, u, w, q)
  BY <1>4, <1>5
<1>7. /\ i \in DOMAIN p /\ i \in Nat /\ u \in Mem(p, i) /\ l \in 1 .. Size(p, u, i) /\ l \in Nat
      /\ left[u][i] = l /\ u \in TeamMembers(p, c) /\ c \in Teams(p, ids) /\ c = p[i].on /\ buf[u].op = i
      /\ Mem(p, i) = TeamMembers(p, c) /\ i = pos[u] /\ Head(todo[u]) = StepAt(p, u, i, l)
      /\ StepAt(p, u, i, l) \in StepRec
  BY <1>3 DEF Standing
<1>8. buf[u] \in Message
  BY <1>1 DEF TypesOK
<1>9. /\ m \in Message /\ m.op = i /\ m.id = buf[u].id /\ m.size = buf[u].size /\ m.newid = StepAt(p, u, i, l).newid
      /\ m.slot = buf[u].slot
  <2>1. Head(todo[u]).newid \in Int
    BY <1>7 DEF StepRec
  <2>. QED  BY <1>7, <1>8, <2>1 DEF Message
<1>10. pipes' = WithQueue(name, Append(q, m))
  <2>1. PipeTo(u, Head(todo[u]).peer) = name /\ name \in DOMAIN pipes
    BY <1>4
  <2>2. pipes' = [pipes EXCEPT ![name].queue = Append(@, m)]
    BY <2>1, Zenon DEF SendTo
  <2>3. [pipes EXCEPT ![name].queue = Append(@, m)] = [pipes EXCEPT ![name].queue = Append(pipes[name].queue, m)]
    OBVIOUS
  <2>. QED  BY <2>2, <2>3, Zenon DEF WithQueue
<1>11. MessageOK(p, ids, i, w, m)
  BY ONLY Coupled(p, ids, left, over), u \in Units, <1>3, <1>4, <1>9, MessageIs
<1>12. /\ ~ Sent(p, left, u, i, w)
       /\ \A j \in DOMAIN p : u \in Mem(p, j) /\ Sent(p, left, u, j, w) => j <= i
  BY ONLY Coupled(p, ids, left, over), u \in Units, <1>3, <1>4, NotSentYet
<1>13. ~ Got(p, left, w, i, u)
  BY <1>4, <1>7, <1>12 DEF Coupled, ReceivedOK
<1>14. /\ Stepped(p, left, next, u, pos[u], "send", Len(todo[u])) /\ GhostsOK(p, ids, next, over)
       /\ \A x \in Units : PlaceOK(p, ids, next, x)' /\ OverOK(p, ids, next, over, x)' /\ InsideOK(x)'
       /\ IdsOK(p, ids, next) /\ CountOK(p, ids, next)' /\ \A x \in Units : HandlesOK(p, ids, next, x)'
       /\ AreaOK(p, ids, next)' /\ \A x \in Units : TableOK(p, ids, next, x)'
       /\ PipesOK(p, ids, next)' /\ LocksOK(p, ids, next)'
       /\ \A x \in Units : (todo'[x] # <<>> => todo[x] # <<>>) /\ (x # u => todo'[x] = todo[x])
       /\ todo' \in [Units -> Seq(StepRec)]
  <2>1. /\ \A x \in Units : buf'[x].op = buf[x].op
        /\ DOMAIN pipes' = DOMAIN pipes
        /\ next = [left EXCEPT ![u][pos[u]] = @ - 1]
    BY <1>2, <1>10, Zenon DEF WithQueue
  <2>2. "send" \in {"send", "recv"}
    OBVIOUS
  <2>. QED  BY Coupled(p, ids, left, over), u \in Units, <1>2, <2>1, <2>2, TalkParts, ZenonT(30)
<1>15. Stepped(p, left, next, u, i, "send", l)
  BY <1>14
<1>16. \A x : ~ ReceivesFrom(p, u, i, l, x)
  BY <1>3 DEF ReceivesFrom
<1>17. \A x : x \in Mem(p, i) /\ SendsTo(p, u, i, l, x) => x = w
  <2>1. \A x \in Mem(p, i) : Rank(Mem(p, i), x) = Rank(Mem(p, i), w) => x = w
    BY <1>1, <1>4, <1>7, ProgramTeams
  <2>. QED  BY <1>4, <2>1 DEF SendsTo
<1>18. QueueOK(p, ids, next, c, u, w, Append(q, m)) /\ Append(q, m) \in Seq(Message)
  <2>1. \A j \in DOMAIN p : p[j].on = c =>
               /\ Sent(p, next, u, j, w) <=> (Sent(p, left, u, j, w) \/ j = m.op)
               /\ Got(p, next, w, j, u) <=> Got(p, left, w, j, u)
    <3>1. \A j \in DOMAIN p : p[j].on = c => u \in Mem(p, j) /\ w \in Mem(p, j)
      BY <1>7 DEF Mem
    <3>. QED  BY <1>4, <1>9, <1>15, <1>16, <3>1, Zenon DEF Stepped
  <2>2. \A k \in DOMAIN q : q[k].op < m.op
    <3>. SUFFICES ASSUME NEW k \in DOMAIN q PROVE q[k].op < m.op
      OBVIOUS
    <3>1. q[k].op \in DOMAIN p /\ p[q[k].op].on = c /\ Sent(p, left, u, q[k].op, w)
      BY <1>6, Zenon DEF QueueOK
    <3>2. u \in Mem(p, q[k].op)
      BY <1>7, <3>1, Zenon DEF Mem
    <3>3. q[k].op <= i /\ q[k].op # i
      BY <1>12, <3>1, <3>2, Zenon
    <3>4. q[k].op \in Nat
      <4>1. q[k] \in Message
        BY <1>6
      <4>. QED  BY <4>1, Zenon DEF Message
    <3>. QED  BY <1>7, <1>9, <3>3, <3>4
  <2>3. m.op \in DOMAIN p /\ p[m.op].on = c /\ MessageOK(p, ids, m.op, w, m) /\ ~ Got(p, left, w, m.op, u)
    BY <1>7, <1>9, <1>11, <1>13
  <2>4. m \in Message
    BY <1>9
  <2>. QED  BY ONLY <1>6, <2>1, <2>2, <2>3, <2>4, QueueAppend
<1>19. /\ pipes' \in [DOMAIN pipes -> [opened : BOOLEAN, queue : Seq(Message)]]
       /\ DOMAIN pipes' = DOMAIN pipes /\ pipes'[name].queue = Append(q, m)
       /\ \A x \in DOMAIN pipes : x # name => pipes'[x].queue = pipes[x].queue
  BY <1>5, <1>10, <1>18, NewQueue, Zenon
<1>20. TypesOK(p)'
  BY <1>1, <1>2, <1>14, <1>19, Zenon DEF TypesOK
<1>21. QueuesOK(p, ids, next)'
  <2>. PICK v, do : v = u /\ do = "send"
    OBVIOUS
  <2>1. /\ WellFormed(p) /\ IdsOK(p, ids, left) /\ QueuesOK(p, ids, left)
        /\ i \in DOMAIN p /\ Stepped(p, left, next, u, i, do, l)
    BY <1>1, <1>7, <1>15 DEF Coupled
  <2>2. c = p[i].on /\ c \in Teams(p, ids) /\ v \in TeamMembers(p, c) /\ w \in TeamMembers(p, c)
    BY <1>7
  <2>3. OnlyBetween(p, u, i, l, v, w)
    BY <1>16, <1>17 DEF OnlyBetween
  <2>4. OnlyQueue(Pipe(p, ids, c, v, w))
    BY <1>19, Zenon DEF OnlyQueue
  <2>5. QueueOK(p, ids, next, c, v, w, pipes'[Pipe(p, ids, c, v, w)].queue)
    BY <1>18, <1>19, Zenon
  <2>. QED  BY ONLY <2>1, <2>2, <2>3, <2>4, <2>5, OtherQueues
<1>22. ReceivedOK(p, next)
  <2>1. ReceivedOK(p, left)
    BY DEF Coupled
  <2>. QED  BY ONLY <1>15, <1>16, <2>1, ReceivedStep
<1>23. \A x \in Units : BufOK(p, ids, next, x)'
  <2>1. \A x \in Units : BufOK(p, ids, left, x)
    BY DEF Coupled
  <2>2. /\ \A x \in Units : todo'[x] # <<>> => todo[x] # <<>>
        /\ buf' = buf /\ pos' = pos /\ "send" \notin {"newteam", "takelock", "recv"}
    BY <1>2, <1>14
  <2>. QED  BY ONLY <1>15, <2>1, <2>2, BufStep
<1>24. Coupled(p, ids, next, over)'
  BY <1>1, <1>14, <1>20, <1>21, <1>22, <1>23, Zenon DEF Coupled
<1>. QED  BY <1>24

\* No queue has changed that is still there.
QueuesKept == \A name \in DOMAIN pipes' : name \in DOMAIN pipes /\ pipes'[name].queue = pipes[name].queue

\* What a step that neither sends nor receives leaves as it was in the FIFOs.
LEMMA SilentParts ==
    ASSUME NEW p, NEW ids, NEW left, NEW over, Coupled(p, ids, left, over),
           NEW next, NEW u, NEW i, NEW do, NEW l, Stepped(p, left, next, u, i, do, l),
           StepAt(p, u, i, l).do = do, do \notin {"send", "recv"}, QueuesKept
    PROVE  QueuesOK(p, ids, next)' /\ ReceivedOK(p, next)
<1>1. /\ QueuesOK(p, ids, left) /\ ReceivedOK(p, left) /\ Stepped(p, left, next, u, i, do, l)
      /\ \A w : ~ SendsTo(p, u, i, l, w) /\ ~ ReceivesFrom(p, u, i, l, w)
  BY DEF Coupled, SendsTo, ReceivesFrom
<1>2. \A name \in DOMAIN pipes' : name \in DOMAIN pipes /\ pipes'[name].queue = pipes[name].queue
  BY DEF QueuesKept
<1>3. QueuesOK(p, ids, next)'
  BY ONLY <1>1, <1>2, QueuesStep
<1>4. ReceivedOK(p, next)
  BY ONLY <1>1, ReceivedStep
<1>. QED  BY <1>3, <1>4

\* A step of a call that makes something: what it is for the call.
LEMMA MakingIs ==
    ASSUME NEW p, NEW ids, NEW left, NEW over, Coupled(p, ids, left, over),
           NEW u \in Units, NEW i, NEW c, NEW l, Standing(p, ids, left, u, i, c, l)
    PROVE  /\ MakingAt(p, u, i, l) /\ BarrierOK(p, u, i) /\ SizeOK(p, u, i)
           /\ i \in DOMAIN p /\ WellFormed(p) /\ u \in Mem(p, i)
<1>1. i \in DOMAIN p /\ WellFormed(p) /\ u \in Mem(p, i) /\ l \in 1 .. Size(p, u, i)
  BY ProgIs DEF Standing
<1>2. CallOK(p, u, i)
  BY <1>1, CallIs
<1>. QED  BY <1>1, <1>2 DEF CallOK, MakingOK

\* The group of a new team.
LEMMA NewGroup ==
    ASSUME NEW p, WellFormed(p), NEW i \in DOMAIN p, p[i].kind = "create"
    PROVE  /\ p[i].group \in GroupRec /\ For(p, i) = MembersOf(p[i].group)
           /\ p[i].group.nmem = Cardinality(For(p, i)) /\ Cardinality(For(p, i)) \in Nat \ {0}
           /\ Rank(For(p, i), Maker(p, i)) = 0 /\ Maker(p, i) \in For(p, i)
<1>1. GroupOK(p[i].group) /\ For(p, i) = MembersOf(p[i].group)
  BY ProgramKinds DEF For
<1>2. p[i].group \in GroupRec /\ p[i].group.nmem = Cardinality(For(p, i))
  BY <1>1, GroupOKType
<1>3. IsTeam(For(p, i)) /\ Maker(p, i) \in For(p, i) /\ \A v \in For(p, i) : Rank(For(p, i), v) = 0 <=> v = Maker(p, i)
  BY ProgramTeams
<1>. QED  BY <1>1, <1>2, <1>3 DEF IsTeam

\* A unit about to initialise its table for a new team: what it has been told
\* is the id of the team, which has a slot, or that of none.
LEMMA InitStands ==
    ASSUME NEW p, NEW ids, NEW left, NEW over, Coupled(p, ids, left, over),
           NEW u \in Units, NEW i, NEW c, NEW l, Standing(p, ids, left, u, i, c, l), StepAt(p, u, i, l).do = "init"
    PROVE  /\ p[i].kind = "create" /\ u \in For(p, i) /\ l = 2 /\ MessageOK(p, ids, i, u, buf[u])
           /\ ids[i] # NoTeam =>
                  /\ buf[u].id = ids[i] /\ ids[i] \in 1 .. Len(p) /\ i \in Teams(p, ids) /\ i # 0
                  /\ ~ Deleted(p, left, i) /\ buf[u].slot # NoSlot
                  /\ SlotIs(p, ids, i, FindTeam(area, buf[u].id))
<1>1. /\ MakingAt(p, u, i, l) /\ i \in DOMAIN p /\ WellFormed(p) /\ u \in Mem(p, i)
      /\ left[u][i] = l /\ i = pos[u] /\ Started(u) /\ todo[u] # <<>> /\ DOMAIN p = 1 .. Len(p) /\ i \in Nat
      /\ SizeOK(p, u, i)
  BY MakingIs, ProgIs DEF Standing
<1>2. p[i].kind = "create" /\ u \in For(p, i) /\ l = 2
  BY <1>1 DEF MakingAt
<1>3. Cardinality(For(p, i)) \in Nat \ {0} /\ Maker(p, i) \in For(p, i) /\ Maker(p, i) \in Mem(p, i)
  BY <1>1, <1>2, NewGroup, ProgramTeams
<1>4. Informed(p, left, u, i)
  <2>1. CallOK(p, Maker(p, i), i)
    BY <1>1, <1>3, CallIs
  <2>2. Size(p, Maker(p, i), i) = Cardinality(For(p, i)) + 3
    BY <1>2, <2>1 DEF CallOK, SizeOK
  <2>3. MakeLeft(p, i) = Cardinality(For(p, i)) + 2
    BY <1>2, <1>3, <2>2 DEF MakeLeft
  <2>4. 2 < MakeLeft(p, i)
    BY <1>3, <2>3
  <2>. QED  BY <1>1, <1>2, <2>4 DEF Informed
<1>5. MessageOK(p, ids, i, u, buf[u])
  BY <1>1, <1>2, <1>4 DEF Coupled, BufOK
<1>6. ASSUME ids[i] # NoTeam
      PROVE  /\ buf[u].id = ids[i] /\ ids[i] \in 1 .. Len(p) /\ i \in Teams(p, ids) /\ i # 0
             /\ ~ Deleted(p, left, i) /\ buf[u].slot # NoSlot /\ SlotIs(p, ids, i, FindTeam(area, buf[u].id))
  <2>1. buf[u].id = ids[i] /\ ids[i] \in 1 .. Len(p) /\ buf[u].slot # NoSlot
    BY <1>2, <1>5, <1>6 DEF MessageOK, Told, Ids
  <2>2. i \in Teams(p, ids) /\ i # 0
    BY <1>1, <1>2, <1>6 DEF Teams
  <2>3. ~ Deleted(p, left, i)
    <3>1. ASSUME NEW d \in DOMAIN p, p[d].kind = "destroy", p[d].on = i
          PROVE  /\ ~ (left[u][d] < BarLeft(p, u, d, 2))
                 /\ ~ (d = pos[u] /\ left[u][d] = BarLeft(p, u, d, 2) /\ Woken(u))
      <4>1. i < d /\ Mem(p, d) = For(p, i) /\ Barriers(p, d) = 2
        BY <1>1, <3>1, DestroyPlaces
      <4>2. u \in Mem(p, d) /\ d > pos[u]
        BY <1>1, <1>2, <4>1
      <4>3. left[u][d] = Size(p, u, d) /\ Size(p, u, d) \in Nat
        BY <4>2, LeftIs
      <4>4. BarLeft(p, u, d, 2) \in 1 .. Size(p, u, d)
        BY <1>1, <4>1, <4>2, SizeType
      <4>. QED  BY <1>1, <4>1, <4>3, <4>4
    <3>2. i \in DOMAIN p
      BY <1>1
    <3>. QED  BY ONLY Coupled(p, ids, left, over), <1>2, <1>6, <3>1, <3>2, TeamStays
  <2>4. SlotIs(p, ids, i, SlotFor(area, TeamId(ids, i)))
    BY <2>2, <2>3, TeamHasSlot
  <2>5. TeamId(ids, i) = buf[u].id /\ buf[u].id # TeamAll
    BY <2>1, <2>2 DEF TeamId, TeamAll
  <2>. QED  BY <2>1, <2>2, <2>3, <2>4, <2>5 DEF SlotFor
<1>. QED  BY <1>2, <1>5, <1>6

\* A unit that is told of a team without a slot goes on.
LEMMA InitNotFoundStep ==
    ASSUME NEW p, NEW ids, NEW left, NEW over, Coupled(p, ids, left, over), NEW u \in Units, InitTeamNotFound(u)
    PROVE  \E next : Coupled(p, ids, next, over)'
<1>1. /\ WellFormed(p) /\ TypesOK(p) /\ prog = p /\ p \in Programs
  BY ProgIs
<1>. PICK i, c, l : i = pos[u] /\ c = p[pos[u]].on /\ l = Len(todo[u])
  OBVIOUS
<1>. PICK next : next = [left EXCEPT ![u][pos[u]] = @ - 1]
  OBVIOUS
<1>2. /\ At(u, "init") /\ Advance(u) /\ UNCHANGED <<prog, area, holder, pipes, teams, handle, pos, inside, buf>>
      /\ ~ ValidSlot(FindTeam(area, buf[u].id))
  BY DEF InitTeamNotFound
<1>3. Standing(p, ids, left, u, i, c, l) /\ StepAt(p, u, i, l).do = "init"
  BY <1>2, AtStands
<1>4. ids[i] = NoTeam
  BY <1>2, <1>3, InitStands DEF SlotIs, ValidSlot
<1>5. /\ Stepped(p, left, next, u, pos[u], "init", Len(todo[u])) /\ GhostsOK(p, ids, next, over)
      /\ \A w \in Units : PlaceOK(p, ids, next, w)' /\ OverOK(p, ids, next, over, w)' /\ InsideOK(w)'
      /\ IdsOK(p, ids, next) /\ CountOK(p, ids, next)' /\ AreaOK(p, ids, next)' /\ LocksOK(p, ids, next)'
      /\ \A w \in Units : (todo'[w] # <<>> => todo[w] # <<>>) /\ (w # u => todo'[w] = todo[w])
      /\ \A w \in Units : ~ Lost(w)' => ~ Lost(w)
      /\ todo' \in [Units -> Seq(StepRec)]
  <2>1. "init" \notin {"find", "await", "wait", "lost", "newteam", "takelock"}
    OBVIOUS
  <2>2. /\ \A w \in Units : w # u => handle'[w] = handle[w]
        /\ \A w \in Units : buf'[w].op = buf[w].op
    BY <1>2
  <2>. QED  BY AreaParts, <1>2, <2>1, <2>2, ZenonT(30)
<1>6. Stepped(p, left, next, u, i, "init", l)
  BY <1>5
<1>7. TypesOK(p)'
  BY <1>1, <1>2, <1>5 DEF TypesOK
<1>8. \A w \in Units : HandlesOK(p, ids, next, w)'
  BY <1>2, <1>4, <1>6, HandlesStep DEF Coupled
<1>9. \A w \in Units : BufOK(p, ids, next, w)'
  <2>1. /\ \A w \in Units : BufOK(p, ids, left, w)
        /\ \A w \in Units : todo'[w] # <<>> => todo[w] # <<>>
        /\ buf' = buf /\ pos' = pos /\ "init" \notin {"newteam", "takelock", "recv"}
    BY <1>2, <1>5 DEF Coupled
  <2>. QED  BY ONLY <1>6, <2>1, BufStep
<1>10. \A w \in Units : TableOK(p, ids, next, w)'
  BY ONLY Coupled(p, ids, left, over), <1>2, <1>4, <1>5, <1>6, TableParts
<1>11. PipesOK(p, ids, next)'
  <2>1. PipesOK(p, ids, left) /\ DOMAIN pipes' = DOMAIN pipes /\ area'.nextid = area.nextid /\ "init" # "unlink"
    BY <1>2 DEF Coupled
  <2>. QED  BY ONLY <1>1, <1>4, <1>6, <2>1, PipesStep
<1>12. QueuesOK(p, ids, next)' /\ ReceivedOK(p, next)
  <2>1. QueuesKept /\ "init" \notin {"send", "recv"}
    BY <1>2 DEF QueuesKept
  <2>. QED  BY ONLY Coupled(p, ids, left, over), <1>3, <1>6, <2>1, SilentParts
<1>13. Coupled(p, ids, next, over)'
  BY <1>1, <1>5, <1>7, <1>8, <1>9, <1>10, <1>11, <1>12, Zenon DEF Coupled
<1>. QED  BY <1>13

\* A message buffer of u is the message m, and nobody else's has changed.
NewBuf(u, m) ==
    /\ buf' \in [Units -> Message] /\ buf'[u] = m /\ \A w \in Units : w # u => buf'[w] = buf[w]
    /\ \A w \in Units : buf'[w].op = buf[w].op

\* A message with an id, a size, a new id and a slot.
WithTeam(b, id, n, s) == [b EXCEPT !.id = id, !.size = n, !.newid = 0, !.slot = s]

\* A message buffer into which an id and a size have been written.
LEMMA WithTeamIs ==
    ASSUME NEW b \in Message, NEW id \in Int, NEW n \in Int, NEW s \in Int
    PROVE  LET m == WithTeam(b, id, n, s)
           IN  m \in Message /\ m.op = b.op /\ m.id = id /\ m.size = n /\ m.newid = 0 /\ m.slot = s
<1>1. PICK c : c = [b EXCEPT !.id = id]
  OBVIOUS
<1>2. c \in Message /\ c.op = b.op /\ c.id = id
  BY <1>1 DEF Message
<1>3. PICK d : d = [c EXCEPT !.size = n]
  OBVIOUS
<1>4. d \in Message /\ d.op = b.op /\ d.id = id /\ d.size = n
  BY <1>2, <1>3 DEF Message
<1>5. PICK e : e = [d EXCEPT !.newid = 0]
  OBVIOUS
<1>6. e \in Message /\ e.op = b.op /\ e.id = id /\ e.size = n /\ e.newid = 0
  BY <1>4, <1>5 DEF Message
<1>7. PICK f : f = [e EXCEPT !.slot = s]
  OBVIOUS
<1>8. f \in Message /\ f.op = b.op /\ f.id = id /\ f.size = n /\ f.newid = 0 /\ f.slot = s
  BY <1>6, <1>7 DEF Message
<1>9. WithTeam(b, id, n, s) = f
  BY <1>1, <1>3, <1>5, <1>7 DEF WithTeam
<1>. QED  BY <1>8, <1>9

\* A step that writes one message buffer.
LEMMA BufChanged ==
    ASSUME buf \in [Units -> Message], NEW u \in Units, NEW m \in Message, m.op = buf[u].op,
           buf' = [buf EXCEPT ![u] = m]
    PROVE  NewBuf(u, m)
  BY DEF NewBuf

\* The buffers after one has changed.
LEMMA BufParts ==
    ASSUME NEW p, NEW ids, NEW left, \A w \in Units : BufOK(p, ids, left, w),
           NEW next, NEW u \in Units, NEW i, NEW do, NEW l, Stepped(p, left, next, u, i, do, l),
           i = pos[u], pos' = pos, NEW m, NewBuf(u, m), MessageOK(p, ids, i, u, m),
           \A w \in Units : todo'[w] # <<>> => todo[w] # <<>>
    PROVE  \A w \in Units : BufOK(p, ids, next, w)'
<1>. SUFFICES ASSUME NEW w \in Units PROVE BufOK(p, ids, next, w)'
  OBVIOUS
<1>1. CASE w # u
  <2>1. BufOK(p, ids, left, w) /\ buf'[w] = buf[w] /\ pos' = pos /\ (todo'[w] # <<>> => todo[w] # <<>>)
    BY <1>1 DEF NewBuf
  <2>. QED  BY ONLY w \in Units, Stepped(p, left, next, u, i, do, l), <1>1, <2>1, BufOther
<1>2. CASE w = u
  BY <1>2 DEF BufOK, NewBuf
<1>. QED  BY <1>1, <1>2

\* When no slot is free there are more teams than slots: those that have one, and
\* the one that is to be made.
LEMMA ManyTeams ==
    ASSUME NEW p, NEW ids, NEW left, NEW over, Coupled(p, ids, left, over), FreeTeamSlots(area) = {},
           NEW i \in DOMAIN p, p[i].kind = "create", ~ (left[Maker(p, i)][i] < MakeLeft(p, i))
    PROVE  ~ Few(p)
<1>. DEFINE S == TeamSlots \ {0}
            R == {c \in DOMAIN p : p[c].kind = "create"}
<1>1. /\ WellFormed(p) /\ TypesOK(p) /\ CountOK(p, ids, left) /\ AreaOK(p, ids, left) /\ area.nextid \in Int
  BY ProgIs DEF Coupled, TypesOK
<1>2. \A s \in S : area.teams[s].inuse
  BY DEF FreeTeamSlots
<1>3. IsFiniteSet(S) /\ Cardinality(S) = MaxTeams - 1 /\ MaxTeams \in Nat
  <2>1. MaxTeams \in Nat /\ S = 1 .. MaxTeams - 1
    BY SizesAssumption DEF TeamSlots
  <2>2. 1 \in Int /\ MaxTeams - 1 \in Int
    BY <2>1
  <2>3. IsFiniteSet(1 .. MaxTeams - 1)
    BY <2>2, FS_Interval
  <2>4. Cardinality(1 .. MaxTeams - 1) = IF 1 > MaxTeams - 1 THEN 0 ELSE MaxTeams - 1 - 1 + 1
    BY <2>2, FS_Interval
  <2>5. Cardinality(1 .. MaxTeams - 1) = MaxTeams - 1
    BY <2>1, <2>4, SizesAssumption
  <2>. QED  BY <2>1, <2>3, <2>5
<1>4. MaxTeams - 1 <= area.nextid - 1
  <2>1. IsFiniteSet(1 .. area.nextid - 1) /\ Cardinality(1 .. area.nextid - 1) = area.nextid - 1
    <3>1. area.nextid >= 1 /\ 1 \in Int /\ area.nextid - 1 \in Int
      BY <1>1 DEF CountOK
    <3>2. IsFiniteSet(1 .. area.nextid - 1)
      BY <3>1, FS_Interval
    <3>3. Cardinality(1 .. area.nextid - 1) = IF 1 > area.nextid - 1 THEN 0 ELSE area.nextid - 1 - 1 + 1
      BY <3>1, FS_Interval
    <3>. QED  BY <1>1, <3>1, <3>2, <3>3
  <2>. PICK f : f = [s \in S |-> area.teams[s].id]
    OBVIOUS
  <2>2. f \in Injection(S, 1 .. area.nextid - 1)
    <3>1. \A s \in S : f[s] \in 1 .. area.nextid - 1
      BY <1>1, <1>2 DEF AreaOK
    <3>2. \A s, r \in S : f[s] = f[r] => s = r
      BY <1>1, <1>2 DEF AreaOK
    <3>. QED  BY <3>1, <3>2 DEF Injection, IsInjective
  <2>3. Cardinality(S) <= Cardinality(1 .. area.nextid - 1)
    BY <2>1, <2>2, FS_Injection
  <2>. QED  BY <1>3, <2>1, <2>3
<1>5. /\ Counted(p, left) \subseteq R /\ i \in R /\ i \notin Counted(p, left)
  BY DEF Counted
<1>6. IsFiniteSet(R) /\ Cardinality(R) \in Nat /\ IsFiniteSet(Counted(p, left)) /\ Cardinality(Counted(p, left)) \in Nat
  <2>1. R \subseteq DOMAIN p /\ Counted(p, left) \subseteq DOMAIN p
    BY DEF Counted
  <2>. QED  BY <1>1, <2>1, CountedFinite
<1>7. Cardinality(Counted(p, left)) + 1 <= Cardinality(R)
  <2>1. Cardinality(Counted(p, left) \union {i}) = Cardinality(Counted(p, left)) + 1
    BY <1>5, <1>6, FS_AddElement
  <2>2. Counted(p, left) \union {i} \in SUBSET R
    BY <1>5
  <2>3. Cardinality(Counted(p, left) \union {i}) <= Cardinality(R)
    BY <1>6, <2>2, FS_Subset
  <2>. QED  BY <2>1, <2>3
<1>8. area.nextid <= 1 + Cardinality(Counted(p, left))
  BY <1>1 DEF CountOK, Counted
<1>9. ~ (Cardinality(R) < MaxTeams)
  <2>. HIDE DEF R, S
  <2>. QED  BY <1>1, <1>3, <1>4, <1>6, <1>7, <1>8
<1>. QED  BY <1>9 DEF Few

\* A master that finds no slot hands on an id it has not got, with no slot.
LEMMA NewTeamNoSlotStep ==
    ASSUME NEW p, NEW ids, NEW left, NEW over, Coupled(p, ids, left, over), NEW u \in Units, NewTeamNoSlot(u)
    PROVE  \E next : Coupled(p, ids, next, over)'
<1>1. /\ WellFormed(p) /\ TypesOK(p) /\ prog = p /\ p \in Programs
  BY ProgIs
<1>. PICK i, c, l : i = pos[u] /\ c = p[pos[u]].on /\ l = Len(todo[u])
  OBVIOUS
<1>. PICK next : next = [left EXCEPT ![u][pos[u]] = @ - 1]
  OBVIOUS
<1>2. /\ At(u, "newteam") /\ Advance(u) /\ UNCHANGED <<prog, area, holder, pipes, teams, handle, pos, inside>>
      /\ FreeTeamSlots(area) = {}
  BY DEF NewTeamNoSlot
<1>3. PICK id \in Garbage : buf' = [buf EXCEPT ![u] = WithTeam(buf[u], id, Group(u).nmem, NoSlot)]
  <2>1. \E id \in Garbage :
            buf' = [buf EXCEPT ![u] = [@ EXCEPT !.id = id, !.size = Group(u).nmem, !.newid = 0, !.slot = NoSlot]]
    BY Zenon DEF NewTeamNoSlot
  <2>. QED  BY <2>1, Zenon DEF WithTeam
<1>4. Standing(p, ids, left, u, i, c, l) /\ StepAt(p, u, i, l).do = "newteam"
  BY <1>2, AtStands
<1>5. /\ p[i].kind = "create" /\ u = Maker(p, i) /\ l = MakeLeft(p, i) /\ i \in DOMAIN p /\ u \in Mem(p, i)
      /\ left[u][i] = l /\ i = pos[u] /\ l \in Nat
  BY <1>4, MakingIs, SMTT(30) DEF MakingAt, Standing
<1>6. /\ p[i].group \in GroupRec /\ p[i].group.nmem = Cardinality(For(p, i)) /\ Cardinality(For(p, i)) \in Nat
      /\ Rank(For(p, i), u) = 0
  BY ONLY <1>1, <1>5, NewGroup, Zenon
<1>. PICK n : n = Cardinality(For(p, i))
  OBVIOUS
<1>. PICK m : m = WithTeam(buf[u], id, n, NoSlot)
  OBVIOUS
<1>7. /\ m \in Message /\ m.op = buf[u].op /\ m.id = id /\ m.size = n /\ m.newid = 0 /\ m.slot = NoSlot
  <2>. PICK b : b = buf[u]
    OBVIOUS
  <2>1. b \in Message /\ n \in Int /\ id \in Int /\ NoSlot \in Int
    BY <1>1, <1>6, GarbageAssumption DEF TypesOK, NoSlot
  <2>2. LET e == WithTeam(b, id, n, NoSlot)
        IN  e \in Message /\ e.op = b.op /\ e.id = id /\ e.size = n /\ e.newid = 0 /\ e.slot = NoSlot
    BY ONLY <2>1, WithTeamIs
  <2>. QED  BY <2>2
<1>8. Group(u).nmem = n
  BY <1>1, <1>5, <1>6, Zenon DEF Group
<1>9. NewBuf(u, m)
  <2>1. buf \in [Units -> Message] /\ buf' = [buf EXCEPT ![u] = m]
    BY <1>1, <1>3, <1>8 DEF TypesOK
  <2>. QED  BY <1>7, <2>1, BufChanged
<1>10. ids[i] = NoTeam
  BY <1>5, SMTT(30) DEF Coupled, IdsOK
<1>11. MessageOK(p, ids, i, u, m)
  <2>1. Told(p, i, m) = NoTeam
    BY <1>5, <1>7 DEF Told
  <2>. QED  BY <1>5, <1>6, <1>7, <1>10, <2>1, Zenon DEF MessageOK
<1>12. /\ Stepped(p, left, next, u, pos[u], "newteam", Len(todo[u])) /\ GhostsOK(p, ids, next, over)
       /\ \A w \in Units : PlaceOK(p, ids, next, w)' /\ OverOK(p, ids, next, over, w)' /\ InsideOK(w)'
       /\ IdsOK(p, ids, next) /\ CountOK(p, ids, next)' /\ AreaOK(p, ids, next)' /\ LocksOK(p, ids, next)'
       /\ \A w \in Units : (todo'[w] # <<>> => todo[w] # <<>>) /\ (w # u => todo'[w] = todo[w])
       /\ \A w \in Units : ~ Lost(w)' => ~ Lost(w)
       /\ todo' \in [Units -> Seq(StepRec)]
  <2>1. "newteam" \notin {"find", "await", "wait", "lost"}
    OBVIOUS
  <2>2. /\ \A w \in Units : w # u => handle'[w] = handle[w]
        /\ \A w \in Units : buf'[w].op = buf[w].op
    BY <1>2, <1>9 DEF NewBuf
  <2>3. ~ Few(p)
    <3>1. ~ (left[Maker(p, i)][i] < MakeLeft(p, i))
      BY <1>5
    <3>. QED  BY ONLY Coupled(p, ids, left, over), <1>2, <1>5, <3>1, ManyTeams
  <2>. QED  BY AreaParts, <1>2, <2>1, <2>2, <2>3, ZenonT(30)
<1>13. Stepped(p, left, next, u, i, "newteam", l)
  BY <1>12
<1>14. TypesOK(p)'
  BY <1>1, <1>2, <1>9, <1>12 DEF TypesOK, NewBuf
<1>15. \A w \in Units : HandlesOK(p, ids, next, w)'
  <2>1. /\ handle' = handle /\ IdsOK(p, ids, left) /\ (\A w \in Units : HandlesOK(p, ids, left, w))
        /\ "newteam" \notin {"init", "setlock"}
    BY <1>2 DEF Coupled
  <2>. QED  BY ONLY <1>13, <2>1, HandlesStep
<1>16. \A w \in Units : BufOK(p, ids, next, w)'
  <2>1. \A w \in Units : BufOK(p, ids, left, w)
    BY DEF Coupled
  <2>. QED  BY ONLY u \in Units, <1>2, <1>5, <1>9, <1>11, <1>12, <1>13, <2>1, BufParts
<1>17. \A w \in Units : TableOK(p, ids, next, w)'
  BY ONLY Coupled(p, ids, left, over), <1>2, <1>10, <1>12, <1>13, TableParts
<1>18. PipesOK(p, ids, next)'
  <2>1. PipesOK(p, ids, left) /\ DOMAIN pipes' = DOMAIN pipes /\ area'.nextid = area.nextid /\ "newteam" # "unlink"
    BY <1>2 DEF Coupled
  <2>. QED  BY ONLY <1>1, <1>10, <1>13, <2>1, PipesStep
<1>19. QueuesOK(p, ids, next)' /\ ReceivedOK(p, next)
  <2>1. QueuesKept /\ "newteam" \notin {"send", "recv"}
    BY <1>2 DEF QueuesKept
  <2>. QED  BY ONLY Coupled(p, ids, left, over), <1>4, <1>13, <2>1, SilentParts
<1>20. Coupled(p, ids, next, over)'
  BY <1>1, <1>12, <1>14, <1>15, <1>16, <1>17, <1>18, <1>19, Zenon DEF Coupled
<1>. QED  BY <1>20

\* What is left of the call of a unit that is lost.
LEMMA LostRemains ==
    ASSUME NEW p, NEW ids, NEW left, NEW over, Coupled(p, ids, left, over),
           NEW u \in Units, NEW i, NEW c, NEW l, Standing(p, ids, left, u, i, c, l), StepAt(p, u, i, l).do = "init",
           todo' = [todo EXCEPT ![u] = Step("lost")]
    PROVE  Forward(p, u) /\ Lost(u)'
<1>1. /\ p[i].kind = "create" /\ l = 2 /\ BarrierOK(p, u, i) /\ i = pos[u] /\ l = Len(todo[u])
      /\ l \in 1 .. Size(p, u, i) /\ Size(p, u, i) \in Nat
  <2>1. p[i].kind = "create" /\ l = 2
    BY InitStands
  <2>2. BarrierOK(p, u, i)
    BY MakingIs
  <2>. QED  BY <2>1, <2>2 DEF Standing
<1>. PICK q : q = Step("lost")
  OBVIOUS
<1>2. q \in Seq(StepRec) /\ Len(q) = 1 /\ LeftOf(q, 1).do = "lost"
  <2>1. "lost" \in StepNames
    BY DEF StepNames
  <2>. QED  BY <2>1, TalkStep
<1>3. StepAt(p, u, i, 1).do = "find"
  <2>1. Barriers(p, i) = 2 /\ BarLeft(p, u, i, 2) = 1
    BY <1>1 DEF Barriers, BarLeft
  <2>. QED  BY <1>1, <2>1 DEF BarrierOK
<1>4. SameStep(LeftOf(q, 1), StepAt(p, u, i, 1))
  BY <1>2, <1>3 DEF SameStep
<1>5. Remains(p, u, pos[u], q)
  <2>1. \A k \in 1 .. Len(q) : k = 1
    BY ONLY <1>2
  <2>2. \A k \in 1 .. Len(q) - 1 : FALSE
    BY ONLY <1>2
  <2>. QED  BY <1>1, <1>2, <1>4, <2>1, <2>2 DEF Remains
<1>6. Head(q).do = "lost"
  BY DEF Step
<1>7. Len(q) = Len(todo[u]) - 1 /\ (q # <<>> => Head(q).do \notin {"await", "wait"})
  BY ONLY <1>1, <1>2, <1>6
<1>8. todo \in [Units -> Seq(StepRec)]
  BY ProgIs DEF TypesOK
<1>9. Lost(u)'
  BY <1>8 DEF Lost
<1>. QED  BY <1>5, <1>7, <1>9 DEF Forward

\* A unit that takes another team for the new one, which has no slot, is not
\* followed further.
LEMMA InitMisledStep ==
    ASSUME NEW p, NEW ids, NEW left, NEW over, Coupled(p, ids, left, over), NEW u \in Units, InitMisled(u)
    PROVE  \E next : Coupled(p, ids, next, over)'
<1>1. /\ WellFormed(p) /\ TypesOK(p) /\ prog = p /\ p \in Programs
  BY ProgIs
<1>. PICK i, c, l : i = pos[u] /\ c = p[pos[u]].on /\ l = Len(todo[u])
  OBVIOUS
<1>. PICK next : next = [left EXCEPT ![u][pos[u]] = @ - 1]
  OBVIOUS
<1>2. /\ At(u, "init") /\ UNCHANGED <<prog, area, holder, pipes, handle, pos, inside, buf>> /\ buf[u].slot = NoSlot
      /\ todo' = [todo EXCEPT ![u] = Step("lost")]
  BY DEF InitMisled, Misled
<1>3. Standing(p, ids, left, u, i, c, l) /\ StepAt(p, u, i, l).do = "init"
  BY <1>2, AtStands
<1>4. ids[i] = NoTeam /\ p[i].kind = "create" /\ i \in DOMAIN p
  BY <1>2, <1>3, InitStands, SMTT(30) DEF Standing
<1>5. Forward(p, u) /\ Lost(u)'
  BY ONLY Coupled(p, ids, left, over), u \in Units, <1>2, <1>3, LostRemains
<1>6. /\ Stepped(p, left, next, u, pos[u], "init", Len(todo[u])) /\ GhostsOK(p, ids, next, over)
      /\ \A w \in Units : PlaceOK(p, ids, next, w)' /\ OverOK(p, ids, next, over, w)' /\ InsideOK(w)'
      /\ IdsOK(p, ids, next) /\ CountOK(p, ids, next)' /\ AreaOK(p, ids, next)' /\ LocksOK(p, ids, next)'
      /\ \A w \in Units : (todo'[w] # <<>> => todo[w] # <<>>) /\ (w # u => todo'[w] = todo[w])
      /\ \A w \in Units : ~ Lost(w)' => ~ Lost(w)
      /\ todo' \in [Units -> Seq(StepRec)]
  <2>1. "init" \notin {"find", "await", "wait", "lost", "newteam", "takelock"}
    OBVIOUS
  <2>2. /\ \A w \in Units : w # u => handle'[w] = handle[w]
        /\ \A w \in Units : buf'[w].op = buf[w].op
    BY <1>2
  <2>. QED  BY AreaParts, <1>2, <1>5, <2>1, <2>2
<1>7. Stepped(p, left, next, u, i, "init", l)
  BY <1>6
<1>8. /\ teams' \in [Units -> [TeamSlots -> [id : Int, valid : BOOLEAN, myid : Int, group : GroupRec]]]
      /\ \A w \in Units : w # u => teams'[w] = teams[w]
  <2>. DEFINE Entries == [id : Int, valid : BOOLEAN, myid : Int, group : GroupRec]
  <2>. PICK e : e = [id |-> buf[u].id, valid |-> TRUE, myid |-> buf[u].newid, group |-> Group(u)]
    OBVIOUS
  <2>. PICK r : r = FindTeam(area, buf[u].id)
    OBVIOUS
  <2>. PICK t : t = [s \in TeamSlots |-> [teams[u][s] EXCEPT !.valid = FALSE]]
    OBVIOUS
  <2>1. \E q : q \in {[t EXCEPT ![0] = e], [teams[u] EXCEPT ![r] = e]} /\ teams' = [teams EXCEPT ![u] = q]
    <3>1. teams' = [teams EXCEPT ![u] = IF buf[u].id = TeamAll THEN [t EXCEPT ![0] = e]
                                        ELSE [teams[u] EXCEPT ![r] = e]]
      BY DEF InitMisled
    <3>. PICK q : q = IF buf[u].id = TeamAll THEN [t EXCEPT ![0] = e] ELSE [teams[u] EXCEPT ![r] = e]
      OBVIOUS
    <3>2. teams' = [teams EXCEPT ![u] = q]
      BY <3>1
    <3>. QED  BY <3>2
  <2>2. e \in Entries
    <3>1. Group(u) \in GroupRec
      BY <1>1, <1>4, NewGroup DEF Group
    <3>2. buf[u].newid \in Int /\ buf[u].id \in Int
      BY <1>1 DEF TypesOK, Message
    <3>. QED  BY <3>1, <3>2
  <2>3. teams \in [Units -> [TeamSlots -> Entries]]
    BY <1>1 DEF TypesOK
  <2>4. ASSUME NEW s \in TeamSlots PROVE [teams[u][s] EXCEPT !.valid = FALSE] \in Entries
    <3>. PICK x : x = teams[u][s]
      OBVIOUS
    <3>1. x \in Entries
      BY <2>3
    <3>. QED  BY <3>1
  <2>. HIDE DEF Entries
  <2>5. t \in [TeamSlots -> Entries] /\ teams[u] \in [TeamSlots -> Entries]
    BY <2>3, <2>4
  <2>6. [t EXCEPT ![0] = e] \in [TeamSlots -> Entries] /\ [teams[u] EXCEPT ![r] = e] \in [TeamSlots -> Entries]
    BY <2>2, <2>5
  <2>7. /\ teams' \in [Units -> [TeamSlots -> Entries]]
        /\ \A w \in Units : w # u => teams'[w] = teams[w]
    <3>. PICK f, g : f = [t EXCEPT ![0] = e] /\ g = [teams[u] EXCEPT ![r] = e]
      OBVIOUS
    <3>1. PICK q : q \in {f, g} /\ teams' = [teams EXCEPT ![u] = q]
      BY <2>1
    <3>2. f \in [TeamSlots -> Entries] /\ g \in [TeamSlots -> Entries]
      BY <2>6
    <3>. QED  BY ONLY <2>3, <3>1, <3>2
  <2>. QED  BY <2>7 DEF Entries
<1>9. TypesOK(p)'
  BY <1>1, <1>2, <1>6, <1>8 DEF TypesOK
<1>10. \A w \in Units : HandlesOK(p, ids, next, w)'
  BY <1>2, <1>4, <1>7, HandlesStep DEF Coupled
<1>11. \A w \in Units : BufOK(p, ids, next, w)'
  <2>1. /\ \A w \in Units : BufOK(p, ids, left, w)
        /\ \A w \in Units : todo'[w] # <<>> => todo[w] # <<>>
        /\ buf' = buf /\ pos' = pos /\ "init" \notin {"newteam", "takelock", "recv"}
    BY <1>2, <1>6 DEF Coupled
  <2>. QED  BY ONLY <1>7, <2>1, BufStep
<1>12. \A w \in Units : TableOK(p, ids, next, w)'
  <2>1. /\ \A w \in Units : TableOK(p, ids, left, w)
        /\ \A s \in TeamSlots : /\ area'.teams[s].inuse => area.teams[s].inuse
                                /\ area'.teams[s].id = area.teams[s].id
        /\ \A w \in Units : ~ Lost(w)' => ~ Lost(w) /\ teams'[w] = teams[w]
        /\ ("init" = "init" => ids[i] = NoTeam)
    BY <1>2, <1>4, <1>5, <1>6, <1>8 DEF Coupled
  <2>. QED  BY ONLY <1>7, <2>1, TableStep
<1>13. PipesOK(p, ids, next)'
  <2>1. PipesOK(p, ids, left) /\ DOMAIN pipes' = DOMAIN pipes /\ area'.nextid = area.nextid /\ "init" # "unlink"
    BY <1>2 DEF Coupled
  <2>. QED  BY ONLY <1>1, <1>4, <1>7, <2>1, PipesStep
<1>14. QueuesOK(p, ids, next)' /\ ReceivedOK(p, next)
  <2>1. QueuesKept /\ "init" \notin {"send", "recv"}
    BY <1>2 DEF QueuesKept
  <2>. QED  BY ONLY Coupled(p, ids, left, over), <1>3, <1>7, <2>1, SilentParts
<1>15. Coupled(p, ids, next, over)'
  BY <1>1, <1>6, <1>9, <1>10, <1>11, <1>12, <1>13, <1>14 DEF Coupled
<1>. QED  BY <1>15

\* Nothing has been sent in a team while a member has not met the last barrier
\* of its creation.
LEMMA NobodySent ==
    ASSUME NEW p, NEW ids, NEW left, NEW over, Coupled(p, ids, left, over),
           NEW i \in DOMAIN p, p[i].kind = "create", Live(p, ids, i),
           NEW u \in Units, u \in Mem(p, i), left[u][i] >= 2,
           NEW v \in For(p, i), NEW j \in DOMAIN p, p[j].on = i, NEW w
    PROVE  ~ Sent(p, left, v, j, w) /\ v \in Mem(p, j) /\ left[v][j] = Size(p, v, j)
<1>1. WellFormed(p) /\ DOMAIN p = 1 .. Len(p) /\ Len(p) \in Nat
  BY ProgIs
<1>2. /\ p[j].on # 0 /\ i < j /\ Mem(p, j) = For(p, i) /\ For(p, i) \subseteq Mem(p, i)
  BY <1>1, ProgramOn, ProgramTeams
<1>3. v \in Mem(p, j) /\ v \in Mem(p, i) /\ v \in Units
  BY <1>1, <1>2, ProgramTeams DEF IsTeam
<1>4. Barriers(p, i) = 2 /\ 2 \in 1 .. Barriers(p, i) /\ BarLeft(p, v, i, 2) = 1 /\ BarLeft(p, u, i, 2) = 1
  BY DEF Barriers, BarLeft
<1>5. left[v][i] >= 1
  <2>1. ~ (2 <= over[i])
    <3>1. (2 <= over[i]) <=> (\/ left[u][i] < 1 \/ (i = pos[u] /\ left[u][i] = 1 /\ Woken(u)))
      BY <1>4, OverIs
    <3>2. left[u][i] \in Nat
      BY LeftIs
    <3>. QED  BY <3>1, <3>2
  <2>2. (2 <= over[i]) <=> (\/ left[v][i] < 1 \/ (i = pos[v] /\ left[v][i] = 1 /\ Woken(v)))
    BY <1>3, <1>4, OverIs
  <2>3. left[v][i] \in Nat
    BY <1>3, LeftIs
  <2>. QED  BY <2>1, <2>2, <2>3
<1>6. i >= pos[v] /\ pos[v] \in Nat
  BY <1>3, <1>5, LeftIs
<1>7. left[v][j] = Size(p, v, j) /\ Size(p, v, j) \in Nat
  <2>1. j > pos[v]
    BY <1>1, <1>2, <1>6
  <2>. QED  BY <1>3, <2>1, LeftIs
<1>8. ~ Sent(p, left, v, j, w)
  BY <1>7 DEF Sent
<1>. QED  BY <1>3, <1>7, <1>8

\* The handle of a new team or lock.
LEMMA HandleSet ==
    ASSUME NEW p, NEW ids, NEW left, NEW over, Coupled(p, ids, left, over),
           NEW next, NEW u \in Units, NEW i \in DOMAIN p, NEW do, NEW l, Stepped(p, left, next, u, i, do, l),
           u \in For(p, i), l = SetLeft(p, i), NEW h \in Int, h = ids[i], handle' = [handle EXCEPT ![u][i] = h]
    PROVE  /\ handle' \in [Units -> [DOMAIN p -> Int]] /\ \A w \in Units : w # u => handle'[w] = handle[w]
           /\ \A w \in Units : HandlesOK(p, ids, next, w)'
<1>1. handle \in [Units -> [DOMAIN p -> Int]]
  BY ProgIs DEF TypesOK
<1>2. /\ handle' \in [Units -> [DOMAIN p -> Int]] /\ handle'[u][i] = ids[i]
      /\ \A w \in Units, d \in DOMAIN p : ~ (w = u /\ d = i) => handle'[w][d] = handle[w][d]
      /\ \A w \in Units : w # u => handle'[w] = handle[w]
  BY <1>1
<1>3. ASSUME NEW w \in Units, NEW d \in DOMAIN p
      PROVE  handle'[w][d] = IF w \in For(p, d) /\ next[w][d] < SetLeft(p, d) THEN ids[d] ELSE NoTeam
  <2>1. CASE w = u /\ d = i
    <3>1. next[u][i] = l - 1 /\ l \in Nat
      BY DEF Stepped
    <3>. QED  BY <1>2, <2>1, <3>1
  <2>2. CASE ~ (w = u /\ d = i)
    <3>1. handle[w][d] = IF w \in For(p, d) /\ left[w][d] < SetLeft(p, d) THEN ids[d] ELSE NoTeam
      BY DEF Coupled, HandlesOK
    <3>2. next[w][d] = left[w][d]
      BY <2>2 DEF Stepped
    <3>. QED  BY <1>2, <2>2, <3>1, <3>2
  <2>. QED  BY <2>1, <2>2
<1>. QED  BY <1>2, <1>3 DEF HandlesOK

\* The FIFOs of a team to one member by their names.
LEMMA NamesTo ==
    ASSUME NEW p, NEW ids, NEW left, WellFormed(p), IdsOK(p, ids, left),
           NEW c \in Teams(p, ids), NEW u \in TeamMembers(p, c),
           NEW d \in Teams(p, ids), NEW v \in TeamMembers(p, d), NEW w \in TeamMembers(p, d)
    PROVE  Pipe(p, ids, d, v, w) \in
               PipeNames(TeamId(ids, c), Cardinality(TeamMembers(p, c)), Rank(TeamMembers(p, c), u))
           <=> (d = c /\ w = u)
<1>. PICK M : M = TeamMembers(p, c)
  OBVIOUS
<1>1. M \in SUBSET Int /\ IsFiniteSet(M)
  <2>1. CASE c = 0
    BY <2>1, UnitsFinite DEF TeamMembers
  <2>2. CASE c # 0
    BY <2>2, GroupTypes DEF TeamMembers
  <2>. QED  BY <2>1, <2>2
<1>. PICK names : names = PipeNames(TeamId(ids, c), Cardinality(M), Rank(M, u))
  OBVIOUS
<1>2. CASE d = c
  <2>1. Pipe(p, ids, d, v, w) = <<TeamId(ids, c), Rank(M, v), Rank(M, w)>>
    BY <1>2 DEF Pipe
  <2>2. Rank(M, v) \in 0 .. Cardinality(M) - 1
    BY <1>1, <1>2, RankOrder
  <2>3. Rank(M, w) = Rank(M, u) <=> w = u
    <3>1. \A x, y \in M : Rank(M, x) = Rank(M, y) => x = y
      BY <1>1, RankOrder
    <3>. QED  BY <1>2, <3>1
  <2>. QED  BY <1>2, <2>1, <2>2, <2>3 DEF PipeNames
<1>3. CASE d # c
  <2>1. TeamId(ids, d) # TeamId(ids, c)
    BY <1>3, TeamIdsDiffer
  <2>2. Pipe(p, ids, d, v, w)[1] = TeamId(ids, d)
    BY DEF Pipe
  <2>3. \A x \in names : x[1] = TeamId(ids, c)
    BY DEF PipeNames
  <2>. QED  BY <1>3, <2>1, <2>2, <2>3
<1>. QED  BY <1>2, <1>3

\* The FIFOs to other members stay where they are.
LEMMA ThereSame ==
    ASSUME NEW p, NEW ids, NEW left, WellFormed(p),
           NEW next, NEW u, NEW i, NEW do, NEW l, Stepped(p, left, next, u, i, do, l),
           NEW d \in Teams(p, ids), NEW w \in TeamMembers(p, d),
           ~ (do = "init" /\ d = i /\ w = u), ~ (do = "unlink" /\ d = p[i].on /\ w = u)
    PROVE  There(p, next, d, w) <=> There(p, left, d, w)
<1>1. CASE d = 0
  BY <1>1, WorldStays DEF There
<1>2. CASE d # 0
  <2>1. d \in DOMAIN p /\ p[d].kind = "create" /\ w \in Units /\ w \in For(p, d)
    BY <1>2, TeamMembersUnits DEF Teams, TeamMembers, For
  <2>2. Unlinked(p, next, d, w) <=> Unlinked(p, left, d, w)
    BY <2>1 DEF Stepped
  <2>3. next[w][d] < 2 <=> left[w][d] < 2
    BY <2>1 DEF Stepped
  <2>. QED  BY <1>2, <2>2, <2>3 DEF There
<1>. QED  BY <1>1, <1>2

\* The FIFOs of a new team that lead to one member.
LEMMA InitPipes ==
    ASSUME NEW p, NEW ids, NEW left, NEW over, Coupled(p, ids, left, over),
           NEW next, NEW u \in Units, NEW i, NEW c, NEW l, Standing(p, ids, left, u, i, c, l),
           StepAt(p, u, i, l).do = "init", Stepped(p, left, next, u, i, "init", l), ids[i] # NoTeam,
           pipes' = AddPipes(ids[i], Cardinality(For(p, i)), Rank(For(p, i), u)), area' = area
    PROVE  /\ pipes' \in [DOMAIN pipes' -> [opened : BOOLEAN, queue : Seq(Message)]]
           /\ PipesOK(p, ids, next)' /\ QueuesOK(p, ids, next)'
<1>1. /\ WellFormed(p) /\ TypesOK(p) /\ DOMAIN p = 1 .. Len(p) /\ Len(p) \in Nat
      /\ IdsOK(p, ids, left) /\ CountOK(p, ids, left) /\ PipesOK(p, ids, left) /\ QueuesOK(p, ids, left)
  BY ProgIs DEF Coupled
<1>2. /\ p[i].kind = "create" /\ u \in For(p, i) /\ l = 2 /\ ids[i] \in 1 .. Len(p) /\ i \in Teams(p, ids) /\ i # 0
  BY InitStands
<1>3. i \in DOMAIN p /\ u \in Mem(p, i) /\ left[u][i] = 2 /\ Live(p, ids, i) /\ i = pos[u] /\ i \in Nat
  BY <1>2 DEF Standing
<1>4. /\ TeamMembers(p, i) = For(p, i) /\ IsTeam(For(p, i))
      /\ \A v \in For(p, i) : Rank(For(p, i), v) = Rank(For(p, i), u) => v = u
  <2>1. TeamMembers(p, i) = For(p, i) /\ IsTeam(For(p, i))
    BY <1>1, <1>2, <1>3, ProgramTeams DEF TeamMembers, For
  <2>2. \A v, w \in For(p, i) : Rank(For(p, i), v) = Rank(For(p, i), w) => v = w
    BY <2>1, RankOrder DEF IsTeam
  <2>. QED  BY <1>2, <2>1, <2>2
<1>. PICK n, me : n = Cardinality(For(p, i)) /\ me = Rank(For(p, i), u)
  OBVIOUS
<1>5. n \in Nat /\ me \in Int /\ ids[i] \in 0 .. area.nextid - 1 /\ area.nextid \in Int
  <2>1. ids[i] < area.nextid /\ area.nextid \in 1 .. Len(p) + 1
    BY <1>1, <1>2, <1>3 DEF CountOK
  <2>. QED  BY <1>1, <1>2, <1>4, <2>1, SMTT(30) DEF IsTeam
<1>. PICK names : names = PipeNames(ids[i], n, me)
  OBVIOUS
<1>6. /\ DOMAIN pipes' = DOMAIN pipes \union names
      /\ \A x \in DOMAIN pipes : pipes'[x] = pipes[x]
      /\ \A x \in names : x \notin DOMAIN pipes => pipes'[x].queue = <<>> /\ pipes'[x] = NewPipe
  BY DEF AddPipes, NewPipe
<1>7. pipes' \in [DOMAIN pipes' -> [opened : BOOLEAN, queue : Seq(Message)]]
  <2>1. pipes' = [x \in DOMAIN pipes' |-> pipes'[x]]
    BY DEF AddPipes
  <2>2. ASSUME NEW x \in DOMAIN pipes' PROVE pipes'[x] \in [opened : BOOLEAN, queue : Seq(Message)]
    <3>1. NewPipe \in [opened : BOOLEAN, queue : Seq(Message)]
      BY DEF NewPipe
    <3>2. \A y \in DOMAIN pipes : pipes[y] \in [opened : BOOLEAN, queue : Seq(Message)]
      BY <1>1 DEF TypesOK
    <3>. QED  BY <1>6, <3>1, <3>2
  <2>. QED  BY <2>1, <2>2
<1>8. \A d \in Teams(p, ids) : \A v, w \in TeamMembers(p, d) :
          Pipe(p, ids, d, v, w) \in names <=> (d = i /\ w = u)
  <2>1. names = PipeNames(TeamId(ids, i), Cardinality(TeamMembers(p, i)), Rank(TeamMembers(p, i), u))
    BY <1>2, <1>4 DEF TeamId
  <2>2. u \in TeamMembers(p, i)
    BY <1>2, <1>4
  <2>. QED  BY ONLY <1>1, <1>2, <2>1, <2>2, NamesTo
<1>9. ~ There(p, left, i, u) /\ There(p, next, i, u)
  <2>1. ~ There(p, left, i, u)
    BY <1>2, <1>3 DEF There
  <2>2. ~ Unlinked(p, left, i, u)
    <3>. SUFFICES ASSUME NEW d \in DOMAIN p, p[d].kind = "destroy", p[d].on = i
                  PROVE  ~ (left[u][d] < BarLeft(p, u, d, 2) + 1)
      BY DEF Unlinked
    <3>1. ~ Sent(p, left, u, d, u) /\ u \in Mem(p, d) /\ left[u][d] = Size(p, u, d)
      <4>1. /\ p[i].kind = "create" /\ Live(p, ids, i) /\ u \in Mem(p, i) /\ left[u][i] >= 2
            /\ i \in DOMAIN p /\ u \in For(p, i) /\ d \in DOMAIN p /\ p[d].on = i
        BY <1>2, <1>3
      <4>. QED  BY ONLY Coupled(p, ids, left, over), u \in Units, <4>1, NobodySent
    <3>2. Size(p, u, d) = BarLeft(p, u, d, 2) + 2 /\ BarLeft(p, u, d, 2) \in Nat
      BY <1>1, <3>1, DestroyPlaces
    <3>. QED  BY <3>1, <3>2
  <2>3. next[u][i] = 1
    BY <1>2 DEF Stepped
  <2>4. ~ Unlinked(p, next, i, u)
    BY <1>2, <1>3, <1>4, <2>2 DEF Stepped
  <2>. QED  BY <2>1, <2>3, <2>4 DEF There
<1>10. \A d \in Teams(p, ids) : \A w \in TeamMembers(p, d) :
           ~ (d = i /\ w = u) => (There(p, next, d, w) <=> There(p, left, d, w))
  BY <1>1, ThereSame
<1>11. PipesOK(p, ids, next)'
  <2>1. DOMAIN pipes' \in SUBSET ((0 .. area'.nextid - 1) \X Int \X Int)
    <3>1. names \in SUBSET ((0 .. area.nextid - 1) \X Int \X Int)
      BY <1>5 DEF PipeNames
    <3>. QED  BY <1>1, <1>6, <3>1 DEF PipesOK
  <2>2. ASSUME NEW d \in Teams(p, ids), NEW v \in TeamMembers(p, d), NEW w \in TeamMembers(p, d)
        PROVE  (Pipe(p, ids, d, v, w) \in DOMAIN pipes') <=> There(p, next, d, w)
    <3>1. (Pipe(p, ids, d, v, w) \in DOMAIN pipes) <=> There(p, left, d, w)
      BY <1>1 DEF PipesOK
    <3>. QED  BY <1>6, <1>8, <1>9, <1>10, <3>1
  <2>. QED  BY <2>1, <2>2 DEF PipesOK
<1>12. ASSUME NEW d \in Teams(p, ids), NEW v \in TeamMembers(p, d), NEW w \in TeamMembers(p, d),
              Pipe(p, ids, d, v, w) \in DOMAIN pipes'
       PROVE  QueueOK(p, ids, next, d, v, w, pipes'[Pipe(p, ids, d, v, w)].queue)
  <2>. PICK name : name = Pipe(p, ids, d, v, w)
    OBVIOUS
  <2>1. ASSUME NEW j \in DOMAIN p, p[j].on = d
        PROVE  /\ Sent(p, next, v, j, w) <=> Sent(p, left, v, j, w)
               /\ Got(p, next, w, j, v) <=> Got(p, left, w, j, v)
    <3>1. v \in Mem(p, j) /\ w \in Mem(p, j)
      BY <2>1 DEF Mem
    <3>2. \A x : ~ SendsTo(p, u, i, l, x) /\ ~ ReceivesFrom(p, u, i, l, x)
      BY DEF SendsTo, ReceivesFrom
    <3>. QED  BY <3>1, <3>2 DEF Stepped
  <2>2. CASE name \in DOMAIN pipes
    <3>1. QueueOK(p, ids, left, d, v, w, pipes[name].queue) /\ pipes'[name] = pipes[name]
      BY <1>1, <1>6, <2>2 DEF QueuesOK
    <3>. QED  BY <2>1, <3>1, QueueSame
  <2>3. CASE name \notin DOMAIN pipes
    <3>1. name \in names
      BY <1>6, <1>12, <2>3
    <3>2. d = i /\ w = u
      BY <1>8, <3>1
    <3>3. pipes'[name].queue = <<>>
      BY <1>6, <2>3, <3>1
    <3>4. \A j \in DOMAIN p : p[j].on = d => ~ Sent(p, next, v, j, w)
      BY <1>2, <1>3, <1>4, <2>1, <3>2, NobodySent
    <3>5. QueueOK(p, ids, next, d, v, w, <<>>)
      BY <3>4 DEF QueueOK
    <3>. QED  BY <3>3, <3>5
  <2>. QED  BY <2>2, <2>3
<1>13. QueuesOK(p, ids, next)'
  BY <1>12 DEF QueuesOK
<1>. QED  BY <1>7, <1>11, <1>13

\* The entry a unit writes for a new team.
NewTeamEntry(p, ids, i, u) ==
    [id |-> ids[i], valid |-> TRUE, myid |-> Rank(For(p, i), u), group |-> p[i].group]

\* The tables with another entry of u.
WithTable(u, s, e) == [teams EXCEPT ![u][s] = e]

\* The tables after u has written one entry, for a team that has the slot.
LEMMA InitTable ==
    ASSUME NEW p, NEW ids, NEW left, NEW over, Coupled(p, ids, left, over),
           NEW next, NEW u \in Units, NEW i \in DOMAIN p, NEW l, Stepped(p, left, next, u, i, "init", l),
           p[i].kind = "create", ids[i] # NoTeam, ids[i] # TeamAll, NEW s, SlotIs(p, ids, i, s), i # 0,
           teams' = WithTable(u, s, NewTeamEntry(p, ids, i, u)), area' = area,
           \A w \in Units : ~ Lost(w)' => ~ Lost(w)
    PROVE  /\ teams' \in [Units -> [TeamSlots -> [id : Int, valid : BOOLEAN, myid : Int, group : GroupRec]]]
           /\ \A w \in Units : TableOK(p, ids, next, w)'
<1>1. WellFormed(p) /\ TypesOK(p) /\ ids \in [DOMAIN p -> Int] /\ IdsOK(p, ids, left) /\ AreaOK(p, ids, left)
  BY ProgIs DEF GhostsOK, Coupled
<1>2. p[i].group \in GroupRec /\ Cardinality(For(p, i)) \in Nat
  BY <1>1, NewGroup
<1>3. Rank(For(p, i), u) \in Int
  <2>1. IsFiniteSet({w \in For(p, i) : w < u})
    BY <1>1, ProgramTeams, FS_Subset DEF IsTeam
  <2>. QED  BY <2>1, FS_CardinalityType DEF Rank
<1>. PICK e : e = NewTeamEntry(p, ids, i, u)
  OBVIOUS
<1>4. e \in [id : Int, valid : BOOLEAN, myid : Int, group : GroupRec] /\ e.id = ids[i]
  <2>1. ids[i] \in Int
    BY <1>1
  <2>. QED  BY <1>2, <1>3, <2>1 DEF NewTeamEntry
<1>5. s \in TeamSlots /\ area.teams[s].id = ids[i] /\ area.teams[s].inuse
  <2>1. TeamId(ids, i) = ids[i]
    BY DEF TeamId
  <2>. QED  BY <2>1 DEF SlotIs
<1>6. /\ teams' \in [Units -> [TeamSlots -> [id : Int, valid : BOOLEAN, myid : Int, group : GroupRec]]]
      /\ teams'[u][s] = e
      /\ \A w \in Units, r \in TeamSlots : ~ (w = u /\ r = s) => teams'[w][r] = teams[w][r]
  BY <1>1, <1>4, <1>5 DEF TypesOK, WithTable
<1>7. ASSUME NEW w \in Units, ~ Lost(w)'
      PROVE  /\ teams'[w][0] = [id |-> TeamAll, valid |-> TRUE, myid |-> w, group |-> WorldGroup]
             /\ \A r \in TeamSlots : teams'[w][r].valid => teams'[w][r].id # NoTeam
             /\ \A d \in DOMAIN p, r \in TeamSlots :
                    (/\ p[d].kind = "create" /\ ids[d] # NoTeam /\ ~ Deleted(p, next, d)
                     /\ w \in For(p, d) /\ next[w][d] < 2
                     /\ area.teams[r].inuse /\ area.teams[r].id = ids[d])
                    => teams'[w][r] = [id |-> ids[d], valid |-> TRUE,
                                      myid |-> Rank(For(p, d), w), group |-> p[d].group]
  <2>1. TableOK(p, ids, left, w) /\ ~ Lost(w)
    BY <1>7 DEF Coupled
  <2>2. s # 0 /\ 0 \in TeamSlots
    BY <1>1, <1>5, SizesAssumption DEF AreaOK, TeamSlots
  <2>3. teams'[w][0] = [id |-> TeamAll, valid |-> TRUE, myid |-> w, group |-> WorldGroup]
    BY <1>6, <2>1, <2>2 DEF TableOK
  <2>4. ASSUME NEW r \in TeamSlots, teams'[w][r].valid PROVE teams'[w][r].id # NoTeam
    <3>1. CASE w = u /\ r = s
      BY <1>4, <1>6, <3>1
    <3>2. CASE ~ (w = u /\ r = s)
      BY <1>6, <2>1, <2>4, <3>2 DEF TableOK
    <3>. QED  BY <3>1, <3>2
  <2>5. ASSUME NEW d \in DOMAIN p, NEW r \in TeamSlots, p[d].kind = "create", ids[d] # NoTeam,
               ~ Deleted(p, next, d), w \in For(p, d), next[w][d] < 2,
               area.teams[r].inuse, area.teams[r].id = ids[d]
        PROVE  teams'[w][r] = [id |-> ids[d], valid |-> TRUE, myid |-> Rank(For(p, d), w), group |-> p[d].group]
    <3>1. d = i <=> r = s
      <4>1. d = i => r = s
        BY <1>1, <1>5, <2>5 DEF AreaOK
      <4>2. r = s => d = i
        BY <1>1, <1>5, <2>5 DEF IdsOK
      <4>. QED  BY <4>1, <4>2
    <3>2. CASE w = u /\ r = s
      BY <1>6, <3>1, <3>2 DEF NewTeamEntry
    <3>3. CASE ~ (w = u /\ r = s)
      <4>1. ~ (w = u /\ d = i)
        BY <3>1, <3>3
      <4>2. left[w][d] < 2 /\ ~ Deleted(p, left, d)
        BY <2>5, <4>1 DEF Stepped
      <4>3. teams[w][r] = [id |-> ids[d], valid |-> TRUE, myid |-> Rank(For(p, d), w), group |-> p[d].group]
        BY <2>1, <2>5, <4>2 DEF TableOK
      <4>. QED  BY <1>6, <3>3, <4>3
    <3>. QED  BY <3>2, <3>3
  <2>. QED  BY <2>3, <2>4, <2>5
<1>8. \A w \in Units : TableOK(p, ids, next, w)'
  BY <1>7 DEF TableOK
<1>. QED  BY <1>6, <1>8

\* The slot that is found under the id a unit has been told is that of its team.
LEMMA FoundIsOurs ==
    ASSUME NEW p, NEW ids, NEW left, NEW over, Coupled(p, ids, left, over),
           NEW u \in Units, NEW i, NEW c, NEW l, Standing(p, ids, left, u, i, c, l), StepAt(p, u, i, l).do = "init",
           ~ Misled(u), ValidSlot(FindTeam(area, buf[u].id))
    PROVE  ids[i] # NoTeam
<1>1. p[i].kind = "create" /\ MessageOK(p, ids, i, u, buf[u])
  BY InitStands
<1>2. buf[u].slot # NoSlot
  BY DEF Misled
<1>3. buf[u].id \in 1 .. Len(p) /\ Told(p, i, buf[u]) = buf[u].id /\ Told(p, i, buf[u]) = ids[i]
  BY <1>1, <1>2 DEF MessageOK, Told, Ids
<1>. QED  BY <1>3 DEF NoTeam

\* A unit initialises its table and its FIFOs for a new team.
LEMMA InitTeamStep ==
    ASSUME NEW p, NEW ids, NEW left, NEW over, Coupled(p, ids, left, over), NEW u \in Units, InitTeam(u)
    PROVE  \E next : Coupled(p, ids, next, over)'
<1>1. /\ WellFormed(p) /\ TypesOK(p) /\ prog = p /\ p \in Programs /\ GhostsOK(p, ids, left, over)
  BY ProgIs
<1>. PICK i, c, l : i = pos[u] /\ c = p[pos[u]].on /\ l = Len(todo[u])
  OBVIOUS
<1>. PICK next : next = [left EXCEPT ![u][pos[u]] = @ - 1]
  OBVIOUS
<1>. PICK s : s = FindTeam(area, buf[u].id)
  OBVIOUS
<1>2. /\ At(u, "init") /\ Advance(u) /\ UNCHANGED <<prog, area, holder, pos, inside, buf>>
      /\ ~ Misled(u) /\ ValidSlot(FindTeam(area, buf[u].id))
      /\ teams' = [teams EXCEPT ![u][s] =
             [id |-> buf[u].id, valid |-> TRUE, myid |-> buf[u].newid, group |-> Group(u)]]
      /\ pipes' = AddPipes(buf[u].id, buf[u].size, buf[u].newid)
      /\ handle' = [handle EXCEPT ![u][i] = buf[u].id]
  BY DEF InitTeam
<1>3. Standing(p, ids, left, u, i, c, l) /\ StepAt(p, u, i, l).do = "init"
  BY <1>2, AtStands
<1>4. ids[i] # NoTeam
  BY ONLY Coupled(p, ids, left, over), u \in Units, <1>2, <1>3, FoundIsOurs
<1>5. /\ p[i].kind = "create" /\ u \in For(p, i) /\ l = 2 /\ MessageOK(p, ids, i, u, buf[u])
      /\ buf[u].id = ids[i] /\ ids[i] \in 1 .. Len(p) /\ i # 0 /\ SlotIs(p, ids, i, s)
      /\ i \in DOMAIN p /\ i = pos[u]
  <2>1. /\ p[i].kind = "create" /\ u \in For(p, i) /\ l = 2 /\ MessageOK(p, ids, i, u, buf[u])
        /\ buf[u].id = ids[i] /\ ids[i] \in 1 .. Len(p) /\ i # 0 /\ SlotIs(p, ids, i, FindTeam(area, buf[u].id))
    BY ONLY Coupled(p, ids, left, over), u \in Units, <1>3, <1>4, InitStands
  <2>2. i \in DOMAIN p /\ i = pos[u]
    BY <1>3 DEF Standing
  <2>. QED  BY <2>1, <2>2
<1>6. buf[u].size = Cardinality(For(p, i)) /\ buf[u].newid = Rank(For(p, i), u) /\ Group(u) = p[i].group
  BY <1>1, <1>5 DEF MessageOK, Group
<1>. PICK h : h = ids[i]
  OBVIOUS
<1>7. handle' = [handle EXCEPT ![u][i] = h] /\ h \in Int /\ h = ids[i] /\ l = SetLeft(p, i)
  BY <1>1, <1>2, <1>5 DEF GhostsOK, SetLeft
<1>8. \A w \in Units : (w # u => handle'[w] = handle[w]) /\ buf'[w].op = buf[w].op
  BY <1>1, <1>2 DEF TypesOK
<1>9. /\ Stepped(p, left, next, u, pos[u], "init", Len(todo[u])) /\ GhostsOK(p, ids, next, over)
      /\ \A w \in Units : PlaceOK(p, ids, next, w)' /\ OverOK(p, ids, next, over, w)' /\ InsideOK(w)'
      /\ IdsOK(p, ids, next) /\ CountOK(p, ids, next)' /\ AreaOK(p, ids, next)' /\ LocksOK(p, ids, next)'
      /\ \A w \in Units : (todo'[w] # <<>> => todo[w] # <<>>) /\ (w # u => todo'[w] = todo[w])
      /\ \A w \in Units : ~ Lost(w)' => ~ Lost(w)
      /\ todo' \in [Units -> Seq(StepRec)]
  <2>1. "init" \notin {"find", "await", "wait", "lost", "newteam", "takelock"}
    OBVIOUS
  <2>. QED  BY AreaParts, <1>2, <1>8, <2>1, ZenonT(30)
<1>10. Stepped(p, left, next, u, i, "init", l)
  BY <1>9
<1>11. /\ handle' \in [Units -> [DOMAIN p -> Int]]
       /\ \A w \in Units : HandlesOK(p, ids, next, w)'
  BY ONLY Coupled(p, ids, left, over), u \in Units, <1>5, <1>7, <1>10, HandleSet
<1>12. /\ teams' \in [Units -> [TeamSlots -> [id : Int, valid : BOOLEAN, myid : Int, group : GroupRec]]]
       /\ \A w \in Units : TableOK(p, ids, next, w)'
  <2>1. teams' = WithTable(u, s, NewTeamEntry(p, ids, i, u)) /\ area' = area
    BY <1>2, <1>5, <1>6 DEF WithTable, NewTeamEntry
  <2>2. ids[i] # TeamAll
    BY <1>5 DEF TeamAll
  <2>. QED  BY ONLY Coupled(p, ids, left, over), u \in Units, <1>4, <1>5, <1>9, <1>10, <2>1, <2>2, InitTable
<1>13. /\ pipes' \in [DOMAIN pipes' -> [opened : BOOLEAN, queue : Seq(Message)]]
       /\ PipesOK(p, ids, next)' /\ QueuesOK(p, ids, next)'
  <2>1. pipes' = AddPipes(ids[i], Cardinality(For(p, i)), Rank(For(p, i), u)) /\ area' = area
    BY <1>2, <1>5, <1>6
  <2>. QED  BY ONLY Coupled(p, ids, left, over), u \in Units, <1>3, <1>4, <1>10, <2>1, InitPipes
<1>14. TypesOK(p)'
  BY <1>1, <1>2, <1>9, <1>11, <1>12, <1>13, Zenon DEF TypesOK
<1>15. \A w \in Units : BufOK(p, ids, next, w)'
  <2>1. /\ \A w \in Units : BufOK(p, ids, left, w)
        /\ \A w \in Units : todo'[w] # <<>> => todo[w] # <<>>
        /\ buf' = buf /\ pos' = pos /\ "init" \notin {"newteam", "takelock", "recv"}
    BY <1>2, <1>9 DEF Coupled
  <2>. QED  BY ONLY <1>10, <2>1, BufStep
<1>16. ReceivedOK(p, next)
  <2>1. ReceivedOK(p, left) /\ \A w : ~ ReceivesFrom(p, u, i, l, w)
    BY <1>3 DEF Coupled, ReceivesFrom
  <2>. QED  BY ONLY <1>10, <2>1, ReceivedStep
<1>17. Coupled(p, ids, next, over)'
  BY <1>1, <1>9, <1>11, <1>12, <1>13, <1>14, <1>15, <1>16, Zenon DEF Coupled
<1>. QED  BY <1>17

\* A unit takes the lock it has been told of.
LEMMA SetLockStep ==
    ASSUME NEW p, NEW ids, NEW left, NEW over, Coupled(p, ids, left, over), NEW u \in Units, SetLock(u)
    PROVE  \E next : Coupled(p, ids, next, over)'
<1>1. /\ WellFormed(p) /\ TypesOK(p) /\ prog = p /\ p \in Programs /\ DOMAIN p = 1 .. Len(p)
  BY ProgIs
<1>. PICK i, c, l : i = pos[u] /\ c = p[pos[u]].on /\ l = Len(todo[u])
  OBVIOUS
<1>. PICK next : next = [left EXCEPT ![u][pos[u]] = @ - 1]
  OBVIOUS
<1>. PICK h : h = IF buf[u].id = MaxLocks THEN NoLock ELSE buf[u].id
  OBVIOUS
<1>2. /\ At(u, "setlock") /\ Advance(u) /\ UNCHANGED <<prog, area, holder, pipes, teams, pos, inside, buf>>
      /\ handle' = [handle EXCEPT ![u][i] = h]
  BY DEF SetLock
<1>3. Standing(p, ids, left, u, i, c, l) /\ StepAt(p, u, i, l).do = "setlock"
  BY <1>2, AtStands
<1>4. /\ p[i].kind = "lockinit" /\ l = 1 /\ i \in DOMAIN p /\ u \in Mem(p, i)
      /\ left[u][i] = 1 /\ i = pos[u] /\ Started(u) /\ todo[u] # <<>> /\ SizeOK(p, u, i)
  <2>1. MakingAt(p, u, i, l) /\ SizeOK(p, u, i) /\ i \in DOMAIN p /\ u \in Mem(p, i)
    BY <1>3, MakingIs
  <2>2. left[u][i] = l /\ i = pos[u] /\ Started(u) /\ todo[u] # <<>>
    BY <1>3 DEF Standing
  <2>. QED  BY <1>3, <2>1, <2>2 DEF MakingAt
<1>5. u \in For(p, i) /\ Informed(p, left, u, i)
  <2>1. For(p, i) = Mem(p, i)
    BY <1>4 DEF For
  <2>2. Rank(Mem(p, i), u) = 0 <=> u = Maker(p, i)
    BY <1>1, <1>4, <2>1, ProgramTeams
  <2>3. u = Maker(p, i) => Size(p, u, i) >= 4 /\ Size(p, u, i) = MakeLeft(p, i)
    <3>1. CASE u = Maker(p, i)
      <4>1. Size(p, u, i) >= 4 /\ Size(p, u, i) \in Nat
        BY <1>1, <1>4, <2>2, <3>1, SizeType DEF SizeOK
      <4>. QED  BY <1>4, <3>1, <4>1 DEF MakeLeft
    <3>. QED  BY <3>1
  <2>4. Size(p, u, i) \in Nat
    BY <1>1, <1>4, SizeType
  <2>. QED  BY <1>4, <2>1, <2>3, <2>4 DEF Informed
<1>6. MessageOK(p, ids, i, u, buf[u])
  BY <1>4, <1>5 DEF Coupled, BufOK
<1>7. h = ids[i] /\ h \in Int
  <2>1. buf[u].id \in 0 .. MaxLocks /\ MaxLocks \in Nat /\ ids[i] = IF buf[u].id \in LockSlots THEN buf[u].id ELSE NoTeam
    BY <1>4, <1>6, SizesAssumption DEF MessageOK, Told, Ids
  <2>. QED  BY <2>1 DEF LockSlots, NoLock, NoTeam
<1>8. /\ Stepped(p, left, next, u, pos[u], "setlock", Len(todo[u])) /\ GhostsOK(p, ids, next, over)
      /\ \A w \in Units : PlaceOK(p, ids, next, w)' /\ OverOK(p, ids, next, over, w)' /\ InsideOK(w)'
      /\ IdsOK(p, ids, next) /\ CountOK(p, ids, next)' /\ AreaOK(p, ids, next)' /\ LocksOK(p, ids, next)'
      /\ \A w \in Units : (todo'[w] # <<>> => todo[w] # <<>>) /\ (w # u => todo'[w] = todo[w])
      /\ \A w \in Units : ~ Lost(w)' => ~ Lost(w)
      /\ todo' \in [Units -> Seq(StepRec)]
  <2>1. "setlock" \notin {"find", "await", "wait", "lost", "newteam", "takelock"}
    OBVIOUS
  <2>2. /\ \A w \in Units : w # u => handle'[w] = handle[w]
        /\ \A w \in Units : buf'[w].op = buf[w].op
    BY <1>1, <1>2 DEF TypesOK
  <2>. QED  BY AreaParts, <1>2, <2>1, <2>2, ZenonT(30)
<1>9. Stepped(p, left, next, u, i, "setlock", l)
  BY <1>8
<1>10. /\ handle' \in [Units -> [DOMAIN p -> Int]] /\ \A w \in Units : HandlesOK(p, ids, next, w)'
  <2>1. l = SetLeft(p, i) /\ h = ids[i] /\ h \in Int /\ u \in For(p, i) /\ i \in DOMAIN p
    BY <1>4, <1>5, <1>7 DEF SetLeft
  <2>2. handle' = [handle EXCEPT ![u][i] = h]
    BY <1>2
  <2>. QED  BY ONLY Coupled(p, ids, left, over), u \in Units, <1>9, <2>1, <2>2, HandleSet
<1>11. TypesOK(p)'
  BY <1>1, <1>2, <1>8, <1>10 DEF TypesOK
<1>13. \A w \in Units : BufOK(p, ids, next, w)'
  <2>1. /\ \A w \in Units : BufOK(p, ids, left, w)
        /\ \A w \in Units : todo'[w] # <<>> => todo[w] # <<>>
        /\ buf' = buf /\ pos' = pos /\ "setlock" \notin {"newteam", "takelock", "recv"}
    BY <1>2, <1>8 DEF Coupled
  <2>. QED  BY ONLY <1>9, <2>1, BufStep
<1>14. \A w \in Units : TableOK(p, ids, next, w)'
  <2>1. "setlock" = "init" => ids[i] = NoTeam
    OBVIOUS
  <2>. QED  BY ONLY Coupled(p, ids, left, over), <1>2, <1>8, <1>9, <2>1, TableParts
<1>15. PipesOK(p, ids, next)'
  <2>1. /\ PipesOK(p, ids, left) /\ DOMAIN pipes' = DOMAIN pipes /\ area'.nextid = area.nextid
        /\ "setlock" # "unlink" /\ ("setlock" = "init" => ids[i] = NoTeam)
    BY <1>2 DEF Coupled
  <2>. QED  BY ONLY <1>1, <1>9, <2>1, PipesStep
<1>16. QueuesOK(p, ids, next)' /\ ReceivedOK(p, next)
  <2>1. QueuesKept /\ "setlock" \notin {"send", "recv"}
    BY <1>2 DEF QueuesKept
  <2>. QED  BY ONLY Coupled(p, ids, left, over), <1>3, <1>9, <2>1, SilentParts
<1>17. Coupled(p, ids, next, over)'
  BY <1>1, <1>8, <1>10, <1>11, <1>13, <1>14, <1>15, <1>16, Zenon DEF Coupled
<1>. QED  BY <1>17

\* A unit unlinks the FIFOs of a team that lead to it.
LEMMA UnlinkStep ==
    ASSUME NEW p, NEW ids, NEW left, NEW over, Coupled(p, ids, left, over), NEW u \in Units, UnlinkPipes(u)
    PROVE  \E next : Coupled(p, ids, next, over)'
<1>1. /\ WellFormed(p) /\ TypesOK(p) /\ prog = p /\ p \in Programs /\ IdsOK(p, ids, left)
  BY ProgIs DEF Coupled
<1>. PICK i, c, l : i = pos[u] /\ c = p[pos[u]].on /\ l = Len(todo[u])
  OBVIOUS
<1>. PICK next : next = [left EXCEPT ![u][pos[u]] = @ - 1]
  OBVIOUS
<1>. PICK names : names = PipesTo(u)
  OBVIOUS
<1>2. /\ At(u, "unlink") /\ Advance(u) /\ UNCHANGED <<prog, area, holder, teams, handle, pos, inside, buf>>
      /\ pipes' = Restrict(pipes, DOMAIN pipes \ names)
  BY DEF UnlinkPipes
<1>3. Standing(p, ids, left, u, i, c, l) /\ StepAt(p, u, i, l).do = "unlink"
  BY <1>2, AtStands
<1>4. p[i].kind = "destroy" /\ i \in DOMAIN p
  BY <1>3, MakingIs DEF MakingAt
<1>5. /\ c \in Teams(p, ids) /\ Mem(p, i) = TeamMembers(p, c) /\ u \in TeamMembers(p, c) /\ c = p[i].on
      /\ T(u) = TeamId(ids, c) /\ Entry(u, T(u)) = EntryOf(p, ids, c, u) /\ SizeOf(u, T(u)) = Cardinality(Mem(p, i))
  BY <1>3 DEF Standing
<1>6. c # 0 /\ c \in DOMAIN p /\ p[c].kind = "create"
  BY <1>1, <1>4, <1>5, DestroyPlaces
<1>7. names = PipeNames(TeamId(ids, c), Cardinality(TeamMembers(p, c)), Rank(TeamMembers(p, c), u))
  BY <1>5 DEF PipesTo, EntryOf
<1>8. \A d \in Teams(p, ids) : \A v, w \in TeamMembers(p, d) : Pipe(p, ids, d, v, w) \in names <=> (d = c /\ w = u)
  BY ONLY <1>1, <1>5, <1>7, NamesTo
<1>9. DOMAIN pipes' = DOMAIN pipes \ names /\ QueuesKept /\ \A x \in DOMAIN pipes' : pipes'[x] = pipes[x]
  BY <1>2 DEF Restrict, QueuesKept
<1>10. /\ Stepped(p, left, next, u, pos[u], "unlink", Len(todo[u])) /\ GhostsOK(p, ids, next, over)
       /\ \A w \in Units : PlaceOK(p, ids, next, w)' /\ OverOK(p, ids, next, over, w)' /\ InsideOK(w)'
       /\ IdsOK(p, ids, next) /\ CountOK(p, ids, next)' /\ AreaOK(p, ids, next)' /\ LocksOK(p, ids, next)'
       /\ \A w \in Units : (todo'[w] # <<>> => todo[w] # <<>>) /\ (w # u => todo'[w] = todo[w])
       /\ \A w \in Units : ~ Lost(w)' => ~ Lost(w)
       /\ todo' \in [Units -> Seq(StepRec)]
  <2>1. "unlink" \notin {"find", "await", "wait", "lost"} /\ "unlink" \notin {"newteam", "takelock"}
    OBVIOUS
  <2>2. /\ \A w \in Units : w # u => handle'[w] = handle[w]
        /\ \A w \in Units : buf'[w].op = buf[w].op
    BY <1>2
  <2>. QED  BY AreaParts, <1>2, <2>1, <2>2, ZenonT(30)
<1>11. Stepped(p, left, next, u, i, "unlink", l)
  BY <1>10
<1>12. TypesOK(p)'
  <2>1. pipes' \in [DOMAIN pipes' -> [opened : BOOLEAN, queue : Seq(Message)]]
    <3>1. \A x \in DOMAIN pipes : pipes[x] \in [opened : BOOLEAN, queue : Seq(Message)]
      BY <1>1 DEF TypesOK
    <3>2. pipes' = [x \in DOMAIN pipes' |-> pipes'[x]]
      BY <1>2 DEF Restrict
    <3>. QED  BY <1>9, <3>1, <3>2
  <2>. QED  BY <1>1, <1>2, <1>10, <2>1 DEF TypesOK
<1>13. \A w \in Units : HandlesOK(p, ids, next, w)'
  <2>1. /\ handle' = handle /\ IdsOK(p, ids, left) /\ (\A w \in Units : HandlesOK(p, ids, left, w))
        /\ "unlink" \notin {"init", "setlock"}
    BY <1>2 DEF Coupled
  <2>. QED  BY ONLY <1>11, <2>1, HandlesStep
<1>14. \A w \in Units : BufOK(p, ids, next, w)'
  <2>1. /\ \A w \in Units : BufOK(p, ids, left, w)
        /\ \A w \in Units : todo'[w] # <<>> => todo[w] # <<>>
        /\ buf' = buf /\ pos' = pos /\ "unlink" \notin {"newteam", "takelock", "recv"}
    BY <1>2, <1>10 DEF Coupled
  <2>. QED  BY ONLY <1>11, <2>1, BufStep
<1>15. \A w \in Units : TableOK(p, ids, next, w)'
  <2>1. "unlink" = "init" => ids[i] = NoTeam
    OBVIOUS
  <2>. QED  BY ONLY Coupled(p, ids, left, over), <1>2, <1>10, <1>11, <2>1, TableParts
<1>16. PipesOK(p, ids, next)'
  <2>1. DOMAIN pipes' \in SUBSET ((0 .. area'.nextid - 1) \X Int \X Int)
    BY <1>2, <1>9 DEF Coupled, PipesOK
  <2>2. ASSUME NEW d \in Teams(p, ids), NEW v \in TeamMembers(p, d), NEW w \in TeamMembers(p, d)
        PROVE  (Pipe(p, ids, d, v, w) \in DOMAIN pipes') <=> There(p, next, d, w)
    <3>1. (Pipe(p, ids, d, v, w) \in DOMAIN pipes) <=> There(p, left, d, w)
      BY DEF Coupled, PipesOK
    <3>2. CASE d = c /\ w = u
      <4>1. Unlinked(p, next, c, u)
        BY <1>5, <1>6, <1>11 DEF Stepped
      <4>. QED  BY <1>8, <1>9, <3>2, <4>1 DEF There
    <3>3. CASE ~ (d = c /\ w = u)
      <4>1. There(p, next, d, w) <=> There(p, left, d, w)
        BY <1>1, <1>5, <1>11, <3>3, ThereSame
      <4>. QED  BY <1>8, <1>9, <3>1, <3>3, <4>1
    <3>. QED  BY <3>2, <3>3
  <2>. QED  BY <2>1, <2>2 DEF PipesOK
<1>17. QueuesOK(p, ids, next)' /\ ReceivedOK(p, next)
  <2>1. QueuesKept /\ "unlink" \notin {"send", "recv"}
    BY <1>9
  <2>. QED  BY ONLY Coupled(p, ids, left, over), <1>3, <1>11, <2>1, SilentParts
<1>18. Coupled(p, ids, next, over)'
  BY <1>1, <1>10, <1>12, <1>13, <1>14, <1>15, <1>16, <1>17, Zenon DEF Coupled
<1>. QED  BY <1>18

\* The state told with an id for what operation i is about to make.
NewIds(ids, i, id) == [ids EXCEPT ![i] = id]

\* No barrier is over of the operations on a team that is just made.
NewOver(p, over, i) == [j \in DOMAIN p |-> IF p[j].on = i THEN 0 ELSE over[j]]
\* Operation i has not made what it is to make.
Unmade(p, ids, left, i) ==
    /\ i \in DOMAIN p /\ p[i].kind \in {"create", "lockinit"} /\ Live(p, ids, i)
    /\ ~ (left[Maker(p, i)][i] < MakeLeft(p, i))

\* What is not made nobody has been told of.
LEMMA NotTold ==
    ASSUME NEW p, NEW ids, NEW left, NEW over, Coupled(p, ids, left, over), NEW i, Unmade(p, ids, left, i)
    PROVE  /\ ids[i] = NoTeam
           /\ \A w \in For(p, i) : /\ w \in Units /\ w \in Mem(p, i) /\ ~ Informed(p, left, w, i)
                                   /\ left[w][i] \in Nat /\ left[w][i] >= 3 /\ pos[w] <= i /\ pos[w] \in Nat /\ i \in Nat
           /\ \A v \in Mem(p, i) : \A w : ~ Sent(p, left, v, i, w)
<1>1. /\ WellFormed(p) /\ i \in DOMAIN p /\ p[i].kind \in {"create", "lockinit"} /\ Live(p, ids, i)
      /\ ~ (left[Maker(p, i)][i] < MakeLeft(p, i)) /\ IdsOK(p, ids, left) /\ ReceivedOK(p, left)
  BY ProgIs DEF Unmade, Coupled
<1>2. ids[i] = NoTeam
  BY <1>1 DEF IdsOK
<1>3. /\ Maker(p, i) \in For(p, i) /\ Maker(p, i) \in Mem(p, i)
      /\ \A w \in For(p, i) : w \in Units /\ w \in Mem(p, i)
  BY <1>1, ProgramTeams DEF IsTeam
<1>4. \A v \in Mem(p, i) : CallOK(p, v, i)
  BY <1>1, CallIs
<1>5. ASSUME NEW v \in Mem(p, i), NEW w PROVE ~ Sent(p, left, v, i, w)
  <2>. SUFFICES ASSUME NEW l \in 1 .. Size(p, v, i), left[v][i] < l, SendsTo(p, v, i, l, w) PROVE FALSE
    BY DEF Sent
  <2>1. MakingAt(p, v, i, l)
    BY <1>4 DEF CallOK, MakingOK
  <2>2. v = Maker(p, i) /\ l < MakeLeft(p, i)
    BY <1>1, <2>1 DEF MakingAt, SendsTo
  <2>3. left[v][i] \in Nat /\ Size(p, v, i) \in Nat
    BY <1>1, <1>3, <2>2, LeftIs
  <2>4. MakeLeft(p, i) \in Int
    BY <2>2, <2>3 DEF MakeLeft
  <2>. QED  BY <1>1, <2>2, <2>3, <2>4
<1>6. ASSUME NEW w \in For(p, i), w # Maker(p, i) PROVE ~ (left[w][i] < 3)
  <2>. SUFFICES ASSUME left[w][i] < 3 PROVE FALSE
    OBVIOUS
  <2>1. Size(p, w, i) = 4 /\ ReceivesFrom(p, w, i, 3, Maker(p, i))
    BY <1>1, <1>6, RecvAtThree
  <2>2. Got(p, left, w, i, Maker(p, i))
    BY <2>1 DEF Got
  <2>3. Sent(p, left, Maker(p, i), i, w)
    BY <1>1, <1>3, <2>2 DEF ReceivedOK
  <2>. QED  BY <1>3, <1>5, <2>3
<1>7. MakeLeft(p, i) \in Nat /\ MakeLeft(p, i) >= 3
  <2>. PICK m : m = Maker(p, i)
    OBVIOUS
  <2>1. SizeOK(p, m, i) /\ m \in For(p, i) /\ Size(p, m, i) \in Nat
    BY <1>1, <1>3, <1>4, SizeType DEF CallOK
  <2>2. CASE p[i].kind = "create"
    <3>1. Size(p, m, i) = Cardinality(For(p, i)) + 3 /\ Cardinality(For(p, i)) \in Nat \ {0}
      BY <1>1, <2>1, <2>2, NewGroup DEF SizeOK
    <3>. QED  BY <2>2, <3>1 DEF MakeLeft
  <2>3. CASE p[i].kind = "lockinit"
    <3>1. Rank(Mem(p, i), m) = 0
      BY <1>1, <1>3, <2>3, ProgramTeams DEF For
    <3>2. Size(p, m, i) >= 4
      BY <2>1, <2>3, <3>1 DEF SizeOK
    <3>. QED  BY <2>1, <2>3, <3>2 DEF MakeLeft
  <2>. QED  BY <1>1, <2>2, <2>3
<1>8. ASSUME NEW w \in For(p, i)
      PROVE  /\ w \in Units /\ w \in Mem(p, i) /\ ~ Informed(p, left, w, i)
             /\ left[w][i] \in Nat /\ left[w][i] >= 3 /\ pos[w] <= i /\ pos[w] \in Nat /\ i \in Nat
  <2>1. /\ w \in Units /\ w \in Mem(p, i)
    BY <1>3
  <2>2. /\ left[w][i] \in Nat /\ pos[w] \in Nat /\ i \in Nat /\ (i < pos[w] => left[w][i] = 0)
    BY <1>1, <2>1, LeftIs
  <2>3. left[w][i] >= 3
    BY <1>1, <1>6, <1>7, <2>2
  <2>4. ~ Informed(p, left, w, i)
    BY <1>1, <2>2, <2>3 DEF Informed
  <2>. QED  BY <2>1, <2>2, <2>3, <2>4
<1>. QED  BY <1>2, <1>5, <1>8

\* The places of the units do not tell the difference.
LEMMA NewIdPlaces ==
    ASSUME NEW p, NEW ids, NEW left, NEW over, Coupled(p, ids, left, over), NEW i, Unmade(p, ids, left, i),
           NEW id \in Int, NEW ids2, ids2 = NewIds(ids, i, id), NEW over2, over2 = NewOver(p, over, i)
    PROVE  /\ GhostsOK(p, ids2, left, over2)
           /\ \A w \in Units : PlaceOK(p, ids2, left, w) /\ OverOK(p, ids2, left, over2, w)
<1>1. /\ WellFormed(p) /\ i \in DOMAIN p /\ Live(p, ids, i) /\ GhostsOK(p, ids, left, over) /\ ids[i] = NoTeam
      /\ DOMAIN p = 1 .. Len(p) /\ Len(p) \in Nat
  BY ProgIs, NotTold DEF Unmade
<1>2. /\ ids2 \in [DOMAIN p -> Int] /\ ids2[i] = id /\ \A d \in DOMAIN p : d # i => ids2[d] = ids[d]
      /\ over2 \in [DOMAIN p -> Nat] /\ \A d \in DOMAIN p : over2[d] = IF p[d].on = i THEN 0 ELSE over[d]
  BY <1>1 DEF GhostsOK, NewIds, NewOver
<1>3. GhostsOK(p, ids2, left, over2)
  BY <1>1, <1>2 DEF GhostsOK
<1>4. \A j \in DOMAIN p : p[j].on # i => (Live(p, ids2, j) <=> Live(p, ids, j))
  <2>1. \A j \in DOMAIN p : p[j].on # 0 => p[j].on \in DOMAIN p
    BY <1>1, ProgramOn
  <2>. QED  BY <1>2, <2>1 DEF Live
<1>5. \A j \in DOMAIN p : p[j].on = i => ~ Live(p, ids, j)
  BY <1>1 DEF Live
<1>6. ASSUME NEW j \in DOMAIN p, p[j].on = i, NEW w \in Units, w \in Mem(p, j)
      PROVE  /\ left[w][j] = Size(p, w, j) /\ j > pos[w] /\ Size(p, w, j) \in Nat
  <2>1. left[w][j] = Size(p, w, j) /\ Size(p, w, j) \in Nat /\ j \in Nat /\ pos[w] \in Nat
    BY <1>5, <1>6, LeftIs
  <2>2. i < j /\ w \in For(p, i)
    BY <1>1, <1>6, ProgramOn, ProgramTeams
  <2>3. pos[w] <= i /\ i \in Nat
    BY <2>2, NotTold
  <2>. QED  BY <2>1, <2>2, <2>3
<1>7. ASSUME NEW w \in Units PROVE PlaceOK(p, ids2, left, w)
  <2>1. PlaceOK(p, ids, left, w)
    BY DEF Coupled
  <2>2. ASSUME NEW j \in DOMAIN p, w \in Mem(p, j)
        PROVE  left[w][j] = IF ~ Live(p, ids2, j) \/ j > pos[w] \/ (j = pos[w] /\ ~ Started(w)) THEN Size(p, w, j)
                            ELSE IF j < pos[w] THEN 0 ELSE Len(todo[w])
    <3>1. CASE p[j].on = i
      BY <1>6, <2>2, <3>1
    <3>2. CASE p[j].on # i
      BY <1>4, <2>1, <2>2, <3>2 DEF PlaceOK
    <3>. QED  BY <3>1, <3>2
  <2>3. todo[w] # <<>> => Live(p, ids2, pos[w])
    <3>. SUFFICES ASSUME todo[w] # <<>> PROVE Live(p, ids2, pos[w])
      OBVIOUS
    <3>1. pos[w] \in DOMAIN p /\ Live(p, ids, pos[w])
      BY Underway
    <3>. QED  BY <1>4, <1>5, <3>1
  <2>. QED  BY <2>1, <2>2, <2>3 DEF PlaceOK
<1>8. ASSUME NEW w \in Units PROVE OverOK(p, ids2, left, over2, w)
  <2>. SUFFICES ASSUME NEW j \in DOMAIN p, w \in Mem(p, j), Live(p, ids2, j), NEW b \in 1 .. Barriers(p, j)
                PROVE  (b <= over2[j]) <=> (\/ left[w][j] < BarLeft(p, w, j, b)
                              \/ (j = pos[w] /\ left[w][j] = BarLeft(p, w, j, b) /\ Woken(w)))
    BY DEF OverOK
  <2>1. CASE p[j].on = i
    <3>1. BarLeft(p, w, j, b) \in 1 .. Size(p, w, j)
      BY <1>1, SizeType
    <3>2. left[w][j] = Size(p, w, j) /\ j > pos[w] /\ Size(p, w, j) \in Nat /\ j # pos[w]
      BY <1>6, <2>1, LeftIs
    <3>3. over2[j] = 0
      BY <1>2, <2>1
    <3>. QED  BY <3>1, <3>2, <3>3
  <2>2. CASE p[j].on # i
    <3>1. over2[j] = over[j] /\ Live(p, ids, j)
      BY <1>2, <1>4, <2>2
    <3>. QED  BY <3>1 DEF Coupled, OverOK
  <2>. QED  BY <2>1, <2>2
<1>. QED  BY <1>3, <1>7, <1>8

\* Nor do the buffers, the tables, or the FIFOs.
LEMMA NewIdTold ==
    ASSUME NEW p, NEW ids, NEW left, NEW over, Coupled(p, ids, left, over), NEW i, Unmade(p, ids, left, i),
           NEW id \in Int, NEW ids2, ids2 = NewIds(ids, i, id),
           p[i].kind = "create" => ~ (id < area.nextid)
    PROVE  /\ \A d \in DOMAIN p : d # i => ids2[d] = ids[d]
           /\ ids2[i] = id /\ \A w \in Units : BufOK(p, ids2, left, w) /\ TableOK(p, ids2, left, w)
           /\ PipesOK(p, ids2, left) /\ QueuesOK(p, ids2, left)
<1>1. /\ WellFormed(p) /\ i \in DOMAIN p /\ GhostsOK(p, ids, left, over) /\ ids[i] = NoTeam
      /\ DOMAIN p = 1 .. Len(p) /\ Len(p) \in Nat /\ CountOK(p, ids, left) /\ PipesOK(p, ids, left) /\ QueuesOK(p, ids, left)
  BY ProgIs, NotTold DEF Unmade, Coupled
<1>2. /\ ids2[i] = id /\ \A d \in DOMAIN p : d # i => ids2[d] = ids[d]
  BY <1>1 DEF GhostsOK, NewIds
<1>3. \A w \in For(p, i) : ~ Informed(p, left, w, i) /\ ~ (left[w][i] < 2)
  BY NotTold
<1>4. \A d \in DOMAIN p : d # i => \A w, m : MessageOK(p, ids2, d, w, m) <=> MessageOK(p, ids, d, w, m)
  BY <1>2 DEF MessageOK
<1>5. ASSUME NEW w \in Units PROVE BufOK(p, ids2, left, w)
  <2>1. BufOK(p, ids, left, w)
    BY DEF Coupled
  <2>. QED  BY <1>3, <1>4, <2>1 DEF BufOK
<1>6. ASSUME NEW w \in Units PROVE TableOK(p, ids2, left, w)
  <2>1. TableOK(p, ids, left, w)
    BY DEF Coupled
  <2>. QED  BY <1>2, <1>3, <2>1 DEF TableOK
<1>7. \A c \in Teams(p, ids2) : c # i => c \in Teams(p, ids) /\ TeamId(ids2, c) = TeamId(ids, c)
  BY <1>2 DEF Teams, TeamId
<1>8. \A c \in Teams(p, ids2) : c # i => \A v, w : Pipe(p, ids2, c, v, w) = Pipe(p, ids, c, v, w)
  BY <1>7 DEF Pipe
<1>9. ASSUME i \in Teams(p, ids2)
      PROVE  \A v, w \in TeamMembers(p, i) : Pipe(p, ids2, i, v, w) \notin DOMAIN pipes /\ ~ There(p, left, i, w)
  <2>. SUFFICES ASSUME NEW v \in TeamMembers(p, i), NEW w \in TeamMembers(p, i)
                PROVE  Pipe(p, ids2, i, v, w) \notin DOMAIN pipes /\ ~ There(p, left, i, w)
    OBVIOUS
  <2>1. p[i].kind = "create" /\ i # 0 /\ TeamId(ids2, i) = id
    BY <1>1, <1>2, <1>9 DEF Teams, TeamId
  <2>2. ~ (id < area.nextid) /\ area.nextid \in Int
    BY <1>1, <2>1 DEF CountOK
  <2>3. Pipe(p, ids2, i, v, w)[1] = id
    BY <2>1 DEF Pipe
  <2>4. \A x \in DOMAIN pipes : x[1] \in 0 .. area.nextid - 1
    BY <1>1 DEF PipesOK
  <2>5. w \in For(p, i)
    BY <2>1 DEF TeamMembers, For
  <2>. QED  BY <1>3, <2>1, <2>2, <2>3, <2>4, <2>5 DEF There
<1>10. PipesOK(p, ids2, left)
  <2>. SUFFICES ASSUME NEW c \in Teams(p, ids2), NEW v \in TeamMembers(p, c), NEW w \in TeamMembers(p, c)
                PROVE  (Pipe(p, ids2, c, v, w) \in DOMAIN pipes) <=> There(p, left, c, w)
    BY <1>1 DEF PipesOK
  <2>1. CASE c = i
    BY <1>9, <2>1
  <2>2. CASE c # i
    BY <1>1, <1>7, <1>8, <2>2 DEF PipesOK
  <2>. QED  BY <2>1, <2>2
<1>11. QueuesOK(p, ids2, left)
  <2>. SUFFICES ASSUME NEW c \in Teams(p, ids2), NEW v \in TeamMembers(p, c), NEW w \in TeamMembers(p, c),
                       Pipe(p, ids2, c, v, w) \in DOMAIN pipes
                PROVE  QueueOK(p, ids2, left, c, v, w, pipes[Pipe(p, ids2, c, v, w)].queue)
    BY DEF QueuesOK
  <2>1. c # i
    BY <1>9
  <2>. PICK q : q = pipes[Pipe(p, ids2, c, v, w)].queue
    OBVIOUS
  <2>2. QueueOK(p, ids, left, c, v, w, q)
    BY <1>1, <1>7, <1>8, <2>1 DEF QueuesOK
  <2>3. \A k \in DOMAIN q : q[k].op # i
    <3>1. \A x \in Mem(p, i) : \A y : ~ Sent(p, left, x, i, y)
      BY NotTold
    <3>2. \A k \in DOMAIN q : q[k].op = i => v \in Mem(p, i)
      BY <2>2 DEF QueueOK, Mem
    <3>. QED  BY <2>2, <3>1, <3>2 DEF QueueOK
  <2>. QED  BY <1>4, <2>2, <2>3 DEF QueueOK
<1>. QED  BY <1>2, <1>5, <1>6, <1>10, <1>11

\* What the step that makes a team or a lock does to all but the area.
LEMMA MadeParts ==
    ASSUME NEW p, NEW ids, NEW left, NEW over, Coupled(p, ids, left, over),
           NEW u \in Units, NEW do \in {"newteam", "takelock"}, At(u, do), Advance(u),
           UNCHANGED <<prog, pos, inside, handle, pipes, teams>>,
           NEW next, next = [left EXCEPT ![u][pos[u]] = @ - 1],
           NEW i, i = pos[u], Unmade(p, ids, left, i), NEW id \in Int, p[i].kind = "create" => ~ (id < area.nextid),
           NEW ids2, ids2 = NewIds(ids, i, id), NEW over2, over2 = NewOver(p, over, i),
           NEW m, NewBuf(u, m), MessageOK(p, ids2, i, u, m),
           \A s \in TeamSlots : /\ area'.teams[s].barr.asleep = area.teams[s].barr.asleep
                                /\ area'.teams[s].barr.woken = area.teams[s].barr.woken
                                /\ area.teams[s].inuse =>
                                       area'.teams[s].inuse /\ area'.teams[s].id = area.teams[s].id,
           (0 .. area.nextid - 1) \subseteq (0 .. area'.nextid - 1)
    PROVE  /\ Stepped(p, left, next, u, i, do, Len(todo[u])) /\ GhostsOK(p, ids2, next, over2)
           /\ \A w \in Units : PlaceOK(p, ids2, next, w)' /\ OverOK(p, ids2, next, over2, w)' /\ InsideOK(w)'
           /\ \A w \in Units : HandlesOK(p, ids2, next, w)' /\ BufOK(p, ids2, next, w)'
           /\ PipesOK(p, ids2, next)' /\ QueuesOK(p, ids2, next)' /\ ReceivedOK(p, next)
           /\ \A w \in Units : ~ Lost(w)' => ~ Lost(w)
           /\ todo' \in [Units -> Seq(StepRec)]
<1>. PICK l : l = Len(todo[u])
  OBVIOUS
<1>1. /\ WellFormed(p) /\ IdsOK(p, ids, left) /\ ReceivedOK(p, left) /\ (\A w \in Units : HandlesOK(p, ids, left, w))
      /\ i \in DOMAIN p
  BY ProgIs DEF Coupled, Unmade
<1>2. GhostsOK(p, ids2, left, over2) /\ \A w \in Units : PlaceOK(p, ids2, left, w) /\ OverOK(p, ids2, left, over2, w)
  BY NewIdPlaces
<1>3. /\ \A d \in DOMAIN p : d # i => ids2[d] = ids[d]
      /\ \A w \in Units : BufOK(p, ids2, left, w)
      /\ PipesOK(p, ids2, left) /\ QueuesOK(p, ids2, left)
  BY NewIdTold
<1>4. /\ Stepped(p, left, next, u, pos[u], do, Len(todo[u])) /\ GhostsOK(p, ids2, next, over2)
      /\ \A w \in Units : PlaceOK(p, ids2, next, w)' /\ OverOK(p, ids2, next, over2, w)'
      /\ \A w \in Units : (Waiting(w)' <=> Waiting(w)) /\ (Entering(w)' <=> Entering(w))
      /\ \A w \in Units : ~ Lost(w)' => ~ Lost(w)
      /\ \A w \in Units : (todo'[w] # <<>> => todo[w] # <<>>) /\ (w # u => todo'[w] = todo[w])
      /\ todo' \in [Units -> Seq(StepRec)]
  <2>1. do \notin {"find", "await", "wait", "lost"}
    OBVIOUS
  <2>2. /\ \A w \in Units : buf'[w].op = buf[w].op
        /\ \A s \in TeamSlots : area'.teams[s].barr.woken = area.teams[s].barr.woken
        /\ pos' = pos /\ prog' = prog /\ inside' = inside
    BY DEF NewBuf
  <2>. QED  BY ONLY Coupled(p, ids, left, over), u \in Units, At(u, do), Advance(u), <1>2, <2>1, <2>2,
                    next = [left EXCEPT ![u][pos[u]] = @ - 1], PlainStep
<1>5. Stepped(p, left, next, u, i, do, l)
  BY <1>4
<1>6. \A w \in Units : InsideOK(w)'
  <2>1. /\ inside' = inside /\ pos' = pos /\ prog' = prog /\ (\A w \in Units : w # u => handle'[w] = handle[w])
        /\ inside[u] = NoSlot
        /\ \A s \in TeamSlots : /\ area'.teams[s].barr.asleep = area.teams[s].barr.asleep
                                /\ area'.teams[s].barr.woken = area.teams[s].barr.woken
    BY DEF At
  <2>2. ASSUME NEW w \in Units, NEW s \in TeamSlots, inside[w] = s, w \notin area.teams[s].barr.woken
        PROVE  area'.teams[s].inuse = area.teams[s].inuse /\ area'.teams[s].id = area.teams[s].id
    <3>1. area.teams[s].inuse
      BY <2>2 DEF Coupled, InsideOK
    <3>2. area.teams[s].inuse \in BOOLEAN /\ area'.teams[s].inuse
      BY <3>1 DEF Coupled, TypesOK
    <3>. QED  BY <3>1, <3>2
  <2>. QED  BY ONLY Coupled(p, ids, left, over), u \in Units, <1>4, <2>1, <2>2, PlainInside
<1>7. \A w \in Units : HandlesOK(p, ids2, next, w)'
  <2>1. do \notin {"init", "setlock"} /\ handle' = handle
    OBVIOUS
  <2>2. \A w \in Units : HandlesOK(p, ids, next, w)'
    BY ONLY <1>1, <1>5, <2>1, HandlesStep, Zenon
  <2>3. \A w \in For(p, i) : ~ (next[w][i] < SetLeft(p, i))
    <3>1. \A w \in For(p, i) : w \in Units /\ left[w][i] \in Nat /\ left[w][i] >= 3
      BY NotTold
    <3>2. \A w \in For(p, i) : ~ (left[w][i] < SetLeft(p, i))
      BY <3>1 DEF SetLeft
    <3>3. p[i].kind \in {"create", "lockinit"}
      BY DEF Unmade
    <3>. QED  BY <1>1, <1>5, <2>1, <3>1, <3>2, <3>3 DEF Stepped
  <2>. QED  BY <1>3, <2>2, <2>3 DEF HandlesOK
<1>8. \A w \in Units : BufOK(p, ids2, next, w)'
  <2>1. /\ i = pos[u] /\ pos' = pos /\ NewBuf(u, m) /\ MessageOK(p, ids2, i, u, m) /\ u \in Units
        /\ \A w \in Units : todo'[w] # <<>> => todo[w] # <<>>
    BY <1>4
  <2>. QED  BY ONLY <1>3, <1>5, <2>1, BufParts
<1>9. PipesOK(p, ids2, next)'
  <2>1. /\ DOMAIN pipes' = DOMAIN pipes /\ do # "unlink" /\ (do = "init" => ids2[i] = NoTeam)
        /\ (0 .. area.nextid - 1) \subseteq (0 .. area'.nextid - 1)
    OBVIOUS
  <2>. QED  BY ONLY <1>1, <1>3, <1>5, <2>1, PipesStep
<1>10. \A w : ~ SendsTo(p, u, i, l, w) /\ ~ ReceivesFrom(p, u, i, l, w)
  <2>1. StepAt(p, u, i, l).do = do
    BY AtStep
  <2>. QED  BY <2>1 DEF SendsTo, ReceivesFrom
<1>11. QueuesOK(p, ids2, next)'
  <2>1. \A name \in DOMAIN pipes' : name \in DOMAIN pipes /\ pipes'[name].queue = pipes[name].queue
    OBVIOUS
  <2>. QED  BY ONLY <1>3, <1>5, <1>10, <2>1, QueuesStep
<1>12. ReceivedOK(p, next)
  BY ONLY <1>1, <1>5, <1>10, ReceivedStep
<1>. QED  BY <1>4, <1>6, <1>7, <1>8, <1>9, <1>11, <1>12, Zenon

\* The slot of a lock that is free, if there is one.
LEMMA FreeLockIs ==
    /\ FreeLock(area) \in 0 .. MaxLocks /\ MaxLocks \in Nat
    /\ FreeLock(area) # MaxLocks => FreeLock(area) \in LockSlots /\ ~ area.locks[FreeLock(area)].inuse
    /\ FreeLock(area) = MaxLocks => FreeLock(area) \notin LockSlots
<1>1. MaxLocks \in Nat /\ LockSlots \subseteq Int /\ MaxLocks \notin LockSlots /\ LockSlots \subseteq 0 .. MaxLocks
  BY SizesAssumption DEF LockSlots
<1>. PICK S : S = FreeLockSlots(area)
  OBVIOUS
<1>2. S \subseteq LockSlots /\ \A l \in S : ~ area.locks[l].inuse
  BY DEF FreeLockSlots
<1>3. CASE S = {}
  <2>1. FreeLock(area) = MaxLocks
    BY <1>3 DEF FreeLock
  <2>. QED  BY <1>1, <2>1
<1>4. CASE S # {}
  <2>1. IsFiniteSet(S)
    <3>1. IsFiniteSet(LockSlots)
      BY <1>1, FS_Interval DEF LockSlots
    <3>. QED  BY <1>2, <3>1, FS_Subset
  <2>2. Min(S) \in S
    BY <1>1, <1>2, <1>4, <2>1, RankOfMin
  <2>3. FreeLock(area) = Min(S)
    BY <1>4 DEF FreeLock
  <2>. QED  BY <1>1, <1>2, <2>2, <2>3
<1>. QED  BY <1>3, <1>4

\* The area after slot f has been taken, if f is a slot.
TookLock(f) ==
    /\ area'.teams = area.teams /\ area'.nextid = area.nextid
    /\ area'.locks \in [LockSlots -> [inuse : BOOLEAN, team : Int]]
    /\ f \in LockSlots => area'.locks[f].inuse
    /\ \A l \in LockSlots : l # f => area'.locks[l] = area.locks[l]
    /\ area' = [teams |-> area'.teams, locks |-> area'.locks, nextid |-> area'.nextid]

\* dart_shmem_lock_new leaves the area as TookLock says.
LEMMA TakeLockIs ==
    ASSUME NEW p, TypesOK(p), NEW f, NEW t \in Int, area' = TakeLock(area, f, t)
    PROVE  TookLock(f)
<1>1. /\ area = [teams |-> area.teams, locks |-> area.locks, nextid |-> area.nextid]
      /\ area.locks \in [LockSlots -> [inuse : BOOLEAN, team : Int]]
  BY DEF TypesOK
<1>. PICK a, b, n : a = area.teams /\ b = area.locks /\ n = area.nextid
  OBVIOUS
<1>2. CASE f \in LockSlots
  <2>1. area' = [area EXCEPT !.locks[f] = [inuse |-> TRUE, team |-> t]]
    BY <1>2 DEF TakeLock
  <2>2. area' = [teams |-> a, locks |-> [b EXCEPT ![f] = [inuse |-> TRUE, team |-> t]], nextid |-> n]
    BY <1>1, <2>1
  <2>3. [inuse |-> TRUE, team |-> t] \in [inuse : BOOLEAN, team : Int]
    OBVIOUS
  <2>. QED  BY <1>1, <1>2, <2>2, <2>3 DEF TookLock
<1>3. CASE f \notin LockSlots
  BY <1>1, <1>3 DEF TakeLock, TookLock
<1>. QED  BY <1>2, <1>3

\* The first unit of a team takes a slot for a lock.
LEMMA TakeLockStep ==
    ASSUME NEW p, NEW ids, NEW left, NEW over, Coupled(p, ids, left, over), NEW u \in Units, TakeLockSlot(u)
    PROVE  \E ids2, next, over2 : Coupled(p, ids2, next, over2)'
<1>1. /\ WellFormed(p) /\ TypesOK(p) /\ prog = p /\ p \in Programs /\ DOMAIN p = 1 .. Len(p)
  BY ProgIs
<1>. PICK i, c, l : i = pos[u] /\ c = p[pos[u]].on /\ l = Len(todo[u])
  OBVIOUS
<1>. PICK next : next = [left EXCEPT ![u][pos[u]] = @ - 1]
  OBVIOUS
<1>. PICK f : f = FreeLock(area)
  OBVIOUS
<1>. PICK id : id = (IF f \in LockSlots THEN f ELSE NoTeam)
  OBVIOUS
<1>. PICK m : m = [buf[u] EXCEPT !.id = f]
  OBVIOUS
<1>. PICK ids2, over2 : ids2 = NewIds(ids, i, id) /\ over2 = NewOver(p, over, i)
  OBVIOUS
<1>2. /\ At(u, "takelock") /\ Advance(u) /\ UNCHANGED <<prog, holder, pipes, teams, handle, pos, inside>>
      /\ area' = TakeLock(area, f, T(u)) /\ buf' = [buf EXCEPT ![u].id = f]
  BY DEF TakeLockSlot
<1>3. Standing(p, ids, left, u, i, c, l) /\ StepAt(p, u, i, l).do = "takelock"
  BY <1>2, AtStands
<1>4. /\ p[i].kind = "lockinit" /\ l = MakeLeft(p, i) /\ i \in DOMAIN p /\ u = Maker(p, i)
      /\ left[u][i] = l /\ l \in Nat /\ Live(p, ids, i) /\ T(u) = TeamId(ids, c) /\ c \in Teams(p, ids)
  BY <1>3, MakingIs DEF MakingAt, Standing
<1>5. Unmade(p, ids, left, i)
  BY <1>4 DEF Unmade
<1>6. /\ f \in 0 .. MaxLocks /\ MaxLocks \in Nat /\ (f \in LockSlots => ~ area.locks[f].inuse)
      /\ id = (IF f \in LockSlots THEN f ELSE NoTeam) /\ id \in Int
      /\ f \notin LockSlots => id = NoTeam
  <2>1. /\ f \in 0 .. MaxLocks /\ MaxLocks \in Nat
        /\ f # MaxLocks => f \in LockSlots /\ ~ area.locks[f].inuse
        /\ f = MaxLocks => f \notin LockSlots
    BY FreeLockIs
  <2>. QED  BY <2>1 DEF NoTeam
<1>7. T(u) \in Int
  <2>1. ids \in [DOMAIN p -> Int]
    BY ProgIs DEF GhostsOK
  <2>2. CASE c = 0
    BY <1>4, <2>2 DEF TeamId, TeamAll
  <2>3. CASE c # 0
    <3>1. c \in DOMAIN p /\ TeamId(ids, c) = ids[c]
      BY <1>4, <2>3 DEF Teams, TeamId
    <3>. QED  BY <1>4, <2>1, <3>1
  <2>. QED  BY <2>2, <2>3
<1>8. TookLock(f)
  BY <1>1, <1>2, <1>7, TakeLockIs
<1>9. /\ m \in Message /\ m.op = buf[u].op /\ m.id = f /\ NewBuf(u, m)
  <2>1. buf[u] \in Message /\ f \in Int /\ buf \in [Units -> Message]
    BY <1>1, <1>6 DEF TypesOK
  <2>2. m \in Message /\ m.op = buf[u].op /\ m.id = f
    BY <2>1 DEF Message
  <2>3. buf' = [buf EXCEPT ![u] = m]
    BY <1>2, <2>1
  <2>. QED  BY <2>1, <2>2, <2>3, BufChanged
<1>10. /\ ids2[i] = id /\ \A d \in DOMAIN p : d # i => ids2[d] = ids[d]
       /\ \A w \in Units : TableOK(p, ids2, left, w)
  BY <1>4, <1>5, <1>6, NewIdTold
<1>11. MessageOK(p, ids2, i, u, m)
  <2>1. Told(p, i, m) = id
    BY <1>4, <1>6, <1>9 DEF Told, Ids
  <2>. QED  BY <1>4, <1>6, <1>9, <1>10, <2>1 DEF MessageOK
<1>12. /\ Stepped(p, left, next, u, i, "takelock", Len(todo[u])) /\ GhostsOK(p, ids2, next, over2)
       /\ \A w \in Units : PlaceOK(p, ids2, next, w)' /\ OverOK(p, ids2, next, over2, w)' /\ InsideOK(w)'
       /\ \A w \in Units : HandlesOK(p, ids2, next, w)' /\ BufOK(p, ids2, next, w)'
       /\ PipesOK(p, ids2, next)' /\ QueuesOK(p, ids2, next)' /\ ReceivedOK(p, next)
       /\ \A w \in Units : ~ Lost(w)' => ~ Lost(w)
       /\ todo' \in [Units -> Seq(StepRec)]
  <2>1. /\ \A s \in TeamSlots : /\ area'.teams[s].barr.asleep = area.teams[s].barr.asleep
                                /\ area'.teams[s].barr.woken = area.teams[s].barr.woken
                                /\ area.teams[s].inuse =>
                                       area'.teams[s].inuse /\ area'.teams[s].id = area.teams[s].id
        /\ (0 .. area.nextid - 1) \subseteq (0 .. area'.nextid - 1)
        /\ "takelock" \in {"newteam", "takelock"}
    BY <1>8 DEF TookLock
  <2>2. UNCHANGED <<prog, pos, inside, handle, pipes, teams>>
    BY <1>2
  <2>3. p[i].kind = "create" => ~ (id < area.nextid)
    BY <1>4
  <2>4. /\ At(u, "takelock") /\ Advance(u) /\ i = pos[u] /\ next = [left EXCEPT ![u][pos[u]] = @ - 1]
        /\ ids2 = NewIds(ids, i, id) /\ over2 = NewOver(p, over, i) /\ Unmade(p, ids, left, i) /\ id \in Int
        /\ NewBuf(u, m) /\ MessageOK(p, ids2, i, u, m) /\ u \in Units
    BY <1>2, <1>5, <1>6, <1>9, <1>11
  <2>. QED  BY ONLY Coupled(p, ids, left, over), <2>1, <2>2, <2>3, <2>4, MadeParts, ZenonT(30)
<1>13. Stepped(p, left, next, u, i, "takelock", l)
  BY <1>12
<1>14. IdsOK(p, ids2, next)
  <2>1. /\ \A d \in DOMAIN p : ids[d] # NoTeam =>
              ids[d] \in Ids(p, d) /\ Live(p, ids, d) /\ next[Maker(p, d)][d] < MakeLeft(p, d)
        /\ \A d, e \in DOMAIN p :
              (p[d].kind = "create" /\ p[e].kind = "create" /\ ids[d] # NoTeam /\ ids[d] = ids[e]) => d = e
    <3>1. IdsOK(p, ids, left)
      BY DEF Coupled
    <3>2. IdsOK(p, ids, next)
      BY ONLY <1>13, <3>1, IdsStep
    <3>. QED  BY <3>2 DEF IdsOK
  <2>2. \A d \in DOMAIN p : Live(p, ids, d) => Live(p, ids2, d)
    <3>1. \A d \in DOMAIN p : p[d].on # 0 => p[d].on \in DOMAIN p /\ p[d].on # i
      BY <1>1, <1>4, ProgramOn
    <3>. QED  BY <1>10, <3>1 DEF Live
  <2>3. id # NoTeam => id \in Ids(p, i)
    BY <1>4, <1>6 DEF Ids
  <2>4. next[Maker(p, i)][i] < MakeLeft(p, i)
    BY <1>4, <1>13, Zenon DEF Stepped
  <2>. QED  BY ONLY <1>4, <1>10, <2>1, <2>2, <2>3, <2>4 DEF IdsOK
<1>15. CountOK(p, ids2, next)'
  <2>1. CountOK(p, ids, left)
    BY DEF Coupled
  <2>2. CountOK(p, ids2, left)
    BY <1>4, <1>10, <2>1, Zenon DEF CountOK
  <2>3. area'.nextid = area.nextid
    BY <1>8 DEF TookLock
  <2>. QED  BY ONLY <1>1, <1>4, <1>13, <2>2, <2>3, CountStep
<1>16. AreaOK(p, ids2, next)'
  <2>1. AreaOK(p, ids, left)
    BY Zenon DEF Coupled
  <2>2. AreaOK(p, ids2, left)
    BY ONLY <1>4, <1>10, <2>1 DEF AreaOK
  <2>3. area'.nextid = area.nextid /\ area'.teams = area.teams
    BY <1>8 DEF TookLock
  <2>4. \A s \in TeamSlots : /\ area'.teams[s].inuse = area.teams[s].inuse
                             /\ area'.teams[s].id = area.teams[s].id
                             /\ area'.teams[s].barr.procs = area.teams[s].barr.procs
                             /\ ~ area.teams[s].inuse => area'.teams[s].barr.asleep = {}
    BY <2>1, <2>3 DEF AreaOK
  <2>. QED  BY ONLY <1>13, <2>2, <2>3, <2>4, AreaStep
<1>17. \A w \in Units : TableOK(p, ids2, next, w)'
  <2>1. /\ \A s \in TeamSlots : (area'.teams[s].inuse => area.teams[s].inuse) /\ area'.teams[s].id = area.teams[s].id
        /\ \A w \in Units : ~ Lost(w)' => ~ Lost(w) /\ teams'[w] = teams[w]
        /\ "takelock" = "init" => ids2[i] = NoTeam
        /\ \A w \in Units : TableOK(p, ids2, left, w)
    BY <1>2, <1>8, <1>10, <1>12, Zenon DEF TookLock
  <2>. QED  BY ONLY <1>13, <2>1, TableStep
<1>18. LocksOK(p, ids2, next)'
  <2>. SUFFICES ASSUME NEW d \in DOMAIN p, NEW e \in DOMAIN p, p[d].kind = "lockinit", p[e].kind = "lockinit",
                       ids2[d] # NoTeam, ids2[e] # NoTeam, ~ Dropped(p, next, d), ~ Dropped(p, next, e)
                PROVE  area'.locks[ids2[d]].inuse /\ (ids2[d] = ids2[e] => d = e)
    BY DEF LocksOK
  <2>1. \A x \in DOMAIN p : p[x].kind = "lockinit" /\ ~ Dropped(p, next, x) => ~ Dropped(p, left, x)
    BY <1>13 DEF Stepped
  <2>2. \A x, y \in DOMAIN p :
            (/\ p[x].kind = "lockinit" /\ p[y].kind = "lockinit" /\ ids[x] # NoTeam /\ ids[y] # NoTeam
             /\ ~ Dropped(p, next, x) /\ ~ Dropped(p, next, y))
            => area.locks[ids[x]].inuse /\ (ids[x] = ids[y] => x = y)
    BY <2>1 DEF Coupled, LocksOK
  <2>3. \A x \in DOMAIN p : p[x].kind = "lockinit" /\ ids2[x] # NoTeam => ids2[x] \in LockSlots
    BY <1>14 DEF IdsOK, Ids
  <2>4. f \in LockSlots => area'.locks[f].inuse /\ ~ area.locks[f].inuse
    BY <1>6, <1>8 DEF TookLock
  <2>5. \A x \in DOMAIN p : (/\ x # i /\ p[x].kind = "lockinit" /\ ids2[x] # NoTeam /\ ~ Dropped(p, next, x))
            => ids2[x] # f /\ area'.locks[ids2[x]].inuse
    <3>1. \A k \in LockSlots : k # f => area'.locks[k] = area.locks[k]
      BY <1>8 DEF TookLock
    <3>. QED  BY ONLY <1>10, <2>2, <2>3, <2>4, <3>1
  <2>6. ids2[i] # NoTeam => ids2[i] = f /\ f \in LockSlots
    BY <1>6, <1>10
  <2>7. area'.locks[ids2[d]].inuse
    BY <2>4, <2>5, <2>6
  <2>8. ASSUME ids2[d] = ids2[e] PROVE d = e
    <3>1. CASE d = i \/ e = i
      BY <2>5, <2>6, <2>8, <3>1, ZenonT(30)
    <3>2. CASE d # i /\ e # i
      <4>1. /\ ids[d] # NoTeam /\ ids[e] # NoTeam /\ ids[d] = ids[e] /\ p[d].kind = "lockinit" /\ p[e].kind = "lockinit"
            /\ ~ Dropped(p, next, d) /\ ~ Dropped(p, next, e) /\ d \in DOMAIN p /\ e \in DOMAIN p
        BY <1>10, <2>8, <3>2
      <4>. QED  BY ONLY <2>2, <4>1
    <3>. QED  BY <3>1, <3>2
  <2>. QED  BY <2>7, <2>8
<1>19. TypesOK(p)'
  <2>1. area' \in [teams : [TeamSlots -> [inuse : BOOLEAN, id : Int,
                             barr : [procs : Int, asleep : SUBSET Units, woken : SUBSET Units, torn : BOOLEAN]]],
                   locks : [LockSlots -> [inuse : BOOLEAN, team : Int]],
                   nextid : Int]
    <3>1. area.teams \in [TeamSlots -> [inuse : BOOLEAN, id : Int,
                             barr : [procs : Int, asleep : SUBSET Units, woken : SUBSET Units, torn : BOOLEAN]]] /\ area.nextid \in Int
      BY <1>1 DEF TypesOK
    <3>. QED  BY <1>8, <3>1 DEF TookLock
  <2>. QED  BY <1>1, <1>2, <1>9, <1>12, <2>1 DEF TypesOK, NewBuf
<1>20. Coupled(p, ids2, next, over2)'
  BY <1>1, <1>12, <1>14, <1>15, <1>16, <1>17, <1>18, <1>19, Zenon DEF Coupled
<1>. QED  BY <1>20

\* The area after slot s has been made a team of n.
MadeTeam(s, n) ==
    /\ area' = [teams |-> area'.teams, locks |-> area.locks, nextid |-> area.nextid + 1]
    /\ area'.locks = area.locks /\ area'.nextid = area.nextid + 1
    /\ area'.teams \in [TeamSlots -> [inuse : BOOLEAN, id : Int,
                             barr : [procs : Int, asleep : SUBSET Units, woken : SUBSET Units, torn : BOOLEAN]]]
    /\ area'.teams[s].inuse /\ area'.teams[s].id = area.nextid
    /\ area'.teams[s].barr.procs = n /\ area'.teams[s].barr.asleep = {}
    /\ area'.teams[s].barr.woken = area.teams[s].barr.woken
    /\ \A r \in TeamSlots : r # s => area'.teams[r] = area.teams[r]

\* dart_shmem_team_new leaves the area as MadeTeam says.
LEMMA NewTeamIs ==
    ASSUME NEW p, TypesOK(p), NEW s \in TeamSlots, NEW n \in Int, area' = NewTeam(area, s, n)
    PROVE  MadeTeam(s, n)
<1>1. /\ area = [teams |-> area.teams, locks |-> area.locks, nextid |-> area.nextid]
      /\ area.teams \in [TeamSlots -> [inuse : BOOLEAN, id : Int,
                             barr : [procs : Int, asleep : SUBSET Units, woken : SUBSET Units, torn : BOOLEAN]]]
      /\ area.nextid \in Int
  BY DEF TypesOK
<1>. PICK a, b, k : a = area.teams /\ b = area.locks /\ k = area.nextid
  OBVIOUS
<1>. PICK w : w = a[s].barr.woken
  OBVIOUS
<1>. PICK g : g = [procs |-> n, asleep |-> {}, woken |-> w, torn |-> w # {}]
  OBVIOUS
<1>. PICK e : e = [inuse |-> TRUE, id |-> k, barr |-> g]
  OBVIOUS
<1>2. w \in SUBSET Units
  BY <1>1
<1>3. area' = [area EXCEPT !.teams[s] = [inuse |-> TRUE, id |-> area.nextid,
                   barr |-> [procs |-> n, asleep |-> {}, woken |-> area.teams[s].barr.woken,
                             torn |-> area.teams[s].barr.woken # {}]],
                          !.nextid = @ + 1]
  BY DEF NewTeam
<1>4. area' = [area EXCEPT !.teams[s] = e, !.nextid = @ + 1]
  BY <1>3
<1>5. area' = [teams |-> [a EXCEPT ![s] = e], locks |-> b, nextid |-> k + 1]
  BY <1>1, <1>4
<1>6. g \in [procs : Int, asleep : SUBSET Units, woken : SUBSET Units, torn : BOOLEAN]
  BY <1>2
<1>7. e \in [inuse : BOOLEAN, id : Int, barr : [procs : Int, asleep : SUBSET Units, woken : SUBSET Units, torn : BOOLEAN]]
  BY <1>1, <1>6
<1>8. area'.teams = [a EXCEPT ![s] = e] /\ area'.locks = b /\ area'.nextid = k + 1
  BY <1>5
<1>9. area'.teams[s] = e /\ \A r \in TeamSlots : r # s => area'.teams[r] = a[r]
  BY <1>1, <1>8
<1>10. area'.teams \in [TeamSlots -> [inuse : BOOLEAN, id : Int,
                             barr : [procs : Int, asleep : SUBSET Units, woken : SUBSET Units, torn : BOOLEAN]]]
  BY <1>1, <1>7, <1>8
<1>11. e.inuse /\ e.id = k /\ e.barr.procs = n /\ e.barr.asleep = {} /\ e.barr.woken = w
  OBVIOUS
<1>. QED  BY <1>5, <1>8, <1>9, <1>10, <1>11 DEF MadeTeam

\* There is an id for every team that is made.
LEMMA IdsLast ==
    ASSUME NEW p, NEW ids, NEW left, NEW over, Coupled(p, ids, left, over), NEW next, NEW u, NEW i \in DOMAIN p, NEW l,
           Stepped(p, left, next, u, i, "newteam", l), p[i].kind = "create", Unmade(p, ids, left, i)
    PROVE  /\ area.nextid \in 1 .. Len(p) /\ Len(p) \in Nat
           /\ area.nextid + 1 <= 1 + Cardinality(Counted(p, next))
<1>1. /\ WellFormed(p) /\ Len(p) \in Nat /\ CountOK(p, ids, left)
  BY ProgIs DEF Coupled
<1>2. Counted(p, next) = Counted(p, left) \union {i} /\ i \notin Counted(p, left) /\ Counted(p, left) \subseteq DOMAIN p
  <2>1. \A c \in DOMAIN p : p[c].kind = "create" =>
            (next[Maker(p, c)][c] < MakeLeft(p, c) <=> (left[Maker(p, c)][c] < MakeLeft(p, c) \/ i = c))
    BY DEF Stepped
  <2>. QED  BY <2>1 DEF Counted, Unmade
<1>3. /\ IsFiniteSet(Counted(p, left)) /\ Cardinality(Counted(p, left)) \in Nat
      /\ Cardinality(Counted(p, next)) \in Nat /\ Cardinality(Counted(p, next)) <= Len(p)
  <2>1. Counted(p, next) \subseteq DOMAIN p
    BY <1>2
  <2>. QED  BY <1>1, <1>2, <2>1, CountedFinite
<1>4. Cardinality(Counted(p, next)) = Cardinality(Counted(p, left)) + 1
  BY <1>2, <1>3, FS_AddElement
<1>5. area.nextid \in 1 .. Len(p) + 1 /\ area.nextid <= 1 + Cardinality(Counted(p, left))
  BY <1>1 DEF CountOK, Counted
<1>. QED  BY <1>1, <1>3, <1>4, <1>5

\* The master finds a slot for the new team.
LEMMA NewTeamSlotStep ==
    ASSUME NEW p, NEW ids, NEW left, NEW over, Coupled(p, ids, left, over), NEW u \in Units, NewTeamSlot(u)
    PROVE  \E ids2, next, over2 : Coupled(p, ids2, next, over2)'
<1>1. /\ WellFormed(p) /\ TypesOK(p) /\ prog = p /\ p \in Programs /\ DOMAIN p = 1 .. Len(p)
  BY ProgIs
<1>. PICK i, c, l : i = pos[u] /\ c = p[pos[u]].on /\ l = Len(todo[u])
  OBVIOUS
<1>. PICK next : next = [left EXCEPT ![u][pos[u]] = @ - 1]
  OBVIOUS
<1>. PICK s : s = Min(FreeTeamSlots(area))
  OBVIOUS
<1>. PICK id : id = area.nextid
  OBVIOUS
<1>. PICK n : n = Cardinality(For(p, i))
  OBVIOUS
<1>. PICK m : m = WithTeam(buf[u], id, n, s)
  OBVIOUS
<1>. PICK ids2, over2 : ids2 = NewIds(ids, i, id) /\ over2 = NewOver(p, over, i)
  OBVIOUS
<1>2. /\ At(u, "newteam") /\ Advance(u) /\ UNCHANGED <<prog, holder, pipes, teams, handle, pos, inside>>
      /\ area' = NewTeam(area, s, Group(u).nmem) /\ FreeTeamSlots(area) # {}
      /\ buf' = [buf EXCEPT ![u] = WithTeam(buf[u], id, Group(u).nmem, s)]
  BY DEF NewTeamSlot, WithTeam
<1>3. Standing(p, ids, left, u, i, c, l) /\ StepAt(p, u, i, l).do = "newteam"
  BY <1>2, AtStands
<1>4. /\ p[i].kind = "create" /\ l = MakeLeft(p, i) /\ i \in DOMAIN p /\ u = Maker(p, i)
      /\ left[u][i] = l /\ l \in Nat /\ Live(p, ids, i)
  BY <1>3, MakingIs, SMTT(30) DEF MakingAt, Standing
<1>5. Unmade(p, ids, left, i)
  BY <1>4 DEF Unmade
<1>6. Group(u).nmem = n /\ n \in Nat /\ Rank(For(p, i), u) = 0 /\ For(p, i) \subseteq Units
  <2>1. p[i].group.nmem = n /\ n \in Nat /\ Rank(For(p, i), u) = 0
    BY <1>1, <1>4, NewGroup
  <2>2. IsTeam(For(p, i))
    BY <1>1, <1>4, ProgramTeams
  <2>3. Group(u) = p[i].group
    BY <1>1 DEF Group
  <2>. QED  BY <2>1, <2>2, <2>3 DEF IsTeam
<1>7. Stepped(p, left, next, u, i, "newteam", l)
  <2>1. left \in [Units -> [DOMAIN p -> Nat]] /\ u \in Mem(p, i) /\ left[u][i] \in 1 .. Size(p, u, i)
    BY <1>3, ProgIs DEF GhostsOK, Standing
  <2>2. next = [left EXCEPT ![u][i] = @ - 1]
    OBVIOUS
  <2>3. Stepped(p, left, next, u, i, StepAt(p, u, i, left[u][i]).do, left[u][i])
    BY <1>1, <1>4, <2>1, <2>2, StepChanges, Zenon
  <2>. QED  BY <1>3, <1>4, <2>3, Zenon
<1>8. id \in 1 .. Len(p) /\ Len(p) \in Nat /\ id + 1 <= 1 + Cardinality(Counted(p, next)) /\ id \in Int
  BY <1>4, <1>5, <1>7, IdsLast, SMTT(30)
<1>9. s \in TeamSlots /\ s # 0 /\ ~ area.teams[s].inuse
  <2>. PICK S : S = FreeTeamSlots(area)
    OBVIOUS
  <2>1. S \subseteq TeamSlots \ {0} /\ S # {} /\ \A r \in S : ~ area.teams[r].inuse
    BY <1>2 DEF FreeTeamSlots
  <2>2. TeamSlots \subseteq Int /\ IsFiniteSet(TeamSlots)
    <3>1. MaxTeams - 1 \in Int /\ TeamSlots = 0 .. MaxTeams - 1
      BY SizesAssumption DEF TeamSlots
    <3>2. TeamSlots \subseteq Int
      BY <3>1
    <3>3. IsFiniteSet(0 .. MaxTeams - 1)
      BY ONLY <3>1, FS_Interval
    <3>. QED  BY ONLY <3>1, <3>2, <3>3
  <2>3. S \in SUBSET Int /\ IsFiniteSet(S)
    BY <2>1, <2>2, FS_Subset
  <2>4. s \in S
    BY <2>1, <2>3, RankOfMin
  <2>. QED  BY <2>1, <2>4
<1>10. MadeTeam(s, n)
  BY <1>1, <1>2, <1>6, <1>9, NewTeamIs
<1>11. /\ m \in Message /\ m.op = buf[u].op /\ m.id = id /\ m.size = n /\ m.newid = 0 /\ m.slot = s /\ NewBuf(u, m)
  <2>. PICK b : b = buf[u]
    OBVIOUS
  <2>1. b \in Message /\ n \in Int /\ buf \in [Units -> Message] /\ m = WithTeam(b, id, n, s) /\ id \in Int /\ s \in Int
    BY <1>1, <1>6, <1>8, <1>9 DEF TypesOK, TeamSlots
  <2>2. LET e == WithTeam(b, id, n, s)
        IN  e \in Message /\ e.op = b.op /\ e.id = id /\ e.size = n /\ e.newid = 0 /\ e.slot = s
    BY ONLY <2>1, WithTeamIs
  <2>3. m \in Message /\ m.op = buf[u].op /\ m.id = id /\ m.size = n /\ m.newid = 0 /\ m.slot = s
    BY <2>1, <2>2
  <2>4. buf' = [buf EXCEPT ![u] = m]
    BY <1>2, <1>6
  <2>. QED  BY <2>1, <2>3, <2>4, BufChanged
<1>12. /\ ids2[i] = id /\ \A d \in DOMAIN p : d # i => ids2[d] = ids[d]
       /\ \A w \in Units : TableOK(p, ids2, left, w)
  <2>1. p[i].kind = "create" => ~ (id < area.nextid)
    BY <1>8
  <2>. QED  BY <1>5, <1>8, <2>1, NewIdTold
<1>13. MessageOK(p, ids2, i, u, m)
  <2>1. s # NoSlot
    BY <1>9, SizesAssumption DEF TeamSlots, NoSlot
  <2>2. Told(p, i, m) = ids2[i] /\ m.id \in Ids(p, i)
    BY <1>4, <1>8, <1>11, <1>12, <2>1, Zenon DEF Told, Ids
  <2>. QED  BY <1>4, <1>6, <1>11, <2>2, Zenon DEF MessageOK
<1>14. /\ Stepped(p, left, next, u, i, "newteam", Len(todo[u])) /\ GhostsOK(p, ids2, next, over2)
       /\ \A w \in Units : PlaceOK(p, ids2, next, w)' /\ OverOK(p, ids2, next, over2, w)' /\ InsideOK(w)'
       /\ \A w \in Units : HandlesOK(p, ids2, next, w)' /\ BufOK(p, ids2, next, w)'
       /\ PipesOK(p, ids2, next)' /\ QueuesOK(p, ids2, next)' /\ ReceivedOK(p, next)
       /\ \A w \in Units : ~ Lost(w)' => ~ Lost(w)
       /\ todo' \in [Units -> Seq(StepRec)]
  <2>1. /\ \A r \in TeamSlots : /\ area'.teams[r].barr.asleep = area.teams[r].barr.asleep
                                /\ area'.teams[r].barr.woken = area.teams[r].barr.woken
                                /\ area.teams[r].inuse =>
                                       area'.teams[r].inuse /\ area'.teams[r].id = area.teams[r].id
    <3>1. area.teams[s].barr.asleep = {}
      BY <1>9 DEF Coupled, AreaOK
    <3>. QED  BY <1>9, <1>10, <3>1 DEF MadeTeam
  <2>2. /\ (0 .. area.nextid - 1) \subseteq (0 .. area'.nextid - 1)
        /\ "newteam" \in {"newteam", "takelock"}
    BY <1>8, <1>10 DEF MadeTeam
  <2>3. UNCHANGED <<prog, pos, inside, handle, pipes, teams>>
    BY <1>2
  <2>4. p[i].kind = "create" => ~ (id < area.nextid)
    BY <1>8
  <2>5. /\ At(u, "newteam") /\ Advance(u) /\ i = pos[u] /\ next = [left EXCEPT ![u][pos[u]] = @ - 1]
        /\ ids2 = NewIds(ids, i, id) /\ over2 = NewOver(p, over, i) /\ Unmade(p, ids, left, i) /\ id \in Int
        /\ NewBuf(u, m) /\ MessageOK(p, ids2, i, u, m) /\ u \in Units
    BY <1>2, <1>5, <1>8, <1>11, <1>13
  <2>. QED  BY ONLY Coupled(p, ids, left, over), <2>1, <2>2, <2>3, <2>4, <2>5, MadeParts, ZenonT(30)
<1>15. CountOK(p, ids, left) /\ AreaOK(p, ids, left) /\ IdsOK(p, ids, left) /\ LocksOK(p, ids, left) /\ CountOK(p, ids, left)
  BY DEF Coupled
<1>16. \A d \in DOMAIN p : p[d].kind = "create" /\ ids[d] # NoTeam => ids[d] < id /\ ids[d] \in 1 .. Len(p)
  BY <1>15 DEF CountOK, IdsOK, Ids
<1>17. IdsOK(p, ids2, next)
  <2>1. /\ \A d \in DOMAIN p : ids[d] # NoTeam =>
              ids[d] \in Ids(p, d) /\ Live(p, ids, d) /\ next[Maker(p, d)][d] < MakeLeft(p, d)
        /\ \A d, e \in DOMAIN p :
              (p[d].kind = "create" /\ p[e].kind = "create" /\ ids[d] # NoTeam /\ ids[d] = ids[e]) => d = e
    <3>1. IdsOK(p, ids, next)
      BY ONLY <1>7, <1>15, IdsStep
    <3>. QED  BY <3>1 DEF IdsOK
  <2>2. \A d \in DOMAIN p : Live(p, ids, d) => Live(p, ids2, d)
    <3>1. \A d \in DOMAIN p : p[d].on # 0 => p[d].on \in DOMAIN p
      BY <1>1, ProgramOn
    <3>2. id # NoTeam
      BY <1>8 DEF NoTeam
    <3>. QED  BY <1>12, <3>1, <3>2 DEF Live
  <2>3. id \in Ids(p, i) /\ next[Maker(p, i)][i] < MakeLeft(p, i)
    BY <1>4, <1>7, <1>8, Zenon DEF Ids, Stepped
  <2>4. ASSUME NEW d \in DOMAIN p, NEW e \in DOMAIN p,
               p[d].kind = "create", p[e].kind = "create", ids2[d] # NoTeam, ids2[d] = ids2[e]
        PROVE  d = e
    <3>1. CASE d # i /\ e # i
      BY <1>12, <2>1, <2>4, <3>1
    <3>2. CASE d = i /\ e # i
      <4>1. ids[e] = id /\ ids[e] # NoTeam
        BY <1>12, <2>4, <3>2
      <4>. QED  BY <1>8, <1>16, <2>4, <4>1
    <3>3. CASE d # i /\ e = i
      <4>1. ids[d] = id /\ ids[d] # NoTeam
        BY <1>12, <2>4, <3>3
      <4>. QED  BY <1>8, <1>16, <2>4, <4>1
    <3>. QED  BY <3>1, <3>2, <3>3
  <2>5. ASSUME NEW d \in DOMAIN p, ids2[d] # NoTeam
        PROVE  ids2[d] \in Ids(p, d) /\ Live(p, ids2, d) /\ next[Maker(p, d)][d] < MakeLeft(p, d)
    <3>1. CASE d = i
      BY <1>4, <1>12, <2>2, <2>3, <3>1, Zenon
    <3>2. CASE d # i
      BY <1>12, <2>1, <2>2, <2>5, <3>2
    <3>. QED  BY <3>1, <3>2
  <2>. QED  BY <2>4, <2>5 DEF IdsOK
<1>18. CountOK(p, ids2, next)'
  <2>1. area'.nextid = id + 1
    BY <1>10 DEF MadeTeam
  <2>2. \A d \in DOMAIN p : p[d].kind = "create" /\ ids2[d] # NoTeam => ids2[d] < id + 1
    <3>1. \A d \in DOMAIN p : p[d].kind = "create" /\ ids2[d] # NoTeam => ids2[d] \in Int /\ (d # i => ids2[d] < id)
      BY <1>8, <1>12, <1>16
    <3>. QED  BY <1>8, <1>12, <3>1
  <2>3. ASSUME NEW d \in DOMAIN p, p[d].kind = "create", next[Maker(p, d)][d] < MakeLeft(p, d), ids2[d] = NoTeam
        PROVE  ~ Few(p)
    <3>1. d # i
      BY <1>8, <1>12, <2>3 DEF NoTeam
    <3>2. left[Maker(p, d)][d] < MakeLeft(p, d)
      BY <1>7, <2>3, <3>1 DEF Stepped
    <3>. QED  BY <1>12, <1>15, <2>3, <3>1, <3>2 DEF CountOK
  <2>. QED  BY <1>8, <2>1, <2>2, <2>3 DEF CountOK, Counted
<1>. PICK a, b : a = area.teams /\ b = area'.teams
  OBVIOUS
<1>19. /\ b[s].inuse /\ b[s].id = id /\ b[s].barr.procs = n /\ b[s].barr.asleep = {} /\ ~ a[s].inuse
       /\ \A r \in TeamSlots : r # s => b[r] = a[r]
  BY <1>9, <1>10 DEF MadeTeam
<1>20. /\ a[0].inuse /\ a[0].id = TeamAll /\ a[0].barr.procs = Cardinality(Units)
       /\ \A r \in TeamSlots \ {0} : a[r].inuse => a[r].id \in 1 .. id - 1
       /\ \A r, t \in TeamSlots : (a[r].inuse /\ a[t].inuse /\ a[r].id = a[t].id) => r = t
       /\ \A r \in TeamSlots : ~ a[r].inuse => a[r].barr.asleep = {}
       /\ \A d \in DOMAIN p : p[d].kind = "create" /\ ids[d] # NoTeam /\ ~ Deleted(p, left, d) =>
              \E r \in TeamSlots : a[r].inuse /\ a[r].id = ids[d] /\ a[r].barr.procs = Cardinality(For(p, d))
  BY <1>15 DEF AreaOK
<1>21. \A r \in TeamSlots : a[r].inuse => a[r].id \in Int /\ a[r].id < id
  BY <1>8, <1>20 DEF TeamAll
<1>22. 0 \in TeamSlots
  BY SizesAssumption DEF TeamSlots
<1>23. AreaOK(p, ids2, next)'
  <2>1. b[0].inuse /\ b[0].id = TeamAll /\ b[0].barr.procs = Cardinality(Units)
    BY <1>9, <1>19, <1>20, <1>22
  <2>2. \A r \in TeamSlots \ {0} : b[r].inuse => b[r].id \in 1 .. (id + 1) - 1
    <3>. SUFFICES ASSUME NEW r \in TeamSlots \ {0}, b[r].inuse PROVE b[r].id \in 1 .. (id + 1) - 1
      OBVIOUS
    <3>1. CASE r = s
      BY <1>8, <1>19, <3>1
    <3>2. CASE r # s
      <4>1. b[r].id \in 1 .. id - 1
        BY <1>19, <1>20, <3>2
      <4>. QED  BY <1>8, <4>1
    <3>. QED  BY <3>1, <3>2
  <2>3. \A r, t \in TeamSlots : (b[r].inuse /\ b[t].inuse /\ b[r].id = b[t].id) => r = t
    <3>1. \A r \in TeamSlots : r # s /\ b[r].inuse => a[r].inuse /\ b[r].id = a[r].id /\ b[r].id < id
      BY <1>19, <1>21
    <3>2. ~ (id < id)
      BY <1>8
    <3>. QED  BY <1>19, <1>20, <3>1, <3>2
  <2>4. \A r \in TeamSlots : ~ b[r].inuse => b[r].barr.asleep = {}
    BY <1>19, <1>20, Zenon
  <2>5. ASSUME NEW d \in DOMAIN p, p[d].kind = "create", ids2[d] # NoTeam, ~ Deleted(p, next, d)
        PROVE  \E r \in TeamSlots : b[r].inuse /\ b[r].id = ids2[d] /\ b[r].barr.procs = Cardinality(For(p, d))
    <3>1. CASE d = i
      BY <1>9, <1>12, <1>19, <3>1
    <3>2. CASE d # i
      <4>1. ~ Deleted(p, left, d) /\ ids[d] # NoTeam /\ ids2[d] = ids[d]
        BY <1>7, <1>12, <2>5, <3>2 DEF Stepped
      <4>2. PICK r \in TeamSlots : a[r].inuse /\ a[r].id = ids[d] /\ a[r].barr.procs = Cardinality(For(p, d))
        BY <1>20, <2>5, <4>1
      <4>3. b[r] = a[r]
        BY <1>19, <4>2
      <4>. QED  BY <4>1, <4>2, <4>3
    <3>. QED  BY <3>1, <3>2
  <2>6. area'.nextid = id + 1
    BY <1>10 DEF MadeTeam
  <2>. QED  BY <2>1, <2>2, <2>3, <2>4, <2>5, <2>6, ZenonT(30) DEF AreaOK
<1>24. ASSUME NEW w \in Units PROVE TableOK(p, ids2, next, w)'
  <2>. SUFFICES ASSUME ~ Lost(w)' PROVE
        /\ teams[w][0] = [id |-> TeamAll, valid |-> TRUE, myid |-> w, group |-> WorldGroup]
        /\ \A r \in TeamSlots : teams[w][r].valid => teams[w][r].id # NoTeam
        /\ \A d \in DOMAIN p, r \in TeamSlots :
               (/\ p[d].kind = "create" /\ ids2[d] # NoTeam /\ ~ Deleted(p, next, d)
                /\ w \in For(p, d) /\ next[w][d] < 2 /\ b[r].inuse /\ b[r].id = ids2[d])
               => teams[w][r] = [id |-> ids2[d], valid |-> TRUE, myid |-> Rank(For(p, d), w), group |-> p[d].group]
    BY <1>2, Zenon DEF TableOK
  <2>1. ~ Lost(w)
    BY <1>14
  <2>2. TableOK(p, ids, left, w)
    BY DEF Coupled
  <2>3. ASSUME NEW d \in DOMAIN p, NEW r \in TeamSlots, p[d].kind = "create", ids2[d] # NoTeam, ~ Deleted(p, next, d),
               w \in For(p, d), next[w][d] < 2, b[r].inuse, b[r].id = ids2[d]
        PROVE  teams[w][r] = [id |-> ids2[d], valid |-> TRUE, myid |-> Rank(For(p, d), w), group |-> p[d].group]
    <3>1. left[w][d] < 2 /\ ~ Deleted(p, left, d)
      BY <1>7, <2>3, Zenon DEF Stepped
    <3>2. d # i
      <4>1. \A x \in For(p, i) : left[x][i] \in Nat /\ left[x][i] >= 3
        BY <1>5, NotTold
      <4>2. d = i => left[w][i] \in Nat /\ left[w][i] >= 3
        BY <2>3, <4>1
      <4>. QED  BY <3>1, <4>2
    <3>3. ids2[d] = ids[d] /\ ids[d] # NoTeam /\ ids[d] < id
      BY <1>12, <1>16, <2>3, <3>2
    <3>4. r # s
      <4>1. ids[d] \in Int
        BY <1>16, <2>3, <3>3
      <4>. QED  BY <1>8, <1>19, <2>3, <3>3, <4>1
    <3>5. area.teams[r].inuse /\ area.teams[r].id = ids[d]
      BY <1>19, <2>3, <3>3, <3>4
    <3>. QED  BY ONLY <2>1, <2>2, <2>3, <3>1, <3>3, <3>5, Zenon DEF TableOK
  <2>. QED  BY <2>1, <2>2, <2>3, Zenon DEF TableOK
<1>25. LocksOK(p, ids2, next)'
  <2>1. LocksOK(p, ids2, left)
    BY <1>4, <1>12, <1>15, SMTT(30) DEF LocksOK
  <2>2. area'.locks = area.locks
    BY <1>10 DEF MadeTeam
  <2>. QED  BY <1>7, <2>1, <2>2, LocksStep
<1>26. TypesOK(p)'
  <2>1. area' \in [teams : [TeamSlots -> [inuse : BOOLEAN, id : Int,
                             barr : [procs : Int, asleep : SUBSET Units, woken : SUBSET Units, torn : BOOLEAN]]],
                   locks : [LockSlots -> [inuse : BOOLEAN, team : Int]],
                   nextid : Int]
    <3>1. area.locks \in [LockSlots -> [inuse : BOOLEAN, team : Int]] /\ area.nextid + 1 \in Int
      BY <1>1, <1>8 DEF TypesOK
    <3>. QED  BY <1>10, <3>1 DEF MadeTeam
  <2>. QED  BY <1>1, <1>2, <1>11, <1>14, <2>1, Zenon DEF TypesOK, NewBuf
<1>27. Coupled(p, ids2, next, over2)'
  BY <1>1, <1>14, <1>17, <1>18, <1>23, <1>24, <1>25, <1>26, Zenon DEF Coupled
<1>. QED  BY <1>27

\* The area after slot s has been given up.
GaveUp(s) ==
    /\ area' = [teams |-> area'.teams, locks |-> area.locks, nextid |-> area.nextid]
    /\ area'.locks = area.locks /\ area'.nextid = area.nextid
    /\ area'.teams \in [TeamSlots -> [inuse : BOOLEAN, id : Int,
                             barr : [procs : Int, asleep : SUBSET Units, woken : SUBSET Units, torn : BOOLEAN]]]
    /\ ~ area'.teams[s].inuse
    /\ \A r \in TeamSlots : area'.teams[r].id = area.teams[r].id /\ area'.teams[r].barr = area.teams[r].barr
    /\ \A r \in TeamSlots : r # s => area'.teams[r] = area.teams[r]

\* dart_shmem_team_delete leaves the area as GaveUp says.
LEMMA DelTeamIs ==
    ASSUME NEW p, TypesOK(p), NEW s \in TeamSlots, area' = [area EXCEPT !.teams[s].inuse = FALSE]
    PROVE  GaveUp(s)
<1>1. /\ area = [teams |-> area.teams, locks |-> area.locks, nextid |-> area.nextid]
      /\ area.teams \in [TeamSlots -> [inuse : BOOLEAN, id : Int,
                             barr : [procs : Int, asleep : SUBSET Units, woken : SUBSET Units, torn : BOOLEAN]]]
  BY DEF TypesOK
<1>. PICK a, b, k : a = area.teams /\ b = area.locks /\ k = area.nextid
  OBVIOUS
<1>. PICK e : e = [a[s] EXCEPT !.inuse = FALSE]
  OBVIOUS
<1>2. /\ e \in [inuse : BOOLEAN, id : Int, barr : [procs : Int, asleep : SUBSET Units, woken : SUBSET Units, torn : BOOLEAN]]
      /\ ~ e.inuse /\ e.id = a[s].id /\ e.barr = a[s].barr
  BY <1>1
<1>3. area' = [teams |-> [a EXCEPT ![s] = e], locks |-> b, nextid |-> k]
  BY <1>1
<1>4. area'.teams = [a EXCEPT ![s] = e] /\ area'.locks = b /\ area'.nextid = k
  BY <1>3
<1>5. area'.teams[s] = e /\ \A r \in TeamSlots : r # s => area'.teams[r] = a[r]
  BY <1>1, <1>4
<1>6. area'.teams \in [TeamSlots -> [inuse : BOOLEAN, id : Int,
                             barr : [procs : Int, asleep : SUBSET Units, woken : SUBSET Units, torn : BOOLEAN]]]
  BY <1>1, <1>2, <1>4
<1>. QED  BY <1>2, <1>3, <1>4, <1>5, <1>6 DEF GaveUp

\* When unit 0 of a team deletes it everybody has gone past the second barrier:
\* nobody is in the barrier of its slot who has not been woken.
LEMMA NobodyInside ==
    ASSUME NEW p, NEW ids, NEW left, NEW over, Coupled(p, ids, left, over),
           NEW u \in Units, NEW i, NEW c, NEW l, Standing(p, ids, left, u, i, c, l),
           p[i].kind = "destroy", u = Maker(p, c), l = 1, NEW s \in TeamSlots, area.teams[s].id = ids[c],
           NEW w \in Units, inside[w] = s
    PROVE  w \in area.teams[s].barr.woken
<1>. SUFFICES ASSUME w \notin area.teams[s].barr.woken PROVE FALSE
  OBVIOUS
<1>1. /\ WellFormed(p) /\ i \in DOMAIN p /\ u \in Mem(p, i) /\ Live(p, ids, i) /\ left[u][i] = 1
      /\ c = p[i].on /\ inside[u] = NoSlot
  BY ProgIs, Zenon DEF Standing
<1>2. /\ c # 0 /\ c \in DOMAIN p /\ p[c].kind = "create" /\ Barriers(p, i) = 2
      /\ BarLeft(p, u, i, 2) = 2
      /\ \A x \in Mem(p, i) : x # u => BarLeft(p, x, i, 2) = 1
  BY <1>1, DestroyPlaces
<1>3. ids[c] # NoTeam
  BY <1>1, <1>2 DEF Live
<1>4. InsideOK(w) /\ IdsOK(p, ids, left)
  BY DEF Coupled
<1>5. w # u
  BY <1>1, SizesAssumption DEF TeamSlots, NoSlot
<1>6. (Waiting(w) \/ Entering(w)) /\ T(w) = ids[c]
  <2>1. inside[w] # NoSlot
    BY SizesAssumption DEF TeamSlots, NoSlot
  <2>. QED  BY <1>4, <2>1 DEF InsideOK
<1>7. todo[w] # <<>> /\ ~ Woken(w)
  BY <1>6 DEF Waiting, Entering, Woken
<1>8. /\ pos[w] \in DOMAIN p /\ w \in Mem(p, pos[w]) /\ Live(p, ids, pos[w])
      /\ left[w][pos[w]] = Len(todo[w]) /\ Len(todo[w]) \in 1 .. Size(p, w, pos[w])
  BY <1>7, Underway
<1>9. T(w) = TeamId(ids, p[pos[w]].on)
  <2>1. TeamOf(w, pos[w]) = TeamId(ids, p[pos[w]].on)
    <3>1. pos[w] <= pos[w]
      BY <1>1, <1>8, ProgIs
    <3>. QED  BY <1>8, <3>1, TeamOfIs
  <2>. QED  BY <2>1 DEF T
<1>10. p[pos[w]].on = c
  <2>1. p[pos[w]].on # 0
    <3>1. ids[c] # TeamAll
      BY <1>2, <1>3, <1>4 DEF IdsOK, Ids, TeamAll
    <3>. QED  BY <1>6, <1>9, <3>1 DEF TeamId
  <2>2. /\ p[pos[w]].on \in DOMAIN p /\ p[p[pos[w]].on].kind = "create" /\ ids[p[pos[w]].on] = ids[c]
    BY <1>1, <1>6, <1>8, <1>9, <2>1, ProgramOn DEF TeamId
  <2>. QED  BY <1>2, <1>3, <1>4, <2>2 DEF IdsOK
<1>11. pos[w] <= i /\ w \in Mem(p, i)
  BY <1>1, <1>2, <1>8, <1>10, ProgramOn DEF Mem
<1>12. 2 <= over[i]
  <2>1. 2 \in 1 .. Barriers(p, i)
    BY <1>2
  <2>2. (2 <= over[i]) <=> (\/ left[u][i] < BarLeft(p, u, i, 2)
                           \/ (i = pos[u] /\ left[u][i] = BarLeft(p, u, i, 2) /\ Woken(u)))
    BY <1>1, <2>1, OverIs
  <2>. QED  BY <1>1, <1>2, <2>2
<1>13. left[w][i] < 1
  <2>1. 2 \in 1 .. Barriers(p, i)
    BY <1>2
  <2>2. (2 <= over[i]) <=> (\/ left[w][i] < BarLeft(p, w, i, 2)
                           \/ (i = pos[w] /\ left[w][i] = BarLeft(p, w, i, 2) /\ Woken(w)))
    BY <1>1, <1>11, <2>1, OverIs
  <2>. QED  BY <1>2, <1>5, <1>7, <1>11, <1>12, <2>2
<1>14. CASE pos[w] = i
  BY <1>8, <1>13, <1>14
<1>15. CASE pos[w] # i
  <2>1. /\ left[w][i] \in Nat /\ Size(p, w, i) \in Nat /\ pos[w] \in Nat /\ i \in Nat
        /\ (i > pos[w] => left[w][i] = Size(p, w, i))
    BY <1>1, <1>11, LeftIs
  <2>2. BarLeft(p, w, i, 2) \in 1 .. Size(p, w, i)
    <3>1. 2 \in 1 .. Barriers(p, i)
      BY <1>2
    <3>. QED  BY <1>1, <1>11, <3>1, SizeType
  <2>. QED  BY <1>11, <1>13, <1>15, <2>1, <2>2
<1>. QED  BY <1>14, <1>15

\* Unit 0 of a team deletes it.
LEMMA DeleteStep ==
    ASSUME NEW p, NEW ids, NEW left, NEW over, Coupled(p, ids, left, over), NEW u \in Units, DeleteTeam(u)
    PROVE  \E next : Coupled(p, ids, next, over)'
<1>1. /\ WellFormed(p) /\ TypesOK(p) /\ prog = p /\ p \in Programs /\ GhostsOK(p, ids, left, over)
  BY ProgIs
<1>. PICK i, c, l : i = pos[u] /\ c = p[pos[u]].on /\ l = Len(todo[u])
  OBVIOUS
<1>. PICK next : next = [left EXCEPT ![u][pos[u]] = @ - 1]
  OBVIOUS
<1>. PICK s : s = FindTeam(area, T(u))
  OBVIOUS
<1>2. /\ At(u, "delteam") /\ Advance(u) /\ UNCHANGED <<prog, holder, pipes, teams, handle, pos, inside, buf>>
      /\ area' = DelTeam(area, T(u))
  BY DEF DeleteTeam
<1>3. Standing(p, ids, left, u, i, c, l) /\ StepAt(p, u, i, l).do = "delteam"
  BY <1>2, AtStands
<1>4. /\ p[i].kind = "destroy" /\ l = 1 /\ i \in DOMAIN p /\ Rank(Mem(p, i), u) = 0 /\ u \in Mem(p, i)
      /\ T(u) = TeamId(ids, c) /\ c \in Teams(p, ids) /\ (c # 0 => ~ Deleted(p, left, c)) /\ c = p[i].on
      /\ Live(p, ids, i)
  <2>1. MakingAt(p, u, i, l) /\ i \in DOMAIN p /\ u \in Mem(p, i)
    BY <1>3, MakingIs
  <2>2. p[i].kind = "destroy" /\ l = 1 /\ Rank(Mem(p, i), u) = 0
    BY <1>3, <2>1 DEF MakingAt
  <2>. QED  BY <1>3, <2>1, <2>2 DEF Standing
<1>5. u = Maker(p, c) /\ c # 0 /\ c \in DOMAIN p /\ p[c].kind = "create"
  BY <1>1, <1>4, DestroyPlaces
<1>6. T(u) = ids[c] /\ ids[c] # NoTeam /\ ids[c] \in 1 .. Len(p)
  <2>1. IdsOK(p, ids, left) /\ ids[c] # NoTeam
    BY <1>4, <1>5, Zenon DEF Live, Coupled
  <2>. QED  BY <1>4, <1>5, <2>1, Zenon DEF IdsOK, Ids, TeamId
<1>7. SlotIs(p, ids, c, s)
  <2>1. SlotIs(p, ids, c, SlotFor(area, TeamId(ids, c)))
    BY <1>4, TeamHasSlot
  <2>. QED  BY <1>4, <2>1 DEF SlotIs
<1>8. s \in TeamSlots /\ area.teams[s].inuse /\ area.teams[s].id = ids[c]
  BY <1>4, <1>6, <1>7, Zenon DEF SlotIs
<1>9. AreaOK(p, ids, left) /\ IdsOK(p, ids, left) /\ CountOK(p, ids, left) /\ LocksOK(p, ids, left) /\ PipesOK(p, ids, left)
      /\ (\A w \in Units : HandlesOK(p, ids, left, w)) /\ (\A w \in Units : BufOK(p, ids, left, w))
      /\ (\A w \in Units : TableOK(p, ids, left, w)) /\ (\A w \in Units : InsideOK(w))
      /\ (\A w \in Units : PlaceOK(p, ids, left, w) /\ OverOK(p, ids, left, over, w))
  BY DEF Coupled
<1>10. s # 0 /\ s >= 1
  <2>1. area.teams[0].id = TeamAll
    BY <1>9 DEF AreaOK
  <2>2. s # 0
    BY <1>6, <1>8, <2>1, SMTT(30) DEF TeamAll
  <2>. QED  BY <1>8, <2>2, SizesAssumption DEF TeamSlots
<1>11. GaveUp(s)
  <2>1. area' = [area EXCEPT !.teams[s].inuse = FALSE]
    BY <1>2, <1>10 DEF DelTeam
  <2>. QED  BY <1>1, <1>8, <2>1, DelTeamIs
<1>12. \A w \in Units : inside[w] = s => w \in area.teams[s].barr.woken
  <2>1. /\ Standing(p, ids, left, u, i, c, l) /\ p[i].kind = "destroy" /\ u = Maker(p, c) /\ l = 1
        /\ s \in TeamSlots /\ area.teams[s].id = ids[c] /\ u \in Units
    BY <1>3, <1>4, <1>5, <1>8, Zenon
  <2>. QED  BY ONLY Coupled(p, ids, left, over), <2>1, NobodyInside
<1>13. area.teams[s].barr.asleep = {}
  <2>1. area.teams[s].barr.asleep \subseteq Units
    BY <1>1, <1>8 DEF TypesOK
  <2>2. ASSUME NEW w \in Units, w \in area.teams[s].barr.asleep PROVE FALSE
    BY <1>8, <1>9, <1>12, <2>2 DEF InsideOK
  <2>. QED  BY <2>1, <2>2
<1>14. /\ Stepped(p, left, next, u, pos[u], "delteam", Len(todo[u])) /\ GhostsOK(p, ids, next, over)
       /\ \A w \in Units : PlaceOK(p, ids, next, w)' /\ OverOK(p, ids, next, over, w)'
       /\ \A w \in Units : (Waiting(w)' <=> Waiting(w)) /\ (Entering(w)' <=> Entering(w))
       /\ \A w \in Units : ~ Lost(w)' => ~ Lost(w)
       /\ \A w \in Units : (todo'[w] # <<>> => todo[w] # <<>>) /\ (w # u => todo'[w] = todo[w])
       /\ todo' \in [Units -> Seq(StepRec)]
  <2>1. "delteam" \notin {"find", "await", "wait", "lost"}
    OBVIOUS
  <2>2. /\ \A w \in Units : buf'[w].op = buf[w].op
        /\ \A r \in TeamSlots : area'.teams[r].barr.woken = area.teams[r].barr.woken
        /\ pos' = pos /\ prog' = prog /\ inside' = inside
    BY <1>2, <1>11 DEF GaveUp
  <2>3. GhostsOK(p, ids, left, over) /\ (\A w \in Units : PlaceOK(p, ids, left, w) /\ OverOK(p, ids, left, over, w))
    BY <1>1, <1>9
  <2>. QED  BY ONLY Coupled(p, ids, left, over), u \in Units, <1>2, <2>1, <2>2, <2>3,
                    next = [left EXCEPT ![u][pos[u]] = @ - 1], PlainStep
<1>15. Stepped(p, left, next, u, i, "delteam", l)
  BY <1>14
<1>16. \A w \in Units : InsideOK(w)'
  <2>1. /\ inside' = inside /\ pos' = pos /\ prog' = prog /\ (\A w \in Units : w # u => handle'[w] = handle[w])
        /\ inside[u] = NoSlot
        /\ \A r \in TeamSlots : /\ area'.teams[r].barr.asleep = area.teams[r].barr.asleep
                                /\ area'.teams[r].barr.woken = area.teams[r].barr.woken
    BY <1>2, <1>11 DEF At, GaveUp
  <2>2. ASSUME NEW w \in Units, NEW r \in TeamSlots, inside[w] = r, w \notin area.teams[r].barr.woken
        PROVE  area'.teams[r].inuse = area.teams[r].inuse /\ area'.teams[r].id = area.teams[r].id
    BY <1>11, <1>12, <2>2 DEF GaveUp
  <2>. QED  BY ONLY Coupled(p, ids, left, over), u \in Units, <1>14, <2>1, <2>2, PlainInside
<1>17. \A w \in Units : HandlesOK(p, ids, next, w)'
  <2>1. handle' = handle /\ "delteam" \notin {"init", "setlock"}
    BY <1>2
  <2>. QED  BY ONLY <1>9, <1>15, <2>1, HandlesStep
<1>18. \A w \in Units : BufOK(p, ids, next, w)'
  <2>1. /\ \A w \in Units : todo'[w] # <<>> => todo[w] # <<>>
        /\ buf' = buf /\ pos' = pos /\ "delteam" \notin {"newteam", "takelock", "recv"}
    BY <1>2, <1>14
  <2>. QED  BY ONLY <1>9, <1>15, <2>1, BufStep
<1>19. IdsOK(p, ids, next) /\ CountOK(p, ids, next)' /\ LocksOK(p, ids, next)'
  <2>1. area'.nextid = area.nextid /\ area'.locks = area.locks
    BY <1>11 DEF GaveUp
  <2>2. IdsOK(p, ids, next)
    BY ONLY <1>9, <1>15, IdsStep
  <2>3. CountOK(p, ids, next)'
    BY ONLY <1>1, <1>9, <1>15, <2>1, CountStep
  <2>4. LocksOK(p, ids, next)'
    BY ONLY <1>9, <1>15, <2>1, LocksStep
  <2>. QED  BY <2>2, <2>3, <2>4
<1>20. \A w \in Units : TableOK(p, ids, next, w)'
  <2>1. /\ \A r \in TeamSlots : (area'.teams[r].inuse => area.teams[r].inuse) /\ area'.teams[r].id = area.teams[r].id
        /\ \A w \in Units : ~ Lost(w)' => ~ Lost(w) /\ teams'[w] = teams[w]
        /\ "delteam" = "init" => ids[i] = NoTeam
    BY <1>2, <1>8, <1>11, <1>14 DEF GaveUp
  <2>. QED  BY ONLY <1>9, <1>15, <2>1, TableStep
<1>21. PipesOK(p, ids, next)'
  <2>1. /\ DOMAIN pipes' = DOMAIN pipes /\ (0 .. area.nextid - 1) \subseteq (0 .. area'.nextid - 1)
        /\ "delteam" # "unlink" /\ ("delteam" = "init" => ids[i] = NoTeam)
    BY <1>2, <1>11 DEF GaveUp
  <2>. QED  BY ONLY <1>1, <1>9, <1>15, <2>1, PipesStep
<1>22. QueuesOK(p, ids, next)' /\ ReceivedOK(p, next)
  <2>1. QueuesKept /\ "delteam" \notin {"send", "recv"}
    BY <1>2 DEF QueuesKept
  <2>. QED  BY ONLY Coupled(p, ids, left, over), <1>3, <1>15, <2>1, SilentParts
<1>. PICK a, b, n : a = area.teams /\ b = area'.teams /\ n = area.nextid
  OBVIOUS
<1>23. /\ ~ b[s].inuse /\ b[s].barr.asleep = {} /\ \A r \in TeamSlots : r # s => b[r] = a[r]
  BY <1>8, <1>11, <1>13 DEF GaveUp
<1>24. AreaOK(p, ids, next)'
  <2>1. /\ a[0].inuse /\ a[0].id = TeamAll /\ a[0].barr.procs = Cardinality(Units)
        /\ \A r \in TeamSlots \ {0} : a[r].inuse => a[r].id \in 1 .. n - 1
        /\ \A r, t \in TeamSlots : (a[r].inuse /\ a[t].inuse /\ a[r].id = a[t].id) => r = t
        /\ \A r \in TeamSlots : ~ a[r].inuse => a[r].barr.asleep = {}
        /\ \A d \in DOMAIN p : p[d].kind = "create" /\ ids[d] # NoTeam /\ ~ Deleted(p, left, d) =>
              \E r \in TeamSlots : a[r].inuse /\ a[r].id = ids[d] /\ a[r].barr.procs = Cardinality(For(p, d))
    BY <1>9 DEF AreaOK
  <2>2. 0 \in TeamSlots
    BY SizesAssumption DEF TeamSlots
  <2>3. /\ b[0].inuse /\ b[0].id = TeamAll /\ b[0].barr.procs = Cardinality(Units)
        /\ \A r \in TeamSlots \ {0} : b[r].inuse => b[r].id \in 1 .. n - 1
        /\ \A r, t \in TeamSlots : (b[r].inuse /\ b[t].inuse /\ b[r].id = b[t].id) => r = t
        /\ \A r \in TeamSlots : ~ b[r].inuse => b[r].barr.asleep = {}
    BY <1>10, <1>23, <2>1, <2>2
  <2>4. ASSUME NEW d \in DOMAIN p, p[d].kind = "create", ids[d] # NoTeam, ~ Deleted(p, next, d)
        PROVE  \E r \in TeamSlots : b[r].inuse /\ b[r].id = ids[d] /\ b[r].barr.procs = Cardinality(For(p, d))
    <3>1. d # c /\ ~ Deleted(p, left, d)
      BY <1>4, <1>15, <2>4, Zenon DEF Stepped
    <3>2. ids[d] # ids[c]
      BY <1>5, <1>6, <1>9, <2>4, <3>1, Zenon DEF IdsOK
    <3>3. PICK r \in TeamSlots : a[r].inuse /\ a[r].id = ids[d] /\ a[r].barr.procs = Cardinality(For(p, d))
      BY <2>1, <2>4, <3>1
    <3>4. r # s
      BY <1>8, <3>2, <3>3
    <3>5. b[r] = a[r]
      BY <1>23, <3>4
    <3>. QED  BY <3>3, <3>5
  <2>5. area'.nextid = n
    BY <1>11 DEF GaveUp
  <2>. QED  BY <2>3, <2>4, <2>5, ZenonT(30) DEF AreaOK
<1>25. TypesOK(p)'
  <2>1. area' \in [teams : [TeamSlots -> [inuse : BOOLEAN, id : Int,
                             barr : [procs : Int, asleep : SUBSET Units, woken : SUBSET Units, torn : BOOLEAN]]],
                   locks : [LockSlots -> [inuse : BOOLEAN, team : Int]],
                   nextid : Int]
    <3>1. area.locks \in [LockSlots -> [inuse : BOOLEAN, team : Int]] /\ area.nextid \in Int
      BY <1>1 DEF TypesOK
    <3>. QED  BY <1>11, <3>1 DEF GaveUp
  <2>. QED  BY <1>1, <1>2, <1>14, <2>1 DEF TypesOK
<1>26. Coupled(p, ids, next, over)'
  BY <1>1, <1>14, <1>16, <1>17, <1>18, <1>19, <1>20, <1>21, <1>22, <1>24, <1>25, Zenon DEF Coupled
<1>. QED  BY <1>26

\* The area after lock slot f has been given up, if f is a slot.
DroppedLock(f) ==
    /\ area'.teams = area.teams /\ area'.nextid = area.nextid
    /\ area'.locks \in [LockSlots -> [inuse : BOOLEAN, team : Int]]
    /\ \A k \in LockSlots : k # f => area'.locks[k] = area.locks[k]
    /\ area' = [teams |-> area'.teams, locks |-> area'.locks, nextid |-> area'.nextid]

\* dart_team_lock_free leaves the area as DroppedLock says.
LEMMA DropLockIs ==
    ASSUME NEW p, TypesOK(p), NEW f, area' = DropLock(area, f)
    PROVE  DroppedLock(f)
<1>1. /\ area = [teams |-> area.teams, locks |-> area.locks, nextid |-> area.nextid]
      /\ area.locks \in [LockSlots -> [inuse : BOOLEAN, team : Int]]
  BY DEF TypesOK
<1>. PICK a, b, n : a = area.teams /\ b = area.locks /\ n = area.nextid
  OBVIOUS
<1>2. CASE f \in LockSlots
  <2>. PICK e : e = [b[f] EXCEPT !.inuse = FALSE]
    OBVIOUS
  <2>1. e \in [inuse : BOOLEAN, team : Int]
    BY <1>1, <1>2
  <2>2. area' = [area EXCEPT !.locks[f].inuse = FALSE]
    BY <1>2 DEF DropLock
  <2>3. area' = [teams |-> a, locks |-> [b EXCEPT ![f] = e], nextid |-> n]
    BY <1>1, <2>2
  <2>. QED  BY <1>1, <1>2, <2>1, <2>3 DEF DroppedLock
<1>3. CASE f \notin LockSlots
  BY <1>1, <1>3 DEF DropLock, DroppedLock
<1>. QED  BY <1>2, <1>3

\* The first unit of a team gives up the slot of a lock.
LEMMA DropLockStep ==
    ASSUME NEW p, NEW ids, NEW left, NEW over, Coupled(p, ids, left, over), NEW u \in Units, DropLockSlot(u)
    PROVE  \E next : Coupled(p, ids, next, over)'
<1>1. /\ WellFormed(p) /\ TypesOK(p) /\ prog = p /\ p \in Programs /\ GhostsOK(p, ids, left, over)
  BY ProgIs
<1>. PICK i, c, l : i = pos[u] /\ c = p[pos[u]].on /\ l = Len(todo[u])
  OBVIOUS
<1>. PICK next : next = [left EXCEPT ![u][pos[u]] = @ - 1]
  OBVIOUS
<1>. PICK g : g = p[i].arg
  OBVIOUS
<1>2. /\ At(u, "droplock") /\ Advance(u) /\ UNCHANGED <<prog, holder, pipes, teams, handle, pos, inside, buf>>
      /\ area' = DropLock(area, handle[u][g])
  BY <1>1 DEF DropLockSlot
<1>3. Standing(p, ids, left, u, i, c, l) /\ StepAt(p, u, i, l).do = "droplock"
  BY <1>2, AtStands
<1>4. /\ p[i].kind = "lockfree" /\ l = 2 /\ i \in DOMAIN p /\ Rank(Mem(p, i), u) = 0 /\ u \in Mem(p, i)
      /\ Live(p, ids, i) /\ i = pos[u] /\ left[u][i] = 2
  <2>1. MakingAt(p, u, i, l) /\ i \in DOMAIN p /\ u \in Mem(p, i)
    BY <1>3, MakingIs
  <2>2. p[i].kind = "lockfree" /\ l = 2 /\ Rank(Mem(p, i), u) = 0
    BY <1>3, <2>1 DEF MakingAt
  <2>. QED  BY <1>3, <2>1, <2>2 DEF Standing
<1>5. /\ g \in DOMAIN p /\ g < i /\ p[g].kind = "lockinit" /\ p[g].on = p[i].on
      /\ \A d \in DOMAIN p : p[d].kind = "lockfree" /\ p[d].arg = g => d = i
      /\ Mem(p, i) = Mem(p, g) /\ For(p, g) = Mem(p, i)
  BY <1>1, <1>4, ProgramFree
<1>6. u = Maker(p, g) /\ ~ Dropped(p, left, g)
  <2>1. u = Maker(p, g)
    BY <1>1, <1>4, <1>5, ProgramTeams
  <2>2. ASSUME NEW d \in DOMAIN p, p[d].kind = "lockfree", p[d].arg = g, left[Maker(p, g)][d] < 2 PROVE FALSE
    <3>1. d = i
      BY <1>5, <2>2
    <3>2. left[u][i] = 2 /\ left[u][i] < 2
      BY <1>4, <2>1, <2>2, <3>1, Zenon
    <3>. QED  BY ONLY <3>2
  <2>. QED  BY <2>1, <2>2, Zenon DEF Dropped
<1>7. handle[u][g] = ids[g]
  <2>1. Live(p, ids, g)
    BY <1>4, <1>5 DEF Live
  <2>2. left[u][g] = 0
    BY <1>4, <1>5, <2>1, LeftIs
  <2>. QED  BY <1>4, <1>5, <2>2 DEF Coupled, HandlesOK, SetLeft
<1>8. DroppedLock(ids[g])
  <2>1. area' = DropLock(area, ids[g])
    BY <1>2, <1>7
  <2>. QED  BY <1>1, <2>1, DropLockIs
<1>9. AreaOK(p, ids, left) /\ IdsOK(p, ids, left) /\ CountOK(p, ids, left) /\ LocksOK(p, ids, left) /\ PipesOK(p, ids, left)
      /\ (\A w \in Units : HandlesOK(p, ids, left, w)) /\ (\A w \in Units : BufOK(p, ids, left, w))
      /\ (\A w \in Units : TableOK(p, ids, left, w)) /\ (\A w \in Units : InsideOK(w))
      /\ (\A w \in Units : PlaceOK(p, ids, left, w) /\ OverOK(p, ids, left, over, w))
  BY DEF Coupled
<1>14. /\ Stepped(p, left, next, u, pos[u], "droplock", Len(todo[u])) /\ GhostsOK(p, ids, next, over)
       /\ \A w \in Units : PlaceOK(p, ids, next, w)' /\ OverOK(p, ids, next, over, w)'
       /\ \A w \in Units : (Waiting(w)' <=> Waiting(w)) /\ (Entering(w)' <=> Entering(w))
       /\ \A w \in Units : ~ Lost(w)' => ~ Lost(w)
       /\ \A w \in Units : (todo'[w] # <<>> => todo[w] # <<>>) /\ (w # u => todo'[w] = todo[w])
       /\ todo' \in [Units -> Seq(StepRec)]
  <2>1. "droplock" \notin {"find", "await", "wait", "lost"}
    OBVIOUS
  <2>2. /\ \A w \in Units : buf'[w].op = buf[w].op
        /\ \A r \in TeamSlots : area'.teams[r].barr.woken = area.teams[r].barr.woken
        /\ pos' = pos /\ prog' = prog /\ inside' = inside
    BY <1>2, <1>8, Zenon DEF DroppedLock
  <2>3. GhostsOK(p, ids, left, over) /\ (\A w \in Units : PlaceOK(p, ids, left, w) /\ OverOK(p, ids, left, over, w))
    BY <1>1, <1>9
  <2>. QED  BY ONLY Coupled(p, ids, left, over), u \in Units, <1>2, <2>1, <2>2, <2>3,
                    next = [left EXCEPT ![u][pos[u]] = @ - 1], PlainStep
<1>15. Stepped(p, left, next, u, i, "droplock", l)
  BY <1>14
<1>16. \A w \in Units : InsideOK(w)'
  <2>1. /\ inside' = inside /\ pos' = pos /\ prog' = prog /\ (\A w \in Units : w # u => handle'[w] = handle[w])
        /\ inside[u] = NoSlot
        /\ \A r \in TeamSlots : /\ area'.teams[r].barr.asleep = area.teams[r].barr.asleep
                                /\ area'.teams[r].barr.woken = area.teams[r].barr.woken
        /\ \A w \in Units : \A r \in TeamSlots :
               (inside[w] = r /\ w \notin area.teams[r].barr.woken) =>
                   area'.teams[r].inuse = area.teams[r].inuse /\ area'.teams[r].id = area.teams[r].id
    BY <1>2, <1>8, Zenon DEF At, DroppedLock
  <2>. QED  BY ONLY Coupled(p, ids, left, over), u \in Units, <1>14, <2>1, PlainInside
<1>17. \A w \in Units : HandlesOK(p, ids, next, w)'
  <2>1. handle' = handle /\ "droplock" \notin {"init", "setlock"}
    BY <1>2
  <2>. QED  BY ONLY <1>9, <1>15, <2>1, HandlesStep
<1>18. \A w \in Units : BufOK(p, ids, next, w)'
  <2>1. /\ \A w \in Units : todo'[w] # <<>> => todo[w] # <<>>
        /\ buf' = buf /\ pos' = pos /\ "droplock" \notin {"newteam", "takelock", "recv"}
    BY <1>2, <1>14
  <2>. QED  BY ONLY <1>9, <1>15, <2>1, BufStep
<1>19. IdsOK(p, ids, next) /\ CountOK(p, ids, next)' /\ AreaOK(p, ids, next)'
  <2>1. /\ area'.nextid = area.nextid
        /\ \A s \in TeamSlots : /\ area'.teams[s].inuse = area.teams[s].inuse
                                /\ area'.teams[s].id = area.teams[s].id
                                /\ area'.teams[s].barr.procs = area.teams[s].barr.procs
                                /\ ~ area.teams[s].inuse => area'.teams[s].barr.asleep = {}
    BY <1>8, <1>9 DEF DroppedLock, AreaOK
  <2>2. IdsOK(p, ids, next)
    BY ONLY <1>9, <1>15, IdsStep
  <2>3. CountOK(p, ids, next)'
    BY ONLY <1>1, <1>9, <1>15, <2>1, CountStep
  <2>4. AreaOK(p, ids, next)'
    BY ONLY <1>9, <1>15, <2>1, AreaStep
  <2>. QED  BY <2>2, <2>3, <2>4
<1>20. \A w \in Units : TableOK(p, ids, next, w)'
  <2>1. /\ \A r \in TeamSlots : (area'.teams[r].inuse => area.teams[r].inuse) /\ area'.teams[r].id = area.teams[r].id
        /\ \A w \in Units : ~ Lost(w)' => ~ Lost(w) /\ teams'[w] = teams[w]
        /\ "droplock" = "init" => ids[i] = NoTeam
    BY <1>2, <1>8, <1>14, Zenon DEF DroppedLock
  <2>. QED  BY ONLY <1>9, <1>15, <2>1, TableStep
<1>21. PipesOK(p, ids, next)'
  <2>1. /\ DOMAIN pipes' = DOMAIN pipes /\ (0 .. area.nextid - 1) \subseteq (0 .. area'.nextid - 1)
        /\ "droplock" # "unlink" /\ ("droplock" = "init" => ids[i] = NoTeam)
    BY <1>2, <1>8, Zenon DEF DroppedLock
  <2>. QED  BY ONLY <1>1, <1>9, <1>15, <2>1, PipesStep
<1>22. QueuesOK(p, ids, next)' /\ ReceivedOK(p, next)
  <2>1. QueuesKept /\ "droplock" \notin {"send", "recv"}
    BY <1>2 DEF QueuesKept
  <2>. QED  BY ONLY Coupled(p, ids, left, over), <1>3, <1>15, <2>1, SilentParts
<1>23. LocksOK(p, ids, next)'
  <2>. SUFFICES ASSUME NEW d \in DOMAIN p, NEW e \in DOMAIN p, p[d].kind = "lockinit", p[e].kind = "lockinit",
                       ids[d] # NoTeam, ids[e] # NoTeam, ~ Dropped(p, next, d), ~ Dropped(p, next, e)
                PROVE  area'.locks[ids[d]].inuse /\ (ids[d] = ids[e] => d = e)
    BY DEF LocksOK
  <2>1. /\ d # g /\ e # g /\ ~ Dropped(p, left, d) /\ ~ Dropped(p, left, e)
    BY <1>15 DEF Stepped
  <2>2. area.locks[ids[d]].inuse /\ (ids[d] = ids[e] => d = e)
    BY <1>9, <2>1 DEF LocksOK
  <2>3. ids[d] # ids[g]
    BY <1>5, <1>6, <1>9, <2>1, Zenon DEF LocksOK
  <2>4. ids[d] \in LockSlots
    BY <1>9 DEF IdsOK, Ids
  <2>5. area'.locks[ids[d]] = area.locks[ids[d]]
    BY <1>8, <2>3, <2>4 DEF DroppedLock
  <2>. QED  BY <2>2, <2>5
<1>25. TypesOK(p)'
  <2>1. area' \in [teams : [TeamSlots -> [inuse : BOOLEAN, id : Int,
                             barr : [procs : Int, asleep : SUBSET Units, woken : SUBSET Units, torn : BOOLEAN]]],
                   locks : [LockSlots -> [inuse : BOOLEAN, team : Int]],
                   nextid : Int]
    <3>1. area.teams \in [TeamSlots -> [inuse : BOOLEAN, id : Int,
                             barr : [procs : Int, asleep : SUBSET Units, woken : SUBSET Units, torn : BOOLEAN]]] /\ area.nextid \in Int
      BY <1>1 DEF TypesOK
    <3>. QED  BY <1>8, <3>1 DEF DroppedLock
  <2>. QED  BY <1>1, <1>2, <1>14, <2>1, Zenon DEF TypesOK
<1>26. Coupled(p, ids, next, over)'
  BY <1>1, <1>14, <1>16, <1>17, <1>18, <1>19, <1>20, <1>21, <1>22, <1>23, <1>25, Zenon DEF Coupled
<1>. QED  BY <1>26

\* What the first area is like.
LEMMA FirstArea ==
    ASSUME area = AreaInit(Cardinality(Units))
    PROVE  /\ area \in [teams : [TeamSlots -> [inuse : BOOLEAN, id : Int,
                             barr : [procs : Int, asleep : SUBSET Units, woken : SUBSET Units, torn : BOOLEAN]]],
                        locks : [LockSlots -> [inuse : BOOLEAN, team : Int]],
                        nextid : Int]
           /\ area.nextid = 1 /\ 0 \in TeamSlots
           /\ \A s \in TeamSlots : /\ area.teams[s].inuse <=> s = 0
                                   /\ area.teams[s].id = TeamAll
                                   /\ area.teams[s].barr.asleep = {} /\ area.teams[s].barr.woken = {}
           /\ area.teams[0].barr.procs = Cardinality(Units)
<1>. PICK n : n = Cardinality(Units)
  OBVIOUS
<1>1. n \in Nat
  BY UnitsFinite
<1>. DEFINE Slot(s) == [inuse |-> s = 0, id |-> TeamAll, barr |-> NewBarrier(IF s = 0 THEN n ELSE 0)]
<1>2. \A s \in TeamSlots :
          /\ Slot(s) \in [inuse : BOOLEAN, id : Int, barr : [procs : Int, asleep : SUBSET Units, woken : SUBSET Units, torn : BOOLEAN]]
          /\ (Slot(s).inuse <=> s = 0) /\ Slot(s).id = TeamAll
          /\ Slot(s).barr.asleep = {} /\ Slot(s).barr.woken = {} /\ (s = 0 => Slot(s).barr.procs = n)
  <2>. SUFFICES ASSUME NEW s \in TeamSlots
                PROVE  /\ Slot(s) \in [inuse : BOOLEAN, id : Int, barr : [procs : Int, asleep : SUBSET Units, woken : SUBSET Units, torn : BOOLEAN]]
                       /\ (Slot(s).inuse <=> s = 0) /\ Slot(s).id = TeamAll
                       /\ Slot(s).barr.asleep = {} /\ Slot(s).barr.woken = {} /\ (s = 0 => Slot(s).barr.procs = n)
    OBVIOUS
  <2>. PICK k, b : k = (IF s = 0 THEN n ELSE 0) /\ b = NewBarrier(k)
    OBVIOUS
  <2>1. k \in Int /\ (s = 0 => k = n)
    BY <1>1
  <2>2. /\ b \in [procs : Int, asleep : SUBSET Units, woken : SUBSET Units, torn : BOOLEAN]
        /\ b.asleep = {} /\ b.woken = {} /\ b.procs = k
    BY <2>1 DEF NewBarrier
  <2>. PICK t : t = (s = 0)
    OBVIOUS
  <2>3. Slot(s) = [inuse |-> t, id |-> TeamAll, barr |-> b] /\ t \in BOOLEAN /\ (t <=> s = 0)
    OBVIOUS
  <2>. PICK e : e = Slot(s)
    OBVIOUS
  <2>4. /\ e \in [inuse : BOOLEAN, id : Int, barr : [procs : Int, asleep : SUBSET Units, woken : SUBSET Units, torn : BOOLEAN]]
        /\ e.inuse = t /\ e.id = TeamAll /\ e.barr = b
    BY <2>2, <2>3 DEF TeamAll
  <2>. HIDE DEF Slot
  <2>. QED  BY <2>1, <2>2, <2>3, <2>4
<1>3. area = [teams |-> [s \in TeamSlots |-> Slot(s)],
              locks |-> [l \in LockSlots |-> [inuse |-> FALSE, team |-> TeamAll]], nextid |-> 1]
  BY DEF AreaInit
<1>. HIDE DEF Slot
<1>4. /\ area.teams = [s \in TeamSlots |-> Slot(s)] /\ area.nextid = 1
  BY <1>3
<1>5. 0 \in TeamSlots
  BY SizesAssumption DEF TeamSlots
<1>6. \A s \in TeamSlots : area.teams[s] = Slot(s)
  BY <1>4
<1>7. area \in [teams : [TeamSlots -> [inuse : BOOLEAN, id : Int,
                             barr : [procs : Int, asleep : SUBSET Units, woken : SUBSET Units, torn : BOOLEAN]]],
                        locks : [LockSlots -> [inuse : BOOLEAN, team : Int]],
                        nextid : Int]
  BY <1>2, <1>3 DEF TeamAll
<1>. QED  BY <1>2, <1>4, <1>5, <1>6, <1>7

\* The first state, told.
FirstLeft(p) == [u \in Units |-> [i \in DOMAIN p |-> IF u \in Mem(p, i) THEN Size(p, u, i) ELSE 0]]

\* The first tables: dart_shmem_team_init of Team::All.
LEMMA FirstTables ==
    ASSUME Init
    PROVE  /\ teams \in [Units -> [TeamSlots -> [id : Int, valid : BOOLEAN, myid : Int, group : GroupRec]]]
           /\ \A u \in Units : /\ teams[u][0] = [id |-> TeamAll, valid |-> TRUE, myid |-> u, group |-> WorldGroup]
                               /\ \A s \in TeamSlots : teams[u][s].valid => teams[u][s].id # NoTeam
<1>1. WorldGroup \in GroupRec
  BY WorldGroupRanks, GroupOKType
<1>2. Unset \in [id : Int, valid : BOOLEAN, myid : Int, group : GroupRec] /\ ~ Unset.valid
  BY DEF Unset, EmptyGroup, GroupRec, Nobody, NoTeam
<1>. DEFINE World(u) == [id |-> TeamAll, valid |-> TRUE, myid |-> u, group |-> WorldGroup]
<1>3. \A u \in Units : /\ World(u) \in [id : Int, valid : BOOLEAN, myid : Int, group : GroupRec]
                       /\ World(u).id # NoTeam
  BY <1>1, UnitsAreInts DEF TeamAll, NoTeam
<1>. HIDE DEF World
<1>4. teams = [u \in Units |-> [s \in TeamSlots |-> IF s = 0 THEN World(u) ELSE Unset]]
  BY DEF Init, World
<1>5. 0 \in TeamSlots
  BY SizesAssumption DEF TeamSlots
<1>6. \A u \in Units : teams[u][0] = World(u) /\ \A s \in TeamSlots : teams[u][s].valid => teams[u][s].id # NoTeam
  BY <1>2, <1>3, <1>4, <1>5
<1>7. teams \in [Units -> [TeamSlots -> [id : Int, valid : BOOLEAN, myid : Int, group : GroupRec]]]
  BY <1>2, <1>3, <1>4
<1>. QED  BY <1>6, <1>7 DEF World

\* The first state has the types.
LEMMA FirstTypes ==
    ASSUME Init
    PROVE  TypesOK(prog)
<1>1. /\ prog \in Programs /\ WellFormed(prog) /\ DOMAIN prog = 1 .. Len(prog) /\ Len(prog) \in Nat
  BY ProgramsAssumption, ProgramDomain DEF Init
<1>2. pos \in [Units -> 1 .. Len(prog) + 1]
  <2>1. \A u \in Units : NextOp(prog, u, 1) \in 1 .. Len(prog) + 1
    <3>1. 1 \in 1 .. Len(prog) + 1
      BY <1>1
    <3>. QED  BY <1>1, <3>1, NextOpIs
  <2>. QED  BY <2>1 DEF Init
<1>3. /\ todo \in [Units -> Seq(StepRec)] /\ inside \in [Units -> TeamSlots \union {NoSlot}]
      /\ handle \in [Units -> [DOMAIN prog -> Int]] /\ holder \in [LockSlots -> Int]
  BY DEF Init, NoTeam, Nobody
<1>4. buf \in [Units -> Message]
  <2>1. NoMessage \in Message
    BY DEF NoMessage, Message, NoTeam, NoSlot
  <2>. QED  BY <2>1 DEF Init
<1>5. pipes \in [DOMAIN pipes -> [opened : BOOLEAN, queue : Seq(Message)]]
  <2>1. NewPipe \in [opened : BOOLEAN, queue : Seq(Message)]
    BY DEF NewPipe
  <2>. QED  BY <2>1 DEF Init
<1>6. area \in [teams : [TeamSlots -> [inuse : BOOLEAN, id : Int,
                             barr : [procs : Int, asleep : SUBSET Units, woken : SUBSET Units, torn : BOOLEAN]]],
                locks : [LockSlots -> [inuse : BOOLEAN, team : Int]],
                nextid : Int]
  BY FirstArea DEF Init
<1>7. teams \in [Units -> [TeamSlots -> [id : Int, valid : BOOLEAN, myid : Int, group : GroupRec]]]
  BY FirstTables
<1>. QED  BY <1>2, <1>3, <1>4, <1>5, <1>6, <1>7 DEF TypesOK

\* The first state has values of the three functions that fit it.
LEMMA InitCoupled ==
    ASSUME Init
    PROVE  \E p, ids, left, over : Coupled(p, ids, left, over)
<1>. PICK p : p = prog
  OBVIOUS
<1>. PICK ids, left, over : /\ ids = [i \in DOMAIN p |-> NoTeam] /\ left = FirstLeft(p)
                            /\ over = [i \in DOMAIN p |-> 0]
  OBVIOUS
<1>1. /\ p \in Programs /\ WellFormed(p) /\ DOMAIN p = 1 .. Len(p) /\ Len(p) \in Nat /\ TypesOK(p)
  BY ProgramsAssumption, ProgramDomain, FirstTypes DEF Init
<1>2. \A i \in DOMAIN p : ids[i] = NoTeam /\ over[i] = 0
  OBVIOUS
<1>3. \A i \in DOMAIN p : \A u \in Mem(p, i) : u \in Units /\ Size(p, u, i) \in Nat /\ left[u][i] = Size(p, u, i)
  <2>1. \A i \in DOMAIN p : \A u \in Mem(p, i) : u \in Units /\ Size(p, u, i) \in Nat
    BY <1>1, SizeType, TeamMembersUnits DEF Mem
  <2>. QED  BY <2>1 DEF FirstLeft
<1>4. GhostsOK(p, ids, left, over)
  <2>1. left \in [Units -> [DOMAIN p -> Nat]]
    BY <1>3 DEF FirstLeft
  <2>. QED  BY <2>1 DEF GhostsOK, NoTeam
<1>5. ASSUME NEW u \in Units
      PROVE  /\ pos[u] \in 1 .. Len(p) + 1 /\ (pos[u] \in DOMAIN p => u \in Mem(p, pos[u]))
             /\ \A j \in DOMAIN p : j < pos[u] => u \notin Mem(p, j)
             /\ todo[u] = <<>> /\ inside[u] = NoSlot /\ buf[u].op = 0 /\ ~ Started(u)
  <2>1. 1 \in 1 .. Len(p) + 1
    BY <1>1
  <2>2. LET n == NextOp(p, u, 1)
        IN  /\ n \in 1 .. Len(p) + 1 /\ (n \in DOMAIN p => u \in Mem(p, n))
            /\ \A j \in DOMAIN p : 1 <= j /\ j < n => u \notin Mem(p, j)
    BY <1>1, <2>1, NextOpIs
  <2>3. pos[u] = NextOp(p, u, 1) /\ todo[u] = <<>> /\ inside[u] = NoSlot /\ buf[u] = NoMessage
    BY DEF Init
  <2>4. buf[u].op = 0
    BY <2>3 DEF NoMessage
  <2>5. ~ Started(u)
    BY <1>1, <2>2, <2>3, <2>4 DEF Started
  <2>. QED  BY <1>1, <2>2, <2>3, <2>4, <2>5
<1>6. ASSUME NEW u \in Units PROVE PlaceOK(p, ids, left, u)
  <2>1. \A i \in DOMAIN p : u \in Mem(p, i) => left[u][i] = Size(p, u, i) /\ ~ (i < pos[u]) /\ i \in Nat /\ pos[u] \in Nat
    BY <1>1, <1>3, <1>5
  <2>2. \A i \in DOMAIN p : u \in Mem(p, i) => i > pos[u] \/ i = pos[u]
    BY <2>1
  <2>3. 0 <= pos[u]
    BY <1>1, <1>5
  <2>. QED  BY <1>5, <2>1, <2>2, <2>3 DEF PlaceOK
<1>7. /\ area.nextid = 1 /\ 0 \in TeamSlots
      /\ \A s \in TeamSlots : /\ area.teams[s].inuse <=> s = 0
                              /\ area.teams[s].id = TeamAll
                              /\ area.teams[s].barr.asleep = {} /\ area.teams[s].barr.woken = {}
      /\ area.teams[0].barr.procs = Cardinality(Units)
  BY FirstArea DEF Init
<1>8. \A s \in TeamSlots : s # NoSlot
  BY SizesAssumption DEF TeamSlots, NoSlot
<1>9. ASSUME NEW u \in Units PROVE InsideOK(u)
  BY <1>5, <1>7, <1>8 DEF InsideOK, Waiting, Entering
<1>10. ASSUME NEW u \in Units PROVE OverOK(p, ids, left, over, u)
  <2>. SUFFICES ASSUME NEW i \in DOMAIN p, u \in Mem(p, i), NEW b \in 1 .. Barriers(p, i)
                PROVE  /\ ~ (b <= over[i]) /\ ~ (left[u][i] < BarLeft(p, u, i, b)) /\ ~ Woken(u)
    BY DEF OverOK
  <2>1. BarLeft(p, u, i, b) \in 1 .. Size(p, u, i)
    BY <1>1, SizeType
  <2>2. left[u][i] = Size(p, u, i) /\ Size(p, u, i) \in Nat
    BY <1>3
  <2>3. ~ Woken(u)
    BY <1>5 DEF Woken
  <2>. QED  BY <1>2, <2>1, <2>2, <2>3
<1>11. IdsOK(p, ids, left)
  BY <1>2 DEF IdsOK
<1>12. CountOK(p, ids, left)
  <2>1. Cardinality(Counted(p, left)) \in Nat
    <3>1. Counted(p, left) \subseteq DOMAIN p
      BY DEF Counted
    <3>. QED  BY <1>1, <3>1, CountedFinite
  <2>2. ASSUME NEW c \in DOMAIN p, p[c].kind = "create" PROVE ~ (left[Maker(p, c)][c] < MakeLeft(p, c))
    <3>. PICK m, k : m = Maker(p, c) /\ k = left[m][c]
      OBVIOUS
    <3>1. m \in Mem(p, c)
      BY <1>1, <2>2, ProgramTeams
    <3>2. k = Size(p, m, c) /\ k \in Nat
      BY <1>3, <3>1
    <3>3. MakeLeft(p, c) = k - 1
      BY <2>2, <3>2 DEF MakeLeft
    <3>. QED  BY <3>2, <3>3
  <2>. QED  BY <1>1, <1>2, <1>7, <2>1, <2>2 DEF CountOK, Counted
<1>13. ASSUME NEW u \in Units PROVE HandlesOK(p, ids, left, u) /\ BufOK(p, ids, left, u)
  <2>1. \A c \in DOMAIN p : handle[u][c] = NoTeam
    BY DEF Init
  <2>. QED  BY <1>2, <1>5, <2>1 DEF HandlesOK, BufOK
<1>14. AreaOK(p, ids, left)
  BY <1>2, <1>7 DEF AreaOK
<1>15. ASSUME NEW u \in Units PROVE TableOK(p, ids, left, u)
  BY <1>2, FirstTables DEF TableOK
<1>16. Teams(p, ids) = {0} /\ TeamMembers(p, 0) = Units
  BY <1>2 DEF Teams, TeamMembers
<1>17. \A name \in {TeamAll} \X Units \X Units : name \in DOMAIN pipes /\ pipes[name].queue = <<>>
  BY DEF Init, NewPipe
<1>18. \A v, u \in Units : Pipe(p, ids, 0, v, u) \in {TeamAll} \X Units \X Units
  BY <1>16, RankOfUnit DEF Pipe, TeamId
<1>19. PipesOK(p, ids, left)
  <2>1. DOMAIN pipes \in SUBSET ((0 .. area.nextid - 1) \X Int \X Int)
    <3>1. DOMAIN pipes = {TeamAll} \X Units \X Units
      BY DEF Init
    <3>. QED  BY <1>7, <3>1, UnitsAreInts DEF TeamAll
  <2>2. \A u : There(p, left, 0, u)
    BY <1>1, WorldStays DEF There
  <2>. QED  BY <1>16, <1>17, <1>18, <2>1, <2>2 DEF PipesOK
<1>20. \A i \in DOMAIN p : \A v \in Mem(p, i) : \A u : ~ Sent(p, left, v, i, u) /\ ~ Got(p, left, v, i, u)
  <2>. SUFFICES ASSUME NEW i \in DOMAIN p, NEW v \in Mem(p, i), NEW l \in 1 .. Size(p, v, i), left[v][i] < l PROVE FALSE
    BY DEF Sent, Got
  <2>1. left[v][i] = Size(p, v, i) /\ Size(p, v, i) \in Nat
    BY <1>3
  <2>. QED  BY <2>1
<1>21. ReceivedOK(p, left)
  BY <1>20 DEF ReceivedOK
<1>22. QueuesOK(p, ids, left)
  <2>. SUFFICES ASSUME NEW v \in Units, NEW u \in Units, NEW q, q = <<>> PROVE QueueOK(p, ids, left, 0, v, u, q)
    BY <1>16, <1>17, <1>18 DEF QueuesOK
  <2>1. DOMAIN q = {}
    OBVIOUS
  <2>2. \A i \in DOMAIN p : p[i].on = 0 => v \in Mem(p, i)
    BY <1>16 DEF Mem
  <2>. QED  BY <1>20, <2>1, <2>2 DEF QueueOK
<1>23. LocksOK(p, ids, left)
  BY <1>2 DEF LocksOK
<1>24. Coupled(p, ids, left, over)
  BY <1>1, <1>4, <1>6, <1>9, <1>10, <1>11, <1>12, <1>13, <1>14, <1>15, <1>19, <1>21, <1>22, <1>23 DEF Coupled
<1>. QED  BY <1>24

\* Some values of p and the three functions fit the next state.
Fits == \E p, ids, left, over : Coupled(p, ids, left, over)'

\* Every step of a unit keeps the state told.
LEMMA UnitKeeps ==
    ASSUME NEW p, NEW ids, NEW left, NEW over, Coupled(p, ids, left, over), NEW u \in Units, UnitStep(u)
    PROVE  Fits
<1>1. CASE Begin(u)
  BY <1>1, BeginStep DEF Fits
<1>2. CASE Return(u)
  BY <1>2, ReturnStep DEF Fits
<1>3. CASE FindBarrier(u)
  BY <1>3, FindStep DEF Fits
<1>4. CASE Arrive(u)
  <2>1. CASE Completes(area, inside[u])
    <3>1. \E next, over2 : Coupled(p, ids, next, over2)'
      BY <1>4, <2>1, CompleteStep
    <3>. QED  BY <3>1 DEF Fits
  <2>2. CASE ~ Completes(area, inside[u])
    <3>1. Coupled(p, ids, left, over)'
      BY <1>4, <2>2, SleepStep
    <3>. QED  BY <3>1 DEF Fits
  <2>. QED  BY <2>1, <2>2
<1>5. CASE Leave(u)
  <2>1. \E next : Coupled(p, ids, next, over)'
    BY <1>5, LeaveStep
  <2>. QED  BY <2>1 DEF Fits
<1>6. CASE FifoStep(u)
  <2>1. CASE OpenToRead(u)
    BY <2>1, OpenStep DEF Fits
  <2>2. CASE Recv(u)
    <3>1. \E next : Coupled(p, ids, next, over)'
      BY <2>2, RecvStep
    <3>. QED  BY <3>1 DEF Fits
  <2>3. CASE SendTo(u)
    <3>1. \E next : Coupled(p, ids, next, over)'
      BY <2>3, SendStep
    <3>. QED  BY <3>1 DEF Fits
  <2>. QED  BY <1>6, <2>1, <2>2, <2>3 DEF FifoStep
<1>7. CASE TeamStep(u)
  <2>1. CASE NewTeamSlot(u)
    <3>1. \E ids2, next, over2 : Coupled(p, ids2, next, over2)'
      BY <2>1, NewTeamSlotStep
    <3>. QED  BY <3>1 DEF Fits
  <2>2. CASE NewTeamNoSlot(u)
    <3>1. \E next : Coupled(p, ids, next, over)'
      BY <2>2, NewTeamNoSlotStep
    <3>. QED  BY <3>1 DEF Fits
  <2>3. CASE InitTeam(u)
    <3>1. \E next : Coupled(p, ids, next, over)'
      BY <2>3, InitTeamStep
    <3>. QED  BY <3>1 DEF Fits
  <2>4. CASE InitTeamNotFound(u)
    <3>1. \E next : Coupled(p, ids, next, over)'
      BY <2>4, InitNotFoundStep
    <3>. QED  BY <3>1 DEF Fits
  <2>5. CASE InitMisled(u)
    <3>1. \E next : Coupled(p, ids, next, over)'
      BY <2>5, InitMisledStep
    <3>. QED  BY <3>1 DEF Fits
  <2>6. CASE UnlinkPipes(u)
    <3>1. \E next : Coupled(p, ids, next, over)'
      BY <2>6, UnlinkStep
    <3>. QED  BY <3>1 DEF Fits
  <2>7. CASE DeleteTeam(u)
    <3>1. \E next : Coupled(p, ids, next, over)'
      BY <2>7, DeleteStep
    <3>. QED  BY <3>1 DEF Fits
  <2>. QED  BY <1>7, <2>1, <2>2, <2>3, <2>4, <2>5, <2>6, <2>7 DEF TeamStep
<1>8. CASE LockStep(u)
  <2>1. CASE TakeLockSlot(u)
    <3>1. \E ids2, next, over2 : Coupled(p, ids2, next, over2)'
      BY <2>1, TakeLockStep
    <3>. QED  BY <3>1 DEF Fits
  <2>2. CASE SetLock(u)
    <3>1. \E next : Coupled(p, ids, next, over)'
      BY <2>2, SetLockStep
    <3>. QED  BY <3>1 DEF Fits
  <2>3. CASE DropLockSlot(u)
    <3>1. \E next : Coupled(p, ids, next, over)'
      BY <2>3, DropLockStep
    <3>. QED  BY <3>1 DEF Fits
  <2>4. CASE AcquireLock(u) \/ GetLock(u) \/ TryAcquireLock(u) \/ ReleaseLock(u)
    <3>1. Coupled(p, ids, left, over)'
      BY <2>4, HolderStep
    <3>. QED  BY <3>1 DEF Fits
  <2>. QED  BY <1>8, <2>1, <2>2, <2>3, <2>4 DEF LockStep
<1>. QED  BY <1>1, <1>2, <1>3, <1>4, <1>5, <1>6, <1>7, <1>8 DEF UnitStep, BarrierStep

\* A step that changes no variable keeps the state told.
LEMMA StutterKeeps ==
    ASSUME NEW p, NEW ids, NEW left, NEW over, Coupled(p, ids, left, over), UNCHANGED vars
    PROVE  Coupled(p, ids, left, over)'
<1>1. TypesOK(p)
  BY ProgIs
<1>2. /\ UNCHANGED <<prog, area, teams, handle, pos, todo, inside, buf>>
      /\ DOMAIN pipes' = DOMAIN pipes /\ \A name \in DOMAIN pipes' : pipes'[name].queue = pipes[name].queue
  BY DEF vars
<1>3. TypesOK(p)'
  BY <1>1 DEF TypesOK, vars
<1>. QED  BY ONLY Coupled(p, ids, left, over), <1>2, <1>3, QuietStep

\* However the calls of the units interleave, three functions tell the whole
\* state: the ids the creations have made, how far each unit is in each call,
\* and how many barriers are over.  The barriers, the FIFOs, the area and the
\* tables of the SHMEM runtime never get out of step with the calls.
THEOREM TeamsInvariant == Spec => []IInv
<1>1. Init => IInv
  BY InitCoupled DEF IInv
<1>2. IInv /\ [Next]_vars => IInv'
  <2>. SUFFICES ASSUME IInv, [Next]_vars PROVE IInv'
    OBVIOUS
  <2>1. PICK p, ids, left, over : Coupled(p, ids, left, over)
    BY DEF IInv
  <2>2. CASE UNCHANGED vars
    <3>1. Coupled(p, ids, left, over)'
      BY <2>1, <2>2, StutterKeeps
    <3>. QED  BY <3>1 DEF IInv
  <2>3. CASE Next
    <3>1. PICK u \in Units : UnitStep(u)
      BY <2>3 DEF Next
    <3>2. Fits
      BY <2>1, <3>1, UnitKeeps
    <3>. QED  BY <3>2 DEF IInv, Fits
  <2>. QED  BY <2>2, <2>3
<1>. QED  BY <1>1, <1>2, PTL DEF Spec

\* A unit that has a handle has been told the id.
LEMMA HandleIs ==
    ASSUME NEW p, NEW ids, NEW left, NEW over, Coupled(p, ids, left, over),
           NEW u \in Units, NEW c \in DOMAIN p, handle[u][c] # NoTeam
    PROVE  /\ u \in For(p, c) /\ left[u][c] < SetLeft(p, c) /\ handle[u][c] = ids[c] /\ ids[c] # NoTeam
           /\ ids[c] \in Ids(p, c)
<1>1. HandlesOK(p, ids, left, u) /\ IdsOK(p, ids, left)
  BY DEF Coupled
<1>2. u \in For(p, c) /\ left[u][c] < SetLeft(p, c) /\ handle[u][c] = ids[c]
  BY <1>1 DEF HandlesOK
<1>. QED  BY <1>1, <1>2 DEF IdsOK

\* A unit before the last barrier of a destroy has that barrier to pass.
LEMMA BarrierLeft ==
    ASSUME NEW p, NEW ids, NEW left, NEW over, Coupled(p, ids, left, over),
           NEW u \in Units, NEW d \in DOMAIN p, p[d].kind = "destroy", d = pos[u], BeforeLastBarrier(u)
    PROVE  /\ ~ (left[u][d] < BarLeft(p, u, d, 2))
           /\ ~ (left[u][d] = BarLeft(p, u, d, 2) /\ Woken(u))
<1>1. PICK k \in DOMAIN todo[u] : todo[u][k].do \in {"find", "await"}
  BY DEF BeforeLastBarrier
<1>2. todo[u] \in Seq(StepRec)
  BY ProgIs DEF TypesOK
<1>3. todo[u] # <<>> /\ DOMAIN todo[u] = 1 .. Len(todo[u]) /\ Len(todo[u]) \in Nat /\ k \in 1 .. Len(todo[u])
  BY <1>1, <1>2
<1>. PICK l, n : l = Len(todo[u]) - k + 1 /\ n = Len(todo[u])
  OBVIOUS
<1>4. n \in Nat /\ k \in 1 .. n
  BY <1>3
<1>5. l \in 1 .. n /\ n - l + 1 = k /\ (l = n => k = 1)
  BY <1>4
<1>6. LeftOf(todo[u], l) = todo[u][k]
  BY <1>5 DEF LeftOf
<1>7. WellFormed(p) /\ u \in Mem(p, d) /\ left[u][d] = n /\ n \in 1 .. Size(p, u, d) /\ Size(p, u, d) \in Nat
  BY <1>3, Underway, ProgIs, SizeType
<1>8. SameStep(LeftOf(todo[u], l), StepAt(p, u, d, l))
  BY <1>3, <1>5 DEF Coupled, PlaceOK
<1>9. StepAt(p, u, d, l).do = "find"
  <2>. PICK x, y : x = LeftOf(todo[u], l) /\ y = StepAt(p, u, d, l)
    OBVIOUS
  <2>1. x.do \in {"find", "await"} /\ (y = x \/ y.do = "find")
    BY <1>1, <1>6, <1>8 DEF SameStep
  <2>2. y.do # "await"
    <3>1. CallOK(p, u, d)
      BY <1>7, CallIs
    <3>2. l \in 1 .. Size(p, u, d)
      BY <1>5, <1>7
    <3>3. MakingAt(p, u, d, l)
      BY <3>1, <3>2 DEF CallOK, MakingOK
    <3>. QED  BY <3>3 DEF MakingAt
  <2>. QED  BY ONLY <2>1, <2>2, y = StepAt(p, u, d, l)
<1>10. BarrierOK(p, u, d) /\ Barriers(p, d) = 2
  BY <1>7, CallIs DEF CallOK, Barriers
<1>11. l >= BarLeft(p, u, d, 2) /\ BarLeft(p, u, d, 2) \in Int
  <2>1. l \in 1 .. Size(p, u, d)
    BY <1>5, <1>7
  <2>2. PICK b \in 1 .. 2 : l = BarLeft(p, u, d, b)
    BY <1>9, <1>10, <2>1 DEF BarrierOK
  <2>3. /\ BarLeft(p, u, d, 2) < BarLeft(p, u, d, 1)
        /\ BarLeft(p, u, d, 2) \in 1 .. Size(p, u, d) /\ BarLeft(p, u, d, 1) \in 1 .. Size(p, u, d)
    BY <1>10 DEF BarrierOK
  <2>4. b = 1 \/ b = 2
    OBVIOUS
  <2>. QED  BY <1>7, <2>2, <2>3, <2>4, SMTT(30)
<1>12. Woken(u) => Head(todo[u]).do = "wait"
  <2>1. Woken(u) => inside[u] \in TeamSlots
    BY ProgIs DEF TypesOK, Woken
  <2>. QED  BY <2>1 DEF Coupled, InsideOK, Woken, Waiting
<1>13. l = n => Head(todo[u]).do \in {"find", "await"}
  <2>1. Head(todo[u]) = todo[u][1]
    BY <1>2, <1>3
  <2>2. l = n => k = 1
    BY <1>5
  <2>. QED  BY <1>1, <2>1, <2>2
<1>14. /\ l <= n /\ l \in Int /\ n \in Int
  BY <1>4, <1>5
<1>. PICK b, m, h, w : b = BarLeft(p, u, d, 2) /\ m = left[u][d] /\ h = Head(todo[u]).do /\ w = Woken(u)
  OBVIOUS
<1>15. m = n /\ b \in Int /\ b <= l
  BY <1>7, <1>11, <1>14
<1>16. ~ (m < b)
  BY ONLY <1>14, <1>15
<1>17. ~ (m = b /\ w)
  <2>1. SUFFICES ASSUME m = b, w PROVE FALSE
    OBVIOUS
  <2>2. l = n
    BY ONLY <1>14, <1>15, <2>1
  <2>3. h \in {"find", "await"} /\ h = "wait"
    BY <1>12, <1>13, <2>1, <2>2
  <2>. QED  BY ONLY <2>3
<1>. QED  BY <1>16, <1>17

\* A team a unit may still use has not been deleted.
LEMMA MayUseStays ==
    ASSUME NEW p, NEW ids, NEW left, NEW over, Coupled(p, ids, left, over),
           NEW u \in Units, NEW c \in DOMAIN p, MayUse(u, c)
    PROVE  /\ p[c].kind = "create" /\ u \in For(p, c) /\ left[u][c] < 2 /\ handle[u][c] = ids[c]
           /\ ids[c] # NoTeam /\ ids[c] \in 1 .. Len(p) /\ ~ Deleted(p, left, c)
<1>1. /\ WellFormed(p) /\ prog = p
  BY ProgIs
<1>2. /\ p[c].kind = "create" /\ handle[u][c] # NoTeam
      /\ \A d \in DOMAIN p : p[d].kind = "destroy" /\ p[d].on = c =>
             d > pos[u] \/ (d = pos[u] /\ (~ Started(u) \/ BeforeLastBarrier(u)))
  BY <1>1 DEF MayUse, Ops
<1>3. u \in For(p, c) /\ left[u][c] < 2 /\ handle[u][c] = ids[c] /\ ids[c] # NoTeam /\ ids[c] \in 1 .. Len(p)
  BY <1>2, HandleIs DEF SetLeft, Ids
<1>4. ASSUME NEW d \in DOMAIN p, p[d].kind = "destroy", p[d].on = c
      PROVE  /\ ~ (left[u][d] < BarLeft(p, u, d, 2))
             /\ ~ (d = pos[u] /\ left[u][d] = BarLeft(p, u, d, 2) /\ Woken(u))
  <2>1. u \in Mem(p, d) /\ Barriers(p, d) = 2
    BY <1>1, <1>3, <1>4, DestroyPlaces
  <2>2. BarLeft(p, u, d, 2) \in 1 .. Size(p, u, d)
    <3>1. 2 \in 1 .. Barriers(p, d)
      BY <2>1
    <3>. QED  BY <1>1, <2>1, <3>1, SizeType
  <2>3. CASE d > pos[u] \/ (d = pos[u] /\ ~ Started(u))
    <3>1. left[u][d] = Size(p, u, d) /\ Size(p, u, d) \in Nat /\ pos[u] \in Nat
      BY <2>1, <2>3, LeftIs
    <3>2. d = pos[u] => ~ Woken(u)
      <4>1. d = pos[u] => todo[u] = <<>>
        BY <2>3, <3>1 DEF Coupled, PlaceOK
      <4>. QED  BY <4>1 DEF Coupled, InsideOK, Waiting, Entering, Woken
    <3>. QED  BY <2>2, <3>1, <3>2
  <2>4. CASE d = pos[u] /\ BeforeLastBarrier(u)
    BY <1>4, <2>4, BarrierLeft
  <2>. QED  BY <1>2, <1>4, <2>3, <2>4
<1>5. ~ Deleted(p, left, c)
  BY <1>2, <1>3, <1>4, TeamStays
<1>. QED  BY <1>2, <1>3, <1>5

\* What TeamsResolve says of team i, of which u has the id.
Resolves(u, i) ==
    LET t == handle[u][i]  s == FindTeam(area, t)  G == prog[i].group
    IN  /\ SlotsOf(area, t) = {s}
        /\ area.teams[s].barr.procs = Cardinality(MembersOf(G))
        /\ teams[u][s] = [id |-> t, valid |-> TRUE, myid |-> Rank(MembersOf(G), u), group |-> G]
        /\ SizeOf(u, t) = Cardinality(MembersOf(G))
        /\ \A v \in MembersOf(G) : G2L(u, t, v) = Rank(MembersOf(G), v) /\ L2G(u, t, G2L(u, t, v)) = v
        /\ \A v \in Units, j \in Ops :
               (prog[j].kind = "create" /\ handle[v][j] # NoTeam) =>
                   ((handle[v][j] = t) <=> (i = j))

\* It says it of every state of the coupling.
LEMMA TeamResolves ==
    ASSUME NEW p, NEW ids, NEW left, NEW over, Coupled(p, ids, left, over), NobodyLost,
           NEW u \in Units, NEW i \in DOMAIN p, MayUse(u, i)
    PROVE  Resolves(u, i)
<1>. PICK t, G, M : t = handle[u][i] /\ G = p[i].group /\ M = MembersOf(p[i].group)
  OBVIOUS
<1>. PICK s : s = FindTeam(area, t)
  OBVIOUS
<1>1. /\ p[i].kind = "create" /\ u \in For(p, i) /\ left[u][i] < 2 /\ t = ids[i]
      /\ ids[i] # NoTeam /\ ids[i] \in 1 .. Len(p) /\ ~ Deleted(p, left, i)
  BY MayUseStays
<1>2. /\ WellFormed(p) /\ i \in Teams(p, ids) /\ i # 0 /\ TeamId(ids, i) = t /\ t # TeamAll
  <2>1. WellFormed(p) /\ DOMAIN p = 1 .. Len(p) /\ Len(p) \in Nat
    BY ProgIs
  <2>. QED  BY <1>1, <2>1 DEF Teams, TeamId, TeamAll
<1>3. TeamMembers(p, i) = M /\ TeamGroup(p, i) = G /\ u \in TeamMembers(p, i) /\ M = MembersOf(G)
  BY <1>1, <1>2 DEF TeamMembers, TeamGroup, For
<1>4. ~ Lost(u)
  BY DEF NobodyLost
<1>5. LET r == SlotFor(area, TeamId(ids, i))
      IN  SlotIs(p, ids, i, r) /\ teams[u][r] = EntryOf(p, ids, i, u)
  BY <1>1, <1>2, <1>3, <1>4, TeamHasSlot
<1>6. SlotIs(p, ids, i, s) /\ SlotFor(area, t) = s /\ teams[u][s] = EntryOf(p, ids, i, u)
  BY <1>2, <1>5 DEF SlotIs
<1>7. SlotsOf(area, t) = {s} /\ area.teams[s].barr.procs = Cardinality(M)
  BY <1>2, <1>3, <1>6 DEF SlotIs
<1>8. teams[u][s] = [id |-> t, valid |-> TRUE, myid |-> Rank(M, u), group |-> G]
  BY <1>2, <1>3, <1>6 DEF EntryOf
<1>9. G.nmem = Cardinality(M) /\ \A v \in M : G.g2l[v] = Rank(M, v) /\ G.l2g[Rank(M, v)] = v
  <2>1. GroupOK(G)
    BY <1>1, <1>2, ProgramKinds
  <2>. QED  BY <1>3, <2>1, GroupOKType
<1>10. Entry(u, t).group = G
  BY <1>6, <1>8 DEF Entry
<1>11. /\ SizeOf(u, t) = Cardinality(M)
       /\ \A v \in M : G2L(u, t, v) = Rank(M, v) /\ L2G(u, t, G2L(u, t, v)) = v
  BY <1>2, <1>9, <1>10 DEF SizeOf, G2L, L2G
<1>12. ASSUME NEW v \in Units, NEW j \in DOMAIN p, p[j].kind = "create", handle[v][j] # NoTeam
       PROVE  (handle[v][j] = t) <=> (i = j)
  <2>1. handle[v][j] = ids[j] /\ ids[j] # NoTeam
    BY <1>12, HandleIs
  <2>2. IdsOK(p, ids, left)
    BY DEF Coupled
  <2>. QED  BY <1>1, <1>12, <2>1, <2>2 DEF IdsOK
<1>13. prog = p /\ Ops = DOMAIN p /\ prog[i].group = G
  BY ProgIs DEF Ops
<1>14. \A v \in Units, j \in Ops :
          (prog[j].kind = "create" /\ handle[v][j] # NoTeam) => ((handle[v][j] = t) <=> (i = j))
  BY <1>12, <1>13
<1>. QED  BY <1>3, <1>7, <1>8, <1>11, <1>13, <1>14 DEF Resolves

\* The look-ups by id in dart_teams_impl.c, up to the first unit that takes
\* another team for a new one: as long as a unit may use a team, its id is in
\* exactly one slot of the area, which has the barrier of the team, and the
\* unit's table entry of that slot is the team, though slots are given back by
\* dart_shmem_team_delete and taken again.
THEOREM TeamsResolveAlways == Spec => []TeamsResolve
<1>1. IInv => TeamsResolve
  <2>1. SUFFICES ASSUME IInv, NobodyLost, NEW u \in Units, NEW i \in Ops, MayUse(u, i) PROVE Resolves(u, i)
    BY DEF TeamsResolve, Resolves
  <2>2. PICK p, ids, left, over : Coupled(p, ids, left, over)
    BY <2>1 DEF IInv
  <2>3. i \in DOMAIN p
    BY <2>1, <2>2, ProgIs DEF Ops
  <2>. QED  BY ONLY <2>1, <2>2, <2>3, TeamResolves, u \in Units
<1>. QED  BY <1>1, TeamsInvariant, PTL

\* Up to then, dart_shmem_team_delete gives a slot back after the second
\* barrier of dart_team_destroy, while others may still be leaving it: the slot
\* is never taken away under a unit that sleeps in its barrier or is about to
\* enter it.
THEOREM SleepersBelongAlways == Spec => []SleepersBelong
<1>1. IInv => SleepersBelong
  <2>. SUFFICES ASSUME NEW p, NEW ids, NEW left, NEW over, Coupled(p, ids, left, over),
                       NEW u \in Units, ValidSlot(inside[u]), u \notin area.teams[inside[u]].barr.woken
                PROVE  LET s == inside[u]
                       IN  /\ area.teams[s].inuse /\ area.teams[s].id = T(u)
                           /\ (Head(todo[u]).do = "wait") <=> (u \in area.teams[s].barr.asleep)
    BY DEF IInv, SleepersBelong
  <2>. PICK s : s = inside[u]
    OBVIOUS
  <2>1. s \in TeamSlots /\ s # NoSlot /\ InsideOK(u)
    BY SizesAssumption DEF ValidSlot, TeamSlots, NoSlot, Coupled
  <2>2. area.teams[s].inuse /\ area.teams[s].id = T(u)
    BY <2>1 DEF InsideOK
  <2>3. todo[u] # <<>>
    BY <2>1 DEF InsideOK, Waiting, Entering
  <2>4. (Head(todo[u]).do = "wait") <=> (u \in area.teams[s].barr.asleep)
    BY <2>1, <2>3 DEF InsideOK, Waiting
  <2>. QED  BY <2>2, <2>4
<1>. QED  BY <1>1, TeamsInvariant, PTL

\* Up to then, of dart_team_lock_init and dart_team_lock_free: the members agree
\* on the slot of a lock, and two locks of which nobody has begun to free either
\* have different slots, both marked.
THEOREM LocksApartAlways == Spec => []LocksApart
<1>1. IInv => LocksApart
  <2>. SUFFICES ASSUME NEW p, NEW ids, NEW left, NEW over, Coupled(p, ids, left, over),
                       NEW u \in Units, NEW v \in Units, NEW i \in DOMAIN p, NEW j \in DOMAIN p,
                       HasLock(u, i), HasLock(v, j), LockAlive(i), LockAlive(j)
                PROVE  /\ (handle[u][i] = handle[v][j]) <=> (i = j)
                       /\ area.locks[handle[u][i]].inuse
    BY ProgIs DEF IInv, LocksApart, Ops
  <2>1. WellFormed(p) /\ prog = p /\ LocksOK(p, ids, left)
    BY ProgIs DEF Coupled
  <2>2. ASSUME NEW w \in Units, NEW k \in DOMAIN p, HasLock(w, k)
        PROVE  p[k].kind = "lockinit" /\ handle[w][k] = ids[k] /\ ids[k] # NoTeam
    <3>1. p[k].kind = "lockinit" /\ handle[w][k] # NoTeam
      BY <2>1, <2>2 DEF HasLock, NoLock, NoTeam
    <3>. QED  BY <3>1, HandleIs
  <2>3. ASSUME NEW k \in DOMAIN p, p[k].kind = "lockinit", LockAlive(k)
        PROVE  ~ Dropped(p, left, k)
    <3>. SUFFICES ASSUME NEW d \in DOMAIN p, p[d].kind = "lockfree", p[d].arg = k, left[Maker(p, k)][d] < 2 PROVE FALSE
      BY DEF Dropped
    <3>. PICK m : m = Maker(p, k)
      OBVIOUS
    <3>1. m \in Units /\ m \in Mem(p, k) /\ m \in Mem(p, d) /\ Rank(Mem(p, d), m) = 0
      <4>1. Mem(p, d) = Mem(p, k) /\ For(p, k) = Mem(p, d)
        BY <2>1, ProgramFree
      <4>. QED  BY <2>1, <4>1, ProgramTeams
    <3>2. d > pos[m] \/ (d = pos[m] /\ ~ Started(m))
      BY <2>1, <2>3, <3>1 DEF LockAlive, Members, Ops, Mem
    <3>3. left[m][d] = Size(p, m, d)
      BY <3>1, <3>2, LeftIs
    <3>4. Size(p, m, d) = 2
      <4>1. SizeOK(p, m, d)
        BY <2>1, <3>1, CallIs DEF CallOK
      <4>. QED  BY <3>1, <4>1 DEF SizeOK
    <3>5. left[m][d] = 2 /\ left[m][d] < 2
      BY <3>3, <3>4
    <3>. QED  BY ONLY <3>5
  <2>4. /\ p[i].kind = "lockinit" /\ handle[u][i] = ids[i] /\ ids[i] # NoTeam /\ ~ Dropped(p, left, i)
        /\ p[j].kind = "lockinit" /\ handle[v][j] = ids[j] /\ ids[j] # NoTeam /\ ~ Dropped(p, left, j)
    BY <2>2, <2>3
  <2>5. area.locks[ids[i]].inuse /\ (ids[i] = ids[j] => i = j)
    BY <2>1, <2>4 DEF LocksOK
  <2>. QED  BY <2>4, <2>5
<1>. QED  BY <1>1, TeamsInvariant, PTL

\* The FIFOs a unit unlinks are empty.
LEMMA NothingLeft ==
    ASSUME NEW p, NEW ids, NEW left, NEW over, Coupled(p, ids, left, over),
           NEW u \in Units, At(u, "unlink"), NEW name \in PipesTo(u) \cap DOMAIN pipes
    PROVE  pipes[name].queue = <<>>
<1>. PICK i, c, l : i = pos[u] /\ c = p[pos[u]].on /\ l = Len(todo[u])
  OBVIOUS
<1>1. Standing(p, ids, left, u, i, c, l) /\ StepAt(p, u, i, l).do = "unlink"
  BY AtStands
<1>2. /\ WellFormed(p) /\ TypesOK(p) /\ c = p[i].on /\ i \in DOMAIN p /\ u \in Mem(p, i)
      /\ Mem(p, i) = TeamMembers(p, c) /\ c \in Teams(p, ids) /\ T(u) = TeamId(ids, c)
      /\ Entry(u, T(u)) = EntryOf(p, ids, c, u) /\ SizeOf(u, T(u)) = Cardinality(Mem(p, i)) /\ Live(p, ids, i) /\ i = pos[u]
  BY <1>1, ProgIs DEF Standing
<1>3. p[i].kind = "destroy" /\ p[i].on # 0 /\ IsTeam(Mem(p, i))
  <2>1. MakingAt(p, u, i, l)
    BY <1>1, MakingIs
  <2>2. p[i].kind = "destroy"
    BY <1>1, <2>1 DEF MakingAt
  <2>. QED  BY <1>2, <2>2, DestroyPlaces, ProgramTeams
<1>4. PICK from \in 0 .. Cardinality(Mem(p, i)) - 1 : name = <<TeamId(ids, c), from, Rank(TeamMembers(p, c), u)>>
  BY <1>2 DEF PipesTo, PipeNames, EntryOf
<1>5. PICK v \in Mem(p, i) : Rank(Mem(p, i), v) = from
  BY <1>3, <1>4, RankOnto DEF IsTeam
<1>6. name = Pipe(p, ids, c, v, u)
  BY <1>2, <1>4, <1>5 DEF Pipe
<1>. PICK q : q = pipes[name].queue
  OBVIOUS
<1>7. QueueOK(p, ids, left, c, v, u, q) /\ q \in Seq(Message)
  <2>1. QueuesOK(p, ids, left)
    BY DEF Coupled
  <2>2. QueueOK(p, ids, left, c, v, u, q)
    BY <1>2, <1>6, <2>1 DEF QueuesOK
  <2>. QED  BY <1>2, <2>2 DEF TypesOK
<1>8. ASSUME q # <<>> PROVE FALSE
  <2>. PICK j : j = q[1].op
    OBVIOUS
  <2>1. 1 \in DOMAIN q
    BY <1>7, <1>8
  <2>2. j \in DOMAIN p /\ p[j].on = c /\ Sent(p, left, v, j, u) /\ ~ Got(p, left, u, j, v)
    BY <1>7, <2>1 DEF QueueOK
  <2>3. j <= i /\ v \in Mem(p, j) /\ u \in Mem(p, j)
    BY <1>2, <1>3, <1>5, <2>2, ProgramOn DEF Mem
  <2>4. Pair(p, j, v, u)
    BY <1>2, <2>2, <2>3, TalkPairs DEF Sent
  <2>5. j # i
    BY <1>3, <2>4, Zenon DEF Pair
  <2>6. left[u][j] = 0
    <3>1. Live(p, ids, j)
      BY <1>2, <2>2 DEF Live
    <3>2. j \in Nat /\ i \in Nat
      BY <1>2, <2>2, ProgramDomain
    <3>3. j < pos[u]
      BY <1>2, <2>3, <2>5, <3>2
    <3>. QED  BY <2>2, <2>3, <3>1, <3>3, LeftIs
  <2>7. Got(p, left, u, j, v)
    <3>1. PICK k \in 1 .. Size(p, u, j) : ReceivesFrom(p, u, j, k, v)
      BY <1>2, <2>2, <2>3, <2>4, TalkPairs
    <3>2. left[u][j] < k
      BY <2>6, <3>1
    <3>. QED  BY <3>1, <3>2 DEF Got
  <2>. QED  BY <2>2, <2>7
<1>. QED  BY <1>8

\* Up to then, of the FIFOs of shmem_p2p_sysv.c: whoever is to send or receive
\* finds its FIFO, what is read was sent in the operation that reads it,
\* although scatter has no barrier at either end, and a FIFO is empty when it
\* is unlinked.
THEOREM MessagesMatchAlways == Spec => []MessagesMatch
<1>1. IInv => MessagesMatch
  <2>. SUFFICES ASSUME NEW p, NEW ids, NEW left, NEW over, Coupled(p, ids, left, over), NEW u \in Units
                PROVE  /\ At(u, "unlink") => \A name \in PipesTo(u) \cap DOMAIN pipes : pipes[name].queue = <<>>
                       /\ At(u, "send") => PipeTo(u, Head(todo[u]).peer) \in DOMAIN pipes
                       /\ At(u, "recv") =>
                              LET name == PipeFrom(u, Head(todo[u]).peer)
                              IN  /\ name \in DOMAIN pipes
                                  /\ pipes[name].queue # <<>> => Head(pipes[name].queue).op = pos[u]
    BY DEF IInv, MessagesMatch
  <2>. PICK i, c, l : i = pos[u] /\ c = p[pos[u]].on /\ l = Len(todo[u])
    OBVIOUS
  <2>1. At(u, "unlink") => \A name \in PipesTo(u) \cap DOMAIN pipes : pipes[name].queue = <<>>
    BY NothingLeft
  <2>2. ASSUME At(u, "send") PROVE PipeTo(u, Head(todo[u]).peer) \in DOMAIN pipes
    <3>1. Standing(p, ids, left, u, i, c, l) /\ StepAt(p, u, i, l).do = "send"
      BY <2>2, AtStands
    <3>. QED  BY <3>1, SenderFinds
  <2>3. ASSUME At(u, "recv")
        PROVE  LET name == PipeFrom(u, Head(todo[u]).peer)
               IN  /\ name \in DOMAIN pipes
                   /\ pipes[name].queue # <<>> => Head(pipes[name].queue).op = pos[u]
    <3>1. Standing(p, ids, left, u, i, c, l) /\ StepAt(p, u, i, l).do = "recv"
      BY <2>3, AtStands
    <3>2. PICK v \in TeamMembers(p, c) :
               /\ v \in Units /\ v \in Mem(p, i) /\ ReceivesFrom(p, u, i, l, v)
               /\ PipeFrom(u, Head(todo[u]).peer) = Pipe(p, ids, c, v, u)
               /\ Pipe(p, ids, c, v, u) \in DOMAIN pipes
               /\ QueueOK(p, ids, left, c, v, u, pipes[Pipe(p, ids, c, v, u)].queue)
      BY <3>1, ReceiverFinds
    <3>. PICK name, q : name = PipeFrom(u, Head(todo[u]).peer) /\ q = pipes[name].queue
      OBVIOUS
    <3>3. name \in DOMAIN pipes /\ q \in Seq(Message) /\ QueueOK(p, ids, left, c, v, u, q)
      BY <3>2, ProgIs DEF TypesOK
    <3>4. q # <<>> => Head(q).op = i
      <4>1. v \in Units /\ v \in Mem(p, i) /\ ReceivesFrom(p, u, i, l, v) /\ u \in Units
        BY <3>2
      <4>. QED  BY ONLY Coupled(p, ids, left, over), <3>1, <3>3, <4>1, HeadIsOurs
    <3>. QED  BY <3>3, <3>4
  <2>. QED  BY <2>1, <2>2, <2>3
<1>. QED  BY <1>1, TeamsInvariant, PTL

-----------------------------------------------------------------------------
(* Programs that make fewer teams than there are slots.                    *)

\* Every program makes few teams, destroyed ones counted.
FewTeams == \A p \in Programs : Few(p)

\* What is left of a call that goes on is not the mark of a lost unit.
LEMMA RestNotLost ==
    ASSUME NEW p, NEW ids, NEW left, NEW over, Coupled(p, ids, left, over), NEW u \in Units, todo[u] # <<>>
    PROVE  /\ Tail(todo[u]) # Step("lost")
           /\ \A do \in {"await", "wait"} : Step(do) \o Tail(todo[u]) # Step("lost")
<1>. PICK s, q : s = todo[u] /\ q = Step("lost")
  OBVIOUS
<1>1. s \in Seq(StepRec) /\ s # <<>> /\ \A k \in 1 .. Len(s) - 1 : LeftOf(s, k).do \notin {"await", "wait", "lost"}
  BY Underway DEF Coupled, PlaceOK
<1>2. Len(q) = 1 /\ LeftOf(q, 1).do = "lost" /\ Head(q).do = "lost"
  <2>1. "lost" \in StepNames
    BY DEF StepNames
  <2>2. Head(q).do = "lost"
    BY DEF Step
  <2>. QED  BY <2>1, <2>2, TalkStep
<1>3. ASSUME Tail(s) = q PROVE FALSE
  <2>. PICK t : t = Tail(s)
    OBVIOUS
  <2>. PICK n : n = Len(s)
    OBVIOUS
  <2>1. /\ Len(t) = n - 1 /\ n \in Nat
        /\ \A k \in 1 .. Len(s) - 1 : LeftOf(t, k) = LeftOf(s, k)
    BY <1>1, LeftOfTail
  <2>2. t = q /\ Len(t) = 1
    BY <1>2, <1>3
  <2>3. 1 \in 1 .. n - 1
    <3>. PICK m : m = Len(t)
      OBVIOUS
    <3>1. m = n - 1 /\ n \in Nat /\ m = 1
      BY <2>1, <2>2
    <3>. QED  BY ONLY <3>1
  <2>4. LeftOf(s, 1).do # "lost" /\ LeftOf(t, 1) = LeftOf(s, 1)
    BY <1>1, <2>1, <2>3
  <2>. QED  BY ONLY <1>2, <2>2, <2>4
<1>4. ASSUME NEW do \in {"await", "wait"} PROVE Step(do) \o Tail(s) # q
  <2>1. do \in StepNames /\ do # "lost"
    BY DEF StepNames
  <2>2. Head(Step(do) \o Tail(s)).do = do
    BY <1>1, <2>1, LeftOfReplaced
  <2>. QED  BY ONLY <1>2, <2>1, <2>2
<1>. QED  BY <1>3, <1>4

\* A team that was to be made has its slot when its members come to it.
LEMMA NotMisled ==
    ASSUME NEW p, NEW ids, NEW left, NEW over, Coupled(p, ids, left, over), Few(p), NEW u \in Units, At(u, "init")
    PROVE  ~ Misled(u)
<1>. PICK i, c, l : i = pos[u] /\ c = p[pos[u]].on /\ l = Len(todo[u])
  OBVIOUS
<1>1. Standing(p, ids, left, u, i, c, l) /\ StepAt(p, u, i, l).do = "init"
  BY AtStands
<1>2. /\ p[i].kind = "create" /\ u \in For(p, i) /\ l = 2 /\ left[u][i] = l /\ i \in DOMAIN p /\ Live(p, ids, i)
      /\ ids[i] # NoTeam => buf[u].slot # NoSlot
  <2>1. p[i].kind = "create" /\ u \in For(p, i) /\ l = 2 /\ (ids[i] # NoTeam => buf[u].slot # NoSlot)
    <3>1. /\ p[i].kind = "create" /\ u \in For(p, i) /\ l = 2
          /\ ids[i] # NoTeam => /\ buf[u].id = ids[i] /\ ids[i] \in 1 .. Len(p) /\ i \in Teams(p, ids) /\ i # 0
                               /\ ~ Deleted(p, left, i) /\ buf[u].slot # NoSlot
      BY ONLY Coupled(p, ids, left, over), u \in Units, <1>1, InitStands
    <3>. QED  BY <3>1
  <2>2. left[u][i] = l /\ i \in DOMAIN p /\ Live(p, ids, i)
    BY <1>1 DEF Standing
  <2>. QED  BY <2>1, <2>2
<1>3. left[Maker(p, i)][i] < MakeLeft(p, i)
  <2>1. SUFFICES ASSUME Unmade(p, ids, left, i) PROVE FALSE
    BY <1>2 DEF Unmade
  <2>2. left[u][i] \in Nat /\ left[u][i] >= 3
    BY <1>2, <2>1, NotTold
  <2>. QED  BY <1>2, <2>2
<1>4. ids[i] # NoTeam
  BY <1>2, <1>3 DEF Coupled, CountOK
<1>. QED  BY <1>2, <1>4 DEF Misled

\* With few teams no unit gets lost.
LEMMA NobodyGetsLost ==
    ASSUME NEW p, NEW ids, NEW left, NEW over, Coupled(p, ids, left, over), Few(p), NobodyLost,
           NEW u \in Units, UnitStep(u)
    PROVE  NobodyLost'
<1>. PICK s, q : s = todo[u] /\ q = Step("lost")
  OBVIOUS
<1>1. todo \in [Units -> Seq(StepRec)] /\ \A w \in Units : todo[w] # q
  BY ProgIs DEF TypesOK, NobodyLost, Lost
<1>2. SUFFICES ASSUME NEW r, todo' = [todo EXCEPT ![u] = r] PROVE r # q
  <2>1. \E r : todo' = [todo EXCEPT ![u] = r]
    <3>1. [todo EXCEPT ![u] = todo[u]] = todo
      BY <1>1
    <3>. QED  BY <3>1 DEF UnitStep, BarrierStep, FifoStep, TeamStep, LockStep, Begin, Return, FindBarrier, Arrive,
           Leave, OpenToRead, Recv, SendTo, NewTeamSlot, NewTeamNoSlot, InitTeam, InitTeamNotFound, InitMisled,
           UnlinkPipes, DeleteTeam, TakeLockSlot, SetLock, DropLockSlot, AcquireLock, GetLock, TryAcquireLock,
           ReleaseLock, Advance
  <2>2. PICK r : todo' = [todo EXCEPT ![u] = r]
    BY <2>1
  <2>3. r # q
    BY <1>2, <2>2
  <2>. QED  BY <1>1, <2>2, <2>3 DEF NobodyLost, Lost
<1>3. r = todo'[u]
  BY <1>1, <1>2
<1>4. ASSUME todo' = todo PROVE r # q
  BY <1>1, <1>3, <1>4
<1>5. ASSUME s # <<>>, r = Tail(s) \/ \E do \in {"await", "wait"} : r = Step(do) \o Tail(s) PROVE r # q
  BY <1>5, RestNotLost
<1>6. ASSUME s # <<>>, Advance(u) PROVE r # q
  <2>1. r = Tail(s)
    BY <1>1, <1>3, <1>6 DEF Advance
  <2>. QED  BY <1>5, <1>6, <2>1
<1>7. CASE Begin(u)
  <2>1. r = IF Valid(u, T(u)) THEN StepsOf(u, pos[u]) ELSE <<>>
    BY <1>1, <1>3, <1>7 DEF Begin
  <2>2. /\ u \in Mem(p, pos[u]) /\ pos[u] \in DOMAIN p /\ ~ Lost(u) /\ WellFormed(p)
    BY <1>7, ProgIs DEF Begin, Ops, Coupled, PlaceOK, NobodyLost
  <2>3. ASSUME r # <<>> PROVE r = Script(p, u, pos[u])
    <3>1. Live(p, ids, pos[u])
      <4>1. Coupled(p, ids, left, over)' /\ todo'[u] = r /\ pos' = pos
        BY <1>3, <1>7, BeginStep DEF Begin
      <4>. QED  BY <2>3, <4>1 DEF Coupled, PlaceOK
    <3>2. ~ Woken(u) /\ ~ Started(u)
      BY <1>7 DEF Begin, Idle, Woken
    <3>3. StepsOf(u, pos[u]) = Script(p, u, pos[u])
      BY <2>2, <3>1, <3>2, LookUp
    <3>. QED  BY <2>1, <2>3, <3>3
  <2>4. q # <<>> /\ Head(q).do = "lost"
    BY DEF Step
  <2>5. Script(p, u, pos[u]) # <<>> => Head(Script(p, u, pos[u])).do # "lost"
    BY <2>2, ScriptRemains
  <2>. QED  BY ONLY <2>3, <2>4, <2>5
<1>8. CASE Return(u)
  BY <1>4, <1>8 DEF Return
<1>9. CASE FindBarrier(u)
  <2>1. s # <<>> /\ (r = Tail(s) \/ r = Step("await") \o Tail(s))
    BY <1>1, <1>3, <1>9 DEF FindBarrier, At
  <2>. QED  BY <1>5, <2>1
<1>10. CASE Arrive(u)
  <2>1. s # <<>>
    <3>1. inside[u] # NoSlot
      BY <1>10, SizesAssumption DEF Arrive, ValidSlot, TeamSlots, NoSlot
    <3>. QED  BY <3>1 DEF Coupled, InsideOK, Waiting, Entering
  <2>2. r = <<>> \o Tail(s) \/ r = Step("wait") \o Tail(s)
    BY <1>1, <1>3, <1>10 DEF Arrive
  <2>3. <<>> \o Tail(s) = Tail(s)
    BY <1>1, <2>1
  <2>. QED  BY <1>5, <2>1, <2>2, <2>3
<1>11. CASE Leave(u)
  <2>1. s # <<>>
    <3>1. inside[u] # NoSlot
      BY <1>11, SizesAssumption DEF Leave, ValidSlot, TeamSlots, NoSlot
    <3>. QED  BY <3>1 DEF Coupled, InsideOK, Waiting, Entering
  <2>. QED  BY <1>6, <1>11, <2>1 DEF Leave
<1>12. CASE FifoStep(u)
  <2>1. (s # <<>> /\ Advance(u)) \/ todo' = todo
    BY <1>12 DEF FifoStep, OpenToRead, Recv, SendTo, At
  <2>. QED  BY <1>4, <1>6, <2>1
<1>13. CASE TeamStep(u)
  <2>1. ~ InitMisled(u)
    BY NotMisled DEF InitMisled
  <2>2. s # <<>> /\ Advance(u)
    BY <1>13, <2>1 DEF TeamStep, NewTeamSlot, NewTeamNoSlot, InitTeam, InitTeamNotFound, UnlinkPipes, DeleteTeam, At
  <2>. QED  BY <1>6, <2>2
<1>14. CASE LockStep(u)
  <2>1. (s # <<>> /\ Advance(u)) \/ todo' = todo
    BY <1>14 DEF LockStep, TakeLockSlot, SetLock, DropLockSlot, AcquireLock, GetLock, TryAcquireLock, ReleaseLock, At
  <2>. QED  BY <1>4, <1>6, <2>1
<1>. QED  BY <1>7, <1>8, <1>9, <1>10, <1>11, <1>12, <1>13, <1>14 DEF UnitStep, BarrierStep

\* In programs that make fewer teams than there are slots, whatever the unset id
\* reads as, no unit ever takes another team for the one it was to make, and the
\* look-ups by id in dart_teams_impl.c find what they should without exception.
THEOREM TeamsResolveWithSlots == FewTeams => (Spec => [](NobodyLost /\ TeamsResolve))
<1>. SUFFICES ASSUME FewTeams PROVE Spec => [](NobodyLost /\ TeamsResolve)
  OBVIOUS
<1>1. Init => NobodyLost
  <2>1. Init => \A u \in Units : todo[u] = <<>>
    BY DEF Init
  <2>2. <<>> # Step("lost")
    BY DEF Step
  <2>. QED  BY <2>1, <2>2 DEF NobodyLost, Lost
<1>2. IInv /\ NobodyLost /\ [Next]_vars => NobodyLost'
  <2>. SUFFICES ASSUME IInv, NobodyLost, [Next]_vars PROVE NobodyLost'
    OBVIOUS
  <2>1. PICK p, ids, left, over : Coupled(p, ids, left, over)
    BY DEF IInv
  <2>2. Few(p)
    BY <2>1, ProgIs DEF FewTeams
  <2>3. CASE UNCHANGED vars
    BY <2>3 DEF vars, NobodyLost, Lost
  <2>4. CASE Next
    BY <2>1, <2>2, <2>4, NobodyGetsLost DEF Next
  <2>. QED  BY <2>3, <2>4
<1>. QED  BY <1>1, <1>2, TeamsInvariant, TeamsResolveAlways, PTL DEF Spec
=============================================================================
