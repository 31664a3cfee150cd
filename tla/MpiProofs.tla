----------------------------- MODULE MpiProofs ------------------------------
(***************************************************************************)
(* Proofs about the MPI runtime: MCSLock and MCSLockFifo, for any set of   *)
(* units and locks, and OneSided, for any number of operations, targets and*)
(* windows.                                                                *)
(*                                                                         *)
(* The invariant of MCSLock gives its safety.  FifoInv, next to it, says   *)
(* that the recorded queue is in order; each step either leaves the queues *)
(* and the tokens alone or is a step of FifoLock, so that MCSLockFifo      *)
(* implements FifoLock.                                                    *)
(***************************************************************************)
EXTENDS MCSLockFifo, OneSided, SequenceTheorems, TLAPS

(* The lock.                                                               *)

\* dart_team_lock_init, entry: unit 0 clears a tail nobody has used yet.
LEMMA EnterInitStep ==
    ASSUME IInv, NEW l \in Locks, NEW u \in Units, EnterInit(l, u)
    PROVE  IInv'
<1>. USE UnitsAssumption DEF IInv
<1>1. TypeOK'
  BY DEF EnterInit, Word, PCs, TypeOK
<1>2. LifeInv'
  BY DEF EnterInit, MayInit, Queued, TypeOK, LifeInv
<1>3. TokenInv'
  <2>1. \A k \in Locks, v \in Units : Token(k, v)' <=> Token(k, v)
    BY DEF EnterInit, MayInit, Queued, Notified, Owns, Token
  <2>2. ASSUME u = Root, NEW v \in Units
        PROVE  ~ Token(l, v)
    <3>1. life[l][v] # "ready"
      BY <2>2 DEF EnterInit, MayInit, LifeInv
    <3>. QED  BY <3>1 DEF LifeInv, Token, Owns
  <2>3. \A k \in Locks : tail'[k] = NoUnit => tail[k] = NoUnit \/ (k = l /\ u = Root)
    BY DEF EnterInit
  <2>. QED  BY <2>1, <2>2, <2>3 DEF TokenInv
<1>4. TailInv'
  BY DEF EnterInit, MayInit, Holds, Queued, TailInv
<1>5. ReleaseInv'
  BY DEF EnterInit, MayInit, ReleaseInv
<1>6. QueuedInv'
  BY DEF EnterInit, MayInit, Queued, QueuedInv
<1>7. PendingInv'
  BY DEF EnterInit, MayInit, Queued, Notified, Owns, Pending, LifeInv,
     PendingInv
<1>8. ListInv'
  BY DEF EnterInit, MayInit, Queued, Notified, Pending, Sent, ListInv
<1>9. MessageInv'
  BY DEF EnterInit, MayInit, MessageInv
<1>. QED  BY <1>1, <1>2, <1>3, <1>4, <1>5, <1>6, <1>7, <1>8, <1>9

\* dart_team_lock_init: the pointer to the tail arrives.
LEMMA ReceiveTailStep ==
    ASSUME IInv, NEW u \in Units, ReceiveTail(u)
    PROVE  IInv'
<1>. USE UnitsAssumption DEF IInv
<1>1. TypeOK'
  BY DEF ReceiveTail, PCs, TypeOK
<1>2. LifeInv'
  BY DEF ReceiveTail, Queued, TypeOK, LifeInv
<1>3. TokenInv'
  BY DEF ReceiveTail, Queued, Notified, Owns, Token, TokenInv
<1>4. TailInv'
  BY DEF ReceiveTail, Holds, Queued, TailInv
<1>5. ReleaseInv'
  BY DEF ReceiveTail, ReleaseInv
<1>6. QueuedInv'
  BY DEF ReceiveTail, Queued, LifeInv, QueuedInv
<1>7. PendingInv'
  BY DEF ReceiveTail, Queued, Notified, Owns, Pending, PendingInv
<1>8. ListInv'
  BY DEF ReceiveTail, Queued, Notified, Pending, Sent, ListInv
<1>9. MessageInv'
  BY DEF ReceiveTail, MessageInv
<1>. QED  BY <1>1, <1>2, <1>3, <1>4, <1>5, <1>6, <1>7, <1>8, <1>9

\* dart_team_lock_init: a new list word holds anything, but its unit is not
\* ready, so no property reads it.
LEMMA AllocateListStep ==
    ASSUME IInv, NEW u \in Units, AllocateList(u)
    PROVE  IInv'
<1>. USE UnitsAssumption DEF IInv
<1>1. TypeOK'
  BY DEF AllocateList, PCs, TypeOK
<1>2. LifeInv'
  BY DEF AllocateList, Queued, LifeInv
<1>3. TokenInv'
  BY DEF AllocateList, Queued, Notified, Owns, Token, TokenInv
<1>4. TailInv'
  BY DEF AllocateList, Holds, Queued, TailInv
<1>5. ReleaseInv'
  BY DEF AllocateList, ReleaseInv
<1>6. QueuedInv'
  BY DEF AllocateList, Queued, QueuedInv
<1>7. PendingInv'
  BY DEF AllocateList, Queued, Notified, Owns, Pending, LifeInv, PendingInv
<1>8. ListInv'
  BY DEF AllocateList, Queued, Notified, Pending, Sent, LifeInv, ListInv
<1>9. MessageInv'
  BY DEF AllocateList, MessageInv
<1>. QED  BY <1>1, <1>2, <1>3, <1>4, <1>5, <1>6, <1>7, <1>8, <1>9

\* dart_team_lock_init: the unit clears its own word and is ready.
LEMMA FinishInitStep ==
    ASSUME IInv, NEW u \in Units, FinishInit(u)
    PROVE  IInv'
<1>. USE UnitsAssumption DEF IInv
<1>1. TypeOK'
  BY DEF FinishInit, Word, PCs, TypeOK
<1>2. LifeInv'
  BY DEF FinishInit, Queued, TypeOK, LifeInv
<1>3. TokenInv'
  BY DEF FinishInit, Queued, Notified, Owns, Token, TokenInv
<1>4. TailInv'
  BY DEF FinishInit, Holds, Queued, TailInv
<1>5. ReleaseInv'
  BY DEF FinishInit, ReleaseInv
<1>6. QueuedInv'
  BY DEF FinishInit, Queued, QueuedInv
<1>7. PendingInv'
  BY DEF FinishInit, Queued, Notified, Owns, Pending, LifeInv, PendingInv
<1>8. ListInv'
  BY DEF FinishInit, Queued, Notified, Pending, Sent, TypeOK, ListInv
<1>9. MessageInv'
  BY DEF FinishInit, MessageInv
<1>. QED  BY <1>1, <1>2, <1>3, <1>4, <1>5, <1>6, <1>7, <1>8, <1>9

\* dart_lock_acquire on a free lock: the caller takes the only token.
LEMMA AcquireFreeStep ==
    ASSUME IInv, NEW l \in Locks, NEW u \in Units, AcquireFree(l, u)
    PROVE  IInv'
<1>. USE UnitsAssumption DEF IInv
<1>1. TypeOK'
  BY DEF AcquireFree, Word, TypeOK
<1>2. LifeInv'
  BY DEF AcquireFree, MayRequest, Queued, LifeInv
<1>3. TokenInv'
  BY DEF AcquireFree, Queued, Notified, Owns, Token, TypeOK, TokenInv
<1>4. TailInv'
  BY DEF AcquireFree, MayRequest, Holds, Queued, TypeOK, TailInv
<1>5. ReleaseInv'
  BY DEF AcquireFree, ReleaseInv
<1>6. QueuedInv'
  BY DEF AcquireFree, MayRequest, Queued, QueuedInv
<1>7. PendingInv'
  BY DEF AcquireFree, MayRequest, Queued, Notified, Owns, Pending, PendingInv
<1>8. ListInv'
  BY DEF AcquireFree, Queued, Notified, Pending, Sent, ListInv
<1>9. MessageInv'
  BY DEF AcquireFree, MessageInv
<1>. QED  BY <1>1, <1>2, <1>3, <1>4, <1>5, <1>6, <1>7, <1>8, <1>9

\* dart_lock_acquire behind another unit: the caller becomes pending behind
\* the old tail, which has no other successor.
LEMMA AcquireQueuedStep ==
    ASSUME IInv, NEW l \in Locks, NEW u \in Units, AcquireQueued(l, u)
    PROVE  IInv'
<1>. USE UnitsAssumption DEF IInv
<1>. DEFINE p == tail[l]
<1>a. /\ p \in Units \ {u}
      /\ ~ Sent(l, p)
      /\ life[l][p] = "ready"
      /\ Queued(l, p) \/ Owns(l, p)
  BY DEF AcquireQueued, MayRequest, Holds, Queued, Owns, Sent, Word, TypeOK,
     LifeInv, TailInv
<1>b. ASSUME NEW v \in Units, Pending(l, v)
      PROVE  pred[v] # u /\ pred[v] # p
  <2>1. tail[l] # pred[v] /\ (Queued(l, pred[v]) \/ Owns(l, pred[v]))
    BY <1>b DEF PendingInv
  <2>. QED  BY <2>1 DEF AcquireQueued, MayRequest, Queued, Owns
<1>c. list[l][p] = NoUnit
  <2>. SUFFICES ASSUME list[l][p] # NoUnit
                PROVE  FALSE
    OBVIOUS
  <2>1. list[l][p] \in Units
    BY <1>a DEF TypeOK, Word
  <2>2. Pending(l, list[l][p]) /\ pred[list[l][p]] = p
    BY <1>a, <2>1 DEF ListInv
  <2>. QED  BY <1>b, <2>1, <2>2
<1>d. \A k \in Locks, v \in Units :
          Pending(k, v)' <=> Pending(k, v) \/ (k = l /\ v = u)
  BY <1>a DEF AcquireQueued, MayRequest, Queued, Notified, Pending, TypeOK
<1>e. \A k \in Locks, v \in Units :
          (Owns(k, v)' <=> Owns(k, v)) /\ (Token(k, v)' <=> Token(k, v))
  BY <1>a DEF AcquireQueued, MayRequest, Queued, Notified, Owns, Token
<1>f. \A k \in Locks : tail'[k] = (IF k = l THEN u ELSE tail[k])
  BY DEF AcquireQueued, TypeOK
<1>g. \A k \in Locks, v \in Units : Queued(k, v) => Queued(k, v)'
  BY DEF AcquireQueued, MayRequest, Queued
<1>h. pred' = [pred EXCEPT ![u] = p] /\ pred \in [Units -> Word] /\ pc[u] = "idle" /\ pc' = [pc EXCEPT ![u] = "link"] /\ pc \in [Units -> PCs] /\ list' = list
  BY DEF AcquireQueued, MayRequest, TypeOK
<1>1. TypeOK'
  BY DEF AcquireQueued, Word, PCs, TypeOK
<1>2. LifeInv'
  BY DEF AcquireQueued, MayRequest, Queued, TypeOK, LifeInv
<1>3. TokenInv'
  BY <1>e, <1>f, UnitsAssumption DEF TokenInv
<1>4. TailInv'
  BY DEF AcquireQueued, MayRequest, Holds, Queued, TypeOK, TailInv
<1>5. ReleaseInv'
  BY DEF AcquireQueued, MayRequest, ReleaseInv
<1>6. QueuedInv'
  BY DEF AcquireQueued, MayRequest, Holds, Queued, Word, TypeOK, LifeInv,
     TailInv, QueuedInv
<1>7. PendingInv'
  <2>. SUFFICES ASSUME NEW k \in Locks, NEW v \in Units, Pending(k, v)'
                PROVE  /\ (Queued(k, pred[v]) \/ Owns(k, pred[v]))'
                       /\ (tail[k] # pred[v])'
                       /\ (list[k][pred[v]] = (IF pc[v] = "link" THEN NoUnit ELSE v))'
                       /\ \A w \in Units : (Pending(k, w) /\ pred[w] = pred[v])' => w = v
    BY DEF PendingInv
  <2>a. ~ Pending(k, u)
    BY DEF AcquireQueued, MayRequest, Pending, Queued
  <2>1. CASE v = u
    <3>1. k = l /\ pred'[v] = p /\ pc'[v] = "link"
      BY <2>1, <2>a, <1>d, <1>h
    <3>. QED  BY <3>1, <2>1, <2>a, <1>a, <1>b, <1>c, <1>d, <1>e, <1>f, <1>g,
       <1>h
  <2>2. CASE v # u
    <3>1. Pending(k, v) /\ pred'[v] = pred[v] /\ pc'[v] = pc[v]
      BY <2>2, <1>d, <1>h
    <3>2. /\ Queued(k, pred[v]) \/ Owns(k, pred[v])
          /\ tail[k] # pred[v]
          /\ list[k][pred[v]] = (IF pc[v] = "link" THEN NoUnit ELSE v)
          /\ \A w \in Units : Pending(k, w) /\ pred[w] = pred[v] => w = v
      BY <3>1 DEF PendingInv
    <3>3. pred[v] \in Units
      BY <3>1 DEF QueuedInv, Pending
    <3>4. tail'[k] # pred[v]
      BY <3>1, <3>2, <1>b, <1>f
    <3>5. ASSUME NEW w \in Units, Pending(k, w)', pred'[w] = pred[v]
          PROVE  w = v
      <4>1. w # u
        BY <3>1, <3>5, <1>b, <1>d, <1>h, <2>a
      <4>. QED  BY <4>1, <3>2, <3>5, <1>d, <1>h
    <3>6. (Queued(k, pred[v]) \/ Owns(k, pred[v]))'
      BY <3>1, <3>2, <3>3, <1>e, <1>g
    <3>. QED  BY <3>1, <3>2, <3>4, <3>5, <3>6, <1>h
  <2>. QED  BY <2>1, <2>2
<1>8. ListInv'
  <2>. SUFFICES ASSUME NEW k \in Locks, NEW r \in Units, NEW q \in Units,
                       life[k][r] = "ready", list[k][r] = q, ~ Sent(k, r)'
                PROVE  (pc[q] = "wait" /\ Pending(k, q) /\ pred[q] = r)'
    BY DEF AcquireQueued, ListInv
  <2>1. ~ Sent(k, r)
    BY DEF AcquireQueued, MayRequest, Sent
  <2>2. pc[q] = "wait" /\ Pending(k, q) /\ pred[q] = r
    BY <2>1 DEF ListInv
  <2>. QED  BY <2>2, <1>d, <1>h
<1>9. MessageInv'
  BY DEF AcquireQueued, MayRequest, MessageInv
<1>. QED  BY <1>1, <1>2, <1>3, <1>4, <1>5, <1>6, <1>7, <1>8, <1>9

\* dart_lock_acquire: the caller writes itself into the word of its
\* predecessor, which still is -1.
LEMMA LinkPredecessorStep ==
    ASSUME IInv, NEW u \in Units, LinkPredecessor(u)
    PROVE  IInv'
<1>. USE UnitsAssumption DEF IInv
<1>. DEFINE l == cur[u]
            p == pred[u]
<1>a. l \in Locks /\ p \in Units \ {u} /\ life[l][p] = "ready"
  BY DEF LinkPredecessor, TypeOK, Queued, QueuedInv
<1>b. inflight[<<p, u>>] = 0
  <2>1. inflight[<<p, u>>] \in Nat
    BY <1>a DEF TypeOK
  <2>2. ~ (inflight[<<p, u>>] > 0)
    BY <1>a DEF LinkPredecessor, MessageInv
  <2>. QED  BY <2>1, <2>2
<1>c. /\ Queued(l, p) \/ Owns(l, p)
      /\ tail[l] # p
      /\ list[l][p] = NoUnit
      /\ \A v \in Units : Pending(l, v) /\ pred[v] = p => v = u
  <2>1. Pending(l, u) /\ pc[u] = "link"
    BY DEF LinkPredecessor, Pending, Queued, Notified
  <2>. QED  BY <1>a, <2>1 DEF PendingInv
<1>d. \A k \in Locks, v \in Units :
          (Pending(k, v)' <=> Pending(k, v)) /\ (Owns(k, v)' <=> Owns(k, v))
                                           /\ (Queued(k, v)' <=> Queued(k, v))
  <2>1. ~ Notified(u) /\ ~ Notified(u)'
    BY <1>b DEF LinkPredecessor, Notified
  <2>2. \A v \in Units : Notified(v)' <=> Notified(v)
    BY <2>1 DEF LinkPredecessor, Notified
  <2>. QED  BY <2>2 DEF LinkPredecessor, Queued, Pending, Owns
<1>e. \A k \in Locks, v \in Units :
          list'[k][v] = (IF k = l /\ v = p THEN u ELSE list[k][v])
  BY <1>a DEF LinkPredecessor, TypeOK
<1>1. TypeOK'
  BY DEF LinkPredecessor, Word, PCs, TypeOK
<1>2. LifeInv'
  BY DEF LinkPredecessor, Queued, LifeInv
<1>3. TokenInv'
  BY DEF LinkPredecessor, Queued, Notified, Owns, Token, TokenInv, QueuedInv,
     MessageInv
<1>4. TailInv'
  BY DEF LinkPredecessor, Holds, Queued, TailInv
<1>5. ReleaseInv'
  BY <1>a, <1>c, <1>e DEF LinkPredecessor, ReleaseInv
<1>6. QueuedInv'
  BY DEF LinkPredecessor, Queued, QueuedInv
<1>7. PendingInv'
  <2>. SUFFICES ASSUME NEW k \in Locks, NEW v \in Units, Pending(k, v)
                PROVE  /\ (Queued(k, pred[v]) \/ Owns(k, pred[v]))'
                       /\ (tail[k] # pred[v])'
                       /\ (list[k][pred[v]] = (IF pc[v] = "link" THEN NoUnit ELSE v))'
                       /\ \A w \in Units : (Pending(k, w) /\ pred[w] = pred[v])' => w = v
    BY <1>d DEF PendingInv
  <2>1. CASE v = u
    BY <2>1, <1>a, <1>c, <1>d, <1>e DEF LinkPredecessor, TypeOK, Pending, Queued
  <2>2. CASE v # u
    <3>1. ~ (k = l /\ pred[v] = p)
      BY <2>2, <1>c 
    <3>2. pred[v] \in Units
      BY DEF QueuedInv, Pending
    <3>. QED  BY <2>2, <3>1, <3>2, <1>d, <1>e DEF LinkPredecessor, PendingInv
  <2>. QED  BY <2>1, <2>2
<1>8. ListInv'
  BY DEF LinkPredecessor, Queued, Notified, Pending, Sent, TypeOK, ListInv,
     MessageInv
<1>9. MessageInv'
  BY DEF LinkPredecessor, MessageInv
<1>. QED  BY <1>1, <1>2, <1>3, <1>4, <1>5, <1>6, <1>7, <1>8, <1>9

\* dart_lock_acquire: the token of the notified unit becomes that of an owner.
LEMMA ReceiveNotificationStep ==
    ASSUME IInv, NEW u \in Units, ReceiveNotification(u)
    PROVE  IInv'
<1>. USE UnitsAssumption DEF IInv
<1>1. TypeOK'
  <2>1. <<pred[u], u>> \in Units \X Units
    BY DEF ReceiveNotification, Queued, TypeOK, QueuedInv
  <2>2. inflight[<<pred[u], u>>] - 1 \in Nat
    BY <2>1 DEF ReceiveNotification, TypeOK
  <2>. QED  BY <2>1, <2>2 DEF ReceiveNotification, TypeOK, Word, PCs
<1>2. LifeInv'
  BY DEF ReceiveNotification, Queued, LifeInv
<1>3. TokenInv'
  BY DEF ReceiveNotification, Queued, Notified, Owns, Token, TokenInv
<1>4. TailInv'
  BY DEF ReceiveNotification, Holds, Queued, TypeOK, TailInv
<1>5. ReleaseInv'
  BY DEF ReceiveNotification, ReleaseInv
<1>6. QueuedInv'
  BY DEF ReceiveNotification, Queued, TypeOK, QueuedInv
<1>7. PendingInv'
  BY DEF ReceiveNotification, Queued, Notified, Owns, Pending, TypeOK,
     PendingInv
<1>8. ListInv'
  BY DEF ReceiveNotification, Queued, Notified, Pending, Sent, ListInv
<1>9. MessageInv'
  BY DEF ReceiveNotification, TypeOK, MessageInv
<1>. QED  BY <1>1, <1>2, <1>3, <1>4, <1>5, <1>6, <1>7, <1>8, <1>9

\* dart_lock_try_acquire that succeeds: like dart_lock_acquire on a free lock.
LEMMA TryAcquireStep ==
    ASSUME IInv, NEW l \in Locks, NEW u \in Units, TryAcquire(l, u)
    PROVE  IInv'
<1>. USE UnitsAssumption DEF IInv
<1>1. TypeOK'
  BY DEF TryAcquire, Word, TypeOK
<1>2. LifeInv'
  BY DEF TryAcquire, MayRequest, Queued, LifeInv
<1>3. TokenInv'
  BY DEF TryAcquire, Queued, Notified, Owns, Token, TypeOK, TokenInv
<1>4. TailInv'
  BY DEF TryAcquire, MayRequest, Holds, Queued, TypeOK, TailInv
<1>5. ReleaseInv'
  BY DEF TryAcquire, ReleaseInv
<1>6. QueuedInv'
  BY DEF TryAcquire, MayRequest, Queued, QueuedInv
<1>7. PendingInv'
  BY DEF TryAcquire, MayRequest, Queued, Notified, Owns, Pending, PendingInv
<1>8. ListInv'
  BY DEF TryAcquire, Queued, Notified, Pending, Sent, ListInv
<1>9. MessageInv'
  BY DEF TryAcquire, MessageInv
<1>. QED  BY <1>1, <1>2, <1>3, <1>4, <1>5, <1>6, <1>7, <1>8, <1>9

\* dart_lock_release by the unit in the tail: nobody is pending behind it.
LEMMA ReleaseLastStep ==
    ASSUME IInv, NEW l \in Locks, NEW u \in Units, ReleaseLast(l, u)
    PROVE  IInv'
<1>. USE UnitsAssumption DEF IInv
<1>1. TypeOK'
  BY DEF ReleaseLast, Word, TypeOK
<1>2. LifeInv'
  BY DEF ReleaseLast, Queued, LifeInv
<1>3. TokenInv'
  <2>1. Token(l, u)
    BY DEF ReleaseLast, Token, Owns
  <2>2. \A k \in Locks, v \in Units : ~ (k = l /\ v = u) => (Token(k, v)' <=> Token(k, v))
    BY DEF ReleaseLast, Queued, Notified, Owns, Token
  <2>3. ~ Token(l, u)'
    BY DEF ReleaseLast, Notified, Owns, Token, TypeOK
  <2>4. \A k \in Locks : k # l => tail'[k] = tail[k]
    BY DEF ReleaseLast
  <2>5. \A v \in Units : Token(l, v) => v = u
    BY <2>1 DEF TokenInv
  <2>. QED  BY <2>1, <2>2, <2>3, <2>4, <2>5 DEF TokenInv
<1>4. TailInv'
  BY DEF ReleaseLast, Holds, Queued, TypeOK, TailInv
<1>5. ReleaseInv'
  BY DEF ReleaseLast, ReleaseInv
<1>6. QueuedInv'
  BY DEF ReleaseLast, Queued, QueuedInv
<1>7. PendingInv'
  BY DEF ReleaseLast, Queued, Notified, Owns, Pending, QueuedInv, PendingInv
<1>8. ListInv'
  BY DEF ReleaseLast, Queued, Notified, Pending, Sent, ListInv
<1>9. MessageInv'
  BY DEF ReleaseLast, MessageInv
<1>. QED  BY <1>1, <1>2, <1>3, <1>4, <1>5, <1>6, <1>7, <1>8, <1>9

\* dart_lock_release by a unit with a successor: it starts to read its word.
LEMMA ReleaseContendedStep ==
    ASSUME IInv, NEW l \in Locks, NEW u \in Units, ReleaseContended(l, u)
    PROVE  IInv'
<1>. USE UnitsAssumption DEF IInv
<1>1. TypeOK'
  BY DEF ReleaseContended, PCs, TypeOK
<1>2. LifeInv'
  BY DEF ReleaseContended, Queued, LifeInv
<1>3. TokenInv'
  BY DEF ReleaseContended, Queued, Notified, Owns, Token, TokenInv
<1>4. TailInv'
  BY DEF ReleaseContended, Holds, Queued, TypeOK, TailInv
<1>5. ReleaseInv'
  BY DEF ReleaseContended, TypeOK, ReleaseInv
<1>6. QueuedInv'
  BY DEF ReleaseContended, Queued, QueuedInv
<1>7. PendingInv'
  BY DEF ReleaseContended, Queued, Notified, Owns, Pending, PendingInv
<1>8. ListInv'
  BY DEF ReleaseContended, Queued, Notified, Pending, Sent, ListInv
<1>9. MessageInv'
  BY DEF ReleaseContended, MessageInv
<1>. QED  BY <1>1, <1>2, <1>3, <1>4, <1>5, <1>6, <1>7, <1>8, <1>9

\* dart_lock_release: the loop ends with the name of the pending unit.
LEMMA ReadNextStep ==
    ASSUME IInv, NEW u \in Units, ReadNext(u)
    PROVE  IInv'
<1>. USE UnitsAssumption DEF IInv
<1>1. TypeOK'
  BY DEF ReadNext, PCs, TypeOK
<1>2. LifeInv'
  BY DEF ReadNext, Queued, LifeInv
<1>3. TokenInv'
  BY DEF ReadNext, Queued, Notified, Owns, Token, TokenInv
<1>4. TailInv'
  BY DEF ReadNext, Holds, Queued, TailInv
<1>5. ReleaseInv'
  BY DEF ReadNext, TypeOK, ReleaseInv
<1>6. QueuedInv'
  BY DEF ReadNext, Queued, QueuedInv
<1>7. PendingInv'
  BY DEF ReadNext, Queued, Notified, Owns, Pending, PendingInv
<1>8. ListInv'
  BY DEF ReadNext, Queued, Notified, Pending, Sent, ListInv
<1>9. MessageInv'
  BY DEF ReadNext, MessageInv
<1>. QED  BY <1>1, <1>2, <1>3, <1>4, <1>5, <1>6, <1>7, <1>8, <1>9

\* MPI_Send moves the token of the lock from its owner to the unit in the
\* owner's list word, which waits for it and has no other message under way.
LEMMA SendMovesToken ==
    ASSUME IInv, NEW u \in Units, SendNotification(u)
    PROVE  /\ cur[u] \in Locks /\ next[u] \in Units /\ next[u] # u
           /\ isAcquired[cur[u]][u] /\ Owns(cur[u], u)
           /\ pc[next[u]] = "wait" /\ Pending(cur[u], next[u]) /\ pred[next[u]] = u
           /\ \A r, s \in Units : inflight'[<<r, s>>] =
                  (IF r = u /\ s = next[u] THEN 1 ELSE inflight[<<r, s>>])
           /\ \A k \in Locks, v \in Units :
                  /\ Token(k, v)' <=> IF k = cur[u] THEN v = next[u] ELSE Token(k, v)
                  /\ Owns(k, v)' <=> Owns(k, v) /\ ~ (k = cur[u] /\ v = u)
<1>. USE UnitsAssumption DEF IInv
<1>. DEFINE l == cur[u]
            q == next[u]
<1>a. l \in Locks /\ q \in Units /\ isAcquired[l][u] /\ list[l][u] = q
  BY DEF SendNotification, Word, TypeOK, ReleaseInv
<1>b. pc[q] = "wait" /\ Pending(l, q) /\ pred[q] = u /\ q # u
  BY <1>a DEF SendNotification, Sent, LifeInv, ListInv
<1>c. inflight[<<u, q>>] = 0
  BY <1>a, <1>b DEF Notified, Pending, TypeOK
<1>d. \A r, s \in Units : inflight'[<<r, s>>] =
          (IF r = u /\ s = q THEN 1 ELSE inflight[<<r, s>>])
  BY <1>a, <1>c DEF SendNotification, TypeOK
<1>1. \A k \in Locks, v \in Units : Owns(k, v)' <=> Owns(k, v) /\ ~ (k = l /\ v = u)
  BY <1>a, <1>b DEF SendNotification, Owns, TypeOK
<1>2. \A v \in Units : v # u => (Notified(v)' <=> Notified(v) \/ v = q)
  BY <1>a, <1>b, <1>c, <1>d DEF SendNotification, Notified
<1>3. \A v \in Units : Token(l, v) => v = u
  BY <1>a DEF SendNotification, Owns, Token, TokenInv
<1>4. \A k \in Locks, v \in Units : Queued(k, v)' <=> Queued(k, v)
  BY DEF SendNotification, Queued
<1>5. \A k \in Locks, v \in Units :
          Token(k, v)' <=> IF k = l THEN v = q ELSE Token(k, v)
  BY <1>a, <1>b, <1>1, <1>2, <1>3, <1>4 DEF SendNotification, Queued, Token, Pending
<1>. QED  BY <1>a, <1>b, <1>d, <1>1, <1>5 DEF SendNotification, Owns

\* dart_lock_release: the token passes from the owner to the unit it notifies,
\* which waits for this lock.
LEMMA SendNotificationStep ==
    ASSUME IInv, NEW u \in Units, SendNotification(u)
    PROVE  IInv'
<1>. USE UnitsAssumption DEF IInv
<1>. DEFINE l == cur[u]
            q == next[u]
<1>a. l \in Locks /\ q \in Units /\ isAcquired[l][u]
  BY SendMovesToken
<1>b. pc[q] = "wait" /\ Pending(l, q) /\ pred[q] = u /\ q # u
  BY SendMovesToken
<1>d. \A r, s \in Units : inflight'[<<r, s>>] =
          (IF r = u /\ s = q THEN 1 ELSE inflight[<<r, s>>])
  BY SendMovesToken
<1>e. \A k \in Locks, v \in Units :
          Token(k, v)' <=> IF k = l THEN v = q ELSE Token(k, v)
  BY SendMovesToken
<1>1. TypeOK'
  BY <1>a DEF SendNotification, TypeOK, PCs
<1>2. LifeInv'
  BY DEF SendNotification, Queued, LifeInv
<1>3. TokenInv'
  <2>1. Token(l, u)
    BY <1>a DEF SendNotification, Token, Owns
  <2>2. tail' = tail
    BY DEF SendNotification
  <2>. QED  BY <1>a, <1>e, <2>1, <2>2 DEF TokenInv
<1>4. TailInv'
  BY DEF SendNotification, Holds, Queued, TailInv
<1>5. ReleaseInv'
  BY DEF SendNotification, ReleaseInv
<1>6. QueuedInv'
  BY DEF SendNotification, Queued, QueuedInv
<1>7. PendingInv'
  BY DEF SendNotification, Queued, Notified, Owns, Pending, TypeOK, ReleaseInv,
     PendingInv
<1>8. ListInv'
  BY DEF SendNotification, Queued, Notified, Pending, Sent, TypeOK, LifeInv,
     ReleaseInv, ListInv
<1>9. MessageInv'
  <2>. SUFFICES ASSUME NEW r \in Units, NEW s \in Units, inflight'[<<r, s>>] > 0
                PROVE  inflight'[<<r, s>>] = 1 /\ pc'[s] = "wait" /\ pred'[s] = r
    BY DEF MessageInv
  <2>1. CASE r = u /\ s = q
    <3>1. inflight'[<<r, s>>] = 1
      BY <2>1, <1>d
    <3>2. pc'[q] = "wait" /\ pred'[q] = u
      BY <1>a, <1>b DEF SendNotification
    <3>. QED  BY <2>1, <3>1, <3>2
  <2>2. CASE ~ (r = u /\ s = q)
    <3>1. inflight'[<<r, s>>] = inflight[<<r, s>>]
      BY <2>2, <1>d
    <3>2. inflight[<<r, s>>] = 1 /\ pc[s] = "wait" /\ pred[s] = r
      BY <3>1 DEF MessageInv
    <3>. QED  BY <3>1, <3>2 DEF SendNotification
  <2>. QED  BY <2>1, <2>2
<1>. QED  BY <1>1, <1>2, <1>3, <1>4, <1>5, <1>6, <1>7, <1>8, <1>9

\* dart_lock_release: the word is cleared after the token has gone.
LEMMA FinishReleaseStep ==
    ASSUME IInv, NEW u \in Units, FinishRelease(u)
    PROVE  IInv'
<1>. USE UnitsAssumption DEF IInv
<1>1. TypeOK'
  BY DEF FinishRelease, Word, PCs, TypeOK
<1>2. LifeInv'
  BY DEF FinishRelease, Queued, LifeInv
<1>3. TokenInv'
  BY DEF FinishRelease, Queued, Notified, Owns, Token, TypeOK, TokenInv
<1>4. TailInv'
  BY DEF FinishRelease, Holds, Queued, TailInv
<1>5. ReleaseInv'
  BY DEF FinishRelease, TypeOK, ReleaseInv
<1>6. QueuedInv'
  BY DEF FinishRelease, Queued, QueuedInv
<1>7. PendingInv'
  BY DEF FinishRelease, Queued, Notified, Owns, Pending, PendingInv
<1>8. ListInv'
  BY DEF FinishRelease, Queued, Notified, Pending, Sent, TypeOK, ListInv
<1>9. MessageInv'
  BY DEF FinishRelease, MessageInv
<1>. QED  BY <1>1, <1>2, <1>3, <1>4, <1>5, <1>6, <1>7, <1>8, <1>9

\* Before dart_team_lock_init nobody owns, waits for or has sent anything.
LEMMA InitEstablishes == Init => IInv
<1>. SUFFICES ASSUME Init PROVE IInv
  OBVIOUS
<1>. USE UnitsAssumption, LocksAssumption DEF Init
<1>1. TypeOK
  BY DEF TypeOK, Word, PCs
<1>2. \A l \in Locks, u \in Units : ~ Queued(l, u) /\ ~ Owns(l, u) /\ ~ Pending(l, u)
  BY DEF Queued, Owns, Pending
<1>3. LifeInv
  BY <1>2 DEF LifeInv
<1>4. TokenInv
  BY <1>2 DEF TokenInv, Token
<1>5. TailInv /\ ReleaseInv
  BY DEF TailInv, ReleaseInv
<1>6. QueuedInv /\ PendingInv
  BY <1>2 DEF QueuedInv, PendingInv
<1>7. ListInv /\ MessageInv
  BY DEF ListInv, MessageInv
<1>. QED  BY <1>1, <1>3, <1>4, <1>5, <1>6, <1>7 DEF IInv

\* Every operation of dart_synchronization.c preserves the invariant.
LEMMA StepPreserves == IInv /\ [Next]_vars => IInv'
<1>. SUFFICES ASSUME IInv, [Next]_vars PROVE IInv'
  OBVIOUS
<1>1. CASE UNCHANGED vars
  BY <1>1 DEF vars, IInv, TypeOK, LifeInv, TokenInv, TailInv, ReleaseInv,
              QueuedInv, PendingInv, ListInv, MessageInv, Holds, Queued,
              Notified, Owns, Token, Pending, Sent
<1>2. ASSUME NEW l \in Locks, NEW u \in Units, InitStep(l, u)
      PROVE  IInv'
  BY <1>2, EnterInitStep, ReceiveTailStep, AllocateListStep, FinishInitStep
     DEF InitStep
<1>3. ASSUME NEW l \in Locks, NEW u \in Units, AcquireStep(l, u)
      PROVE  IInv'
  BY <1>3, AcquireFreeStep, AcquireQueuedStep, LinkPredecessorStep,
     ReceiveNotificationStep, TryAcquireStep DEF AcquireStep
<1>4. ASSUME NEW l \in Locks, NEW u \in Units, ReleaseStep(l, u)
      PROVE  IInv'
  BY <1>4, ReleaseLastStep, ReleaseContendedStep, ReadNextStep,
     SendNotificationStep, FinishReleaseStep DEF ReleaseStep
<1>. QED  BY <1>1, <1>2, <1>3, <1>4 DEF Next

-----------------------------------------------------------------------------
\* Invariance: the inductive invariant holds in every reachable state, for
\* any team and any set of locks over it.
THEOREM Invariance == Spec => []IInv
BY InitEstablishes, StepPreserves, PTL DEF Spec

\* TypeCorrect: the words, the flags and the program counters of the lock
\* never leave their types, whatever the memory of a new list word held.
THEOREM TypeCorrect == Spec => []TypeOK
<1>1. IInv => TypeOK
  BY DEF IInv
<1>. QED  BY <1>1, Invariance, PTL

\* LockIsExclusive: dart_lock_acquire, dart_lock_try_acquire and
\* dart_lock_release keep every lock of a team exclusive, whatever the
\* number of units and locks and however their calls are nested.
THEOREM LockIsExclusive == Spec => []MutualExclusion
<1>1. IInv => MutualExclusion
  <2>. SUFFICES ASSUME IInv, NEW l \in Locks, NEW u \in Units, NEW v \in Units,
                       Holds(l, u), Holds(l, v)
                PROVE  u = v
    BY DEF MutualExclusion
  <2>1. Token(l, u) /\ Token(l, v)
    BY DEF Token, Owns, Holds
  <2>. QED  BY <2>1 DEF IInv, TokenInv
<1>. QED  BY <1>1, Invariance, PTL

\* MessagesReachTheirLock: although the notifications of all locks of a team
\* share one tag and one communicator, each is received by the acquire it
\* was sent for, while nobody owns the lock it hands over.
THEOREM MessagesReachTheirLock == Spec => []NoStrayMessage
<1>1. IInv => NoStrayMessage
  <2>. SUFFICES ASSUME IInv, NEW p \in Units, NEW q \in Units,
                       inflight[<<p, q>>] > 0
                PROVE  /\ inflight[<<p, q>>] = 1 /\ pc[q] = "wait" /\ pred[q] = p
                       /\ \A v \in Units : ~ Owns(cur[q], v)
    BY DEF NoStrayMessage
  <2>1. inflight[<<p, q>>] = 1 /\ pc[q] = "wait" /\ pred[q] = p
    BY DEF IInv, MessageInv
  <2>2. cur[q] \in Locks /\ Queued(cur[q], q) /\ Notified(q)
    BY <2>1 DEF IInv, TypeOK, Queued, Notified
  <2>3. ~ isAcquired[cur[q]][q]
    BY <2>2 DEF IInv, QueuedInv
  <2>4. ASSUME NEW v \in Units, Owns(cur[q], v)
        PROVE  FALSE
    <3>1. v = q
      BY <2>2, <2>4 DEF IInv, TokenInv, Token
    <3>. QED  BY <2>3, <2>4, <3>1 DEF Owns
  <2>. QED  BY <2>1, <2>4
<1>. QED  BY <1>1, Invariance, PTL

\* WaitersAreNamed: a unit blocked in dart_lock_acquire is named in the list
\* word of a unit that is still to send to it; no hand-over is lost.
THEOREM WaitersAreNamed == Spec => []NoLostWaiter
<1>1. IInv => NoLostWaiter
  <2>. SUFFICES ASSUME IInv, NEW u \in Units, pc[u] = "wait", ~ Notified(u)
                PROVE  /\ pred[u] \in Units
                       /\ list[cur[u]][pred[u]] = u
                       /\ Queued(cur[u], pred[u]) \/ Owns(cur[u], pred[u])
    BY DEF NoLostWaiter
  <2>1. cur[u] \in Locks /\ Queued(cur[u], u) /\ Pending(cur[u], u)
    BY DEF IInv, TypeOK, Queued, Pending
  <2>2. pred[u] \in Units
    BY <2>1 DEF IInv, QueuedInv
  <2>. QED  BY <2>1, <2>2 DEF IInv, PendingInv
<1>. QED  BY <1>1, Invariance, PTL

-----------------------------------------------------------------------------
(* MCSLockFifo implements FifoLock.                                        *)

\* Only the head of a queue has the token, so that everybody behind it waits
\* without a notification.
LEMMA OnlyHeadHasToken ==
    ASSUME IInv, NEW l \in Locks, FifoAt(l)
    PROVE  /\ \A u \in Units : Token(l, u) => arrivals[l] # <<>> /\ u = arrivals[l][1]
           /\ \A i \in 2 .. Len(arrivals[l]) : Pending(l, arrivals[l][i])
           /\ arrivals[l] = <<>> => \A u \in Units : ~Member(l, u)
           /\ tail[l] = NoUnit <=> arrivals[l] = <<>>
<1>. DEFINE q == arrivals[l]
<1>1. q \in Seq(Units) /\ Len(q) \in Nat /\ (q # <<>> => Len(q) >= 1) /\ Len(<<>>) = 0
      /\ \A i \in 1 .. Len(q) : q[i] \in Units
  BY EmptySeq, LenProperties, ElementOfSeq DEF FifoAt
<1>2. ASSUME NEW u \in Units, Member(l, u)
      PROVE  q # <<>> /\ \E i \in 1 .. Len(q) : q[i] = u
  BY <1>1, <1>2 DEF FifoAt
<1>3. ASSUME NEW u \in Units, Token(l, u)
      PROVE  q # <<>> /\ u = q[1]
  <2>1. q # <<>>
    BY <1>2, <1>3 DEF Member, Token
  <2>2. Token(l, q[1]) /\ q[1] \in Units
    BY <1>1, <2>1 DEF FifoAt
  <2>. QED  BY <1>3, <2>1, <2>2 DEF IInv, TokenInv
<1>4. ASSUME NEW i \in 2 .. Len(q)
      PROVE  Pending(l, q[i])
  <2>1. q[i] \in Units /\ i \in 1 .. Len(q) /\ 1 \in 1 .. Len(q)
    BY <1>1
  <2>2. Member(l, q[i])
    BY <2>1 DEF FifoAt
  <2>3. q[i] # q[1]
    BY <2>1 DEF FifoAt
  <2>4. ~Token(l, q[i])
    BY <1>3, <2>1, <2>3
  <2>. QED  BY <2>2, <2>4 DEF Member, Token, Pending
<1>5. tail[l] = NoUnit <=> q = <<>>
  BY <1>1, UnitsAssumption DEF FifoAt
<1>. QED  BY <1>2, <1>3, <1>4, <1>5

\* A step that leaves the queue, the tail, the members and the token of a lock
\* as they are, and the predecessors of those that wait for the token.
LEMMA QueueUntouched ==
    ASSUME IInv, NEW l \in Locks, FifoAt(l),
           arrivals'[l] = arrivals[l], tail'[l] = tail[l],
           \A u \in Units : /\ Member(l, u)' <=> Member(l, u)
                            /\ Token(l, u)' <=> Token(l, u)
                            /\ Pending(l, u) => pred'[u] = pred[u]
    PROVE  FifoAt(l)'
<1>. DEFINE q == arrivals[l]
<1>1. q \in Seq(Units) /\ \A i \in 1 .. Len(q) : q[i] \in Units
  BY LenProperties, ElementOfSeq DEF FifoAt
<1>2. Len(q) \in Nat /\ (q # <<>> => Len(q) >= 1)
  BY <1>1, EmptySeq, LenProperties
<1>3. q # <<>> => Token(l, q[1])'
  BY <1>1, <1>2 DEF FifoAt
<1>4. \A i \in 2 .. Len(q) : pred'[q[i]] = q[i - 1]
  BY <1>1, <1>2, OnlyHeadHasToken DEF FifoAt
<1>5. \A u \in Units : Member(l, u)' <=> \E i \in 1 .. Len(q) : q[i] = u
  BY DEF FifoAt
<1>. QED  BY <1>1, <1>3, <1>4, <1>5 DEF FifoAt

\* A step is quiet when it changes no queue, no tail and nobody's place.
Quiet ==
    /\ UNCHANGED arrivals
    /\ \A k \in Locks :
           /\ tail'[k] = tail[k]
           /\ \A v \in Units : /\ Owns(k, v)' <=> Owns(k, v)
                               /\ Queued(k, v)' <=> Queued(k, v)
                               /\ Token(k, v)' <=> Token(k, v)
                               /\ Pending(k, v) => pred'[v] = pred[v]

\* Quiet steps are invisible in FifoLock.
LEMMA QuietStep ==
    ASSUME IInv, FifoInv, Quiet
    PROVE  FifoInv' /\ UNCHANGED Fifo!fvars
<1>1. ASSUME NEW k \in Locks PROVE FifoAt(k)'
  <2>1. FifoAt(k)
    BY DEF FifoInv
  <2>2. /\ arrivals'[k] = arrivals[k] /\ tail'[k] = tail[k]
        /\ \A v \in Units : /\ Member(k, v)' <=> Member(k, v)
                            /\ Token(k, v)' <=> Token(k, v)
                            /\ Pending(k, v) => pred'[v] = pred[v]
    BY DEF Quiet, Member
  <2>. QED  BY <2>1, <2>2, QueueUntouched
<1>2. DOMAIN arrivals' = Locks
  BY DEF FifoInv, Quiet
<1>3. Owners' = Owners
  BY DEF Owners, Quiet
<1>. QED  BY <1>1, <1>2, <1>3 DEF FifoInv, Fifo!fvars, Quiet

\* dart_team_lock_init is quiet: unit 0 clears a tail nobody has used yet.
LEMMA InitIsQuiet ==
    ASSUME IInv, NEW l \in Locks, NEW u \in Units, InitStep(l, u), UNCHANGED arrivals
    PROVE  Quiet
<1>. USE UnitsAssumption DEF IInv
<1>1. ASSUME EnterInit(l, u) PROVE \A k \in Locks : tail'[k] = tail[k]
  <2>1. CASE u = Root
    <3>1. life[l][u] # "ready" /\ life[l][u] = "none"
      BY <1>1 DEF EnterInit, MayInit
    <3>2. \A v \in Units : life[l][v] # "ready"
      BY <3>1 DEF LifeInv
    <3>3. tail[l] = NoUnit
      BY <3>2 DEF LifeInv, TypeOK, Word
    <3>. QED  BY <1>1, <3>3 DEF EnterInit, TypeOK
  <2>2. CASE u # Root
    BY <1>1, <2>2 DEF EnterInit
  <2>. QED  BY <2>1, <2>2
<1>2. CASE EnterInit(l, u)
  <2>1. \A k \in Locks, v \in Units : /\ Owns(k, v)' <=> Owns(k, v)
                                      /\ Queued(k, v)' <=> Queued(k, v)
                                      /\ Token(k, v)' <=> Token(k, v)
    BY <1>2 DEF EnterInit, MayInit, Queued, Notified, Owns, Token
  <2>. QED  BY <1>1, <1>2, <2>1 DEF Quiet, EnterInit
<1>3. CASE ReceiveTail(u)
  BY <1>3 DEF ReceiveTail, Queued, Notified, Owns, Token, Quiet
<1>4. CASE AllocateList(u)
  BY <1>4 DEF AllocateList, Queued, Notified, Owns, Token, Quiet
<1>5. CASE FinishInit(u)
  <2>1. ~isAcquired[cur[u]][u]
    BY <1>5 DEF FinishInit, LifeInv, TypeOK
  <2>2. \A k \in Locks, v \in Units : Owns(k, v)' <=> Owns(k, v)
    BY <1>5, <2>1 DEF FinishInit, Owns, TypeOK
  <2>3. \A k \in Locks, v \in Units : /\ Queued(k, v)' <=> Queued(k, v)
                                      /\ (Queued(k, v) /\ Notified(v))' <=> Queued(k, v) /\ Notified(v)
    BY <1>5 DEF FinishInit, Queued, Notified, TypeOK
  <2>. QED  BY <1>5, <2>2, <2>3 DEF FinishInit, Token, Quiet
<1>. QED  BY <1>2, <1>3, <1>4, <1>5 DEF InitStep

\* Linking, looking for the successor and leaving after the hand-over are
\* quiet: the token is elsewhere.
LEMMA OtherIsQuiet ==
    ASSUME IInv, NEW l \in Locks, NEW u \in Units, UNCHANGED arrivals,
           LinkPredecessor(u) \/ ReleaseContended(l, u) \/ ReadNext(u) \/ FinishRelease(u)
    PROVE  Quiet
<1>. USE UnitsAssumption DEF IInv
<1>1. CASE LinkPredecessor(u)
  <2>1. ~Notified(u)'
    <3>1. pred[u] \in Units /\ cur[u] \in Locks
      BY <1>1 DEF LinkPredecessor, QueuedInv, Queued, TypeOK
    <3>2. ~(inflight[<<pred[u], u>>] > 0)
      BY <1>1, <3>1 DEF LinkPredecessor, MessageInv
    <3>. QED  BY <1>1, <3>2 DEF LinkPredecessor, Notified
  <2>2. \A v \in Units : Notified(v)' <=> Notified(v)
    BY <1>1, <2>1 DEF LinkPredecessor, Notified, TypeOK
  <2>3. \A k \in Locks, v \in Units : /\ Owns(k, v)' <=> Owns(k, v)
                                      /\ Queued(k, v)' <=> Queued(k, v)
    BY <1>1 DEF LinkPredecessor, Queued, Owns, TypeOK
  <2>. QED  BY <1>1, <2>2, <2>3 DEF LinkPredecessor, Token, Quiet
<1>2. CASE ReleaseContended(l, u)
  BY <1>2 DEF ReleaseContended, Queued, Notified, Owns, Token, Quiet, TypeOK
<1>3. CASE ReadNext(u)
  BY <1>3 DEF ReadNext, Queued, Notified, Owns, Token, Quiet, TypeOK
<1>4. CASE FinishRelease(u)
  <2>1. \A k \in Locks, v \in Units : Owns(k, v)' <=> Owns(k, v)
    BY <1>4 DEF FinishRelease, Owns, TypeOK
  <2>2. \A k \in Locks, v \in Units : /\ Queued(k, v)' <=> Queued(k, v)
                                      /\ (Queued(k, v) /\ Notified(v))' <=> Queued(k, v) /\ Notified(v)
    BY <1>4 DEF FinishRelease, Queued, Notified, TypeOK
  <2>. QED  BY <1>4, <2>1, <2>2 DEF FinishRelease, Token, Quiet
<1>. QED  BY <1>1, <1>2, <1>3, <1>4

\* The owners of one lock change, the others stay.
LEMMA OwnersChange ==
    ASSUME NEW l \in Locks, NEW S \in SUBSET Units,
           \A k \in Locks, v \in Units : Owns(k, v)' <=> IF k = l THEN v \in S ELSE Owns(k, v)
    PROVE  Owners' = [Owners EXCEPT ![l] = S]
BY DEF Owners

\* The locks that a step does not touch keep their queues in order.
LEMMA OtherLocks ==
    ASSUME IInv, FifoInv, NEW l \in Locks, NEW q, FifoAt(l)',
           arrivals' = [arrivals EXCEPT ![l] = q],
           \A k \in Locks \ {l} :
               /\ tail'[k] = tail[k]
               /\ \A v \in Units : /\ Member(k, v)' <=> Member(k, v)
                                   /\ Token(k, v)' <=> Token(k, v)
                                   /\ Pending(k, v) => pred'[v] = pred[v]
    PROVE  FifoInv'
<1>1. ASSUME NEW k \in Locks \ {l} PROVE FifoAt(k)'
  <2>1. FifoAt(k) /\ arrivals'[k] = arrivals[k]
    BY DEF FifoInv
  <2>. QED  BY <2>1, QueueUntouched
<1>. QED  BY <1>1 DEF FifoInv

\* dart_lock_acquire and dart_lock_try_acquire of a free lock.
LEMMA TakeStep ==
    ASSUME IInv, FifoInv, NEW l \in Locks, NEW u \in Units,
           AcquireFree(l, u) \/ TryAcquire(l, u), Arrive(l, u)
    PROVE  FifoInv' /\ Fifo!Take(l, u)
<1>. USE UnitsAssumption DEF IInv
<1>1. /\ MayRequest(l, u) /\ tail[l] = NoUnit /\ tail' = [tail EXCEPT ![l] = u]
      /\ isAcquired' = [isAcquired EXCEPT ![l][u] = TRUE]
      /\ UNCHANGED <<list, life, pc, cur, pred, next, inflight>>
  BY DEF AcquireFree, TryAcquire
<1>2. arrivals[l] = <<>> /\ \A v \in Units : ~Member(l, v) /\ ~Token(l, v)
  BY <1>1, OnlyHeadHasToken DEF FifoInv, TokenInv
<1>3. arrivals' = [arrivals EXCEPT ![l] = <<u>>]
  BY <1>2 DEF Arrive, FifoInv
<1>4. \A k \in Locks, v \in Units : Owns(k, v)' <=> IF k = l THEN v \in {u} ELSE Owns(k, v)
  BY <1>1, <1>2 DEF MayRequest, Owns, Member, TypeOK
<1>5. \A k \in Locks, v \in Units : /\ Queued(k, v)' <=> Queued(k, v)
                                    /\ Notified(v)' <=> Notified(v)
  BY <1>1 DEF Queued, Notified
<1>6. FifoAt(l)'
  <2>1. <<u>> \in Seq(Units) /\ Len(<<u>>) = 1 /\ <<u>>[1] = u /\ <<u>> # <<>>
    OBVIOUS
  <2>2. arrivals'[l] = <<u>> /\ tail'[l] = u
    BY <1>1, <1>3 DEF FifoInv, TypeOK
  <2>3. Token(l, u)' /\ \A v \in Units : Member(l, v)' <=> v = u
    BY <1>2, <1>4, <1>5 DEF Token, Member
  <2>. QED  BY <2>1, <2>2, <2>3 DEF FifoAt
<1>7. \A k \in Locks \ {l} :
          /\ tail'[k] = tail[k]
          /\ \A v \in Units : /\ Member(k, v)' <=> Member(k, v)
                              /\ Token(k, v)' <=> Token(k, v)
                              /\ Pending(k, v) => pred'[v] = pred[v]
  BY <1>1, <1>4, <1>5 DEF Member, Token
<1>8. FifoInv'
  BY <1>3, <1>6, <1>7, OtherLocks
<1>9. Owners' = [Owners EXCEPT ![l] = {u}]
  BY <1>4, OwnersChange
<1>. QED  BY <1>2, <1>3, <1>8, <1>9 DEF Fifo!Take

\* dart_lock_acquire of a lock that others have: the last in line.
LEMMA JoinStep ==
    ASSUME IInv, FifoInv, NEW l \in Locks, NEW u \in Units, AcquireQueued(l, u), Arrive(l, u)
    PROVE  FifoInv' /\ Fifo!Join(l, u)
<1>. USE UnitsAssumption DEF IInv
<1>. DEFINE q == arrivals[l]
<1>1. q # <<>> /\ q \in Seq(Units) /\ FifoAt(l)
  BY OnlyHeadHasToken DEF AcquireQueued, FifoInv, FifoAt
<1>2. Len(q) \in Nat /\ Len(q) >= 1 /\ \A i \in 1 .. Len(q) : q[i] \in Units
  BY <1>1, EmptySeq, LenProperties, ElementOfSeq
<1>3. ~Member(l, u)
  BY DEF AcquireQueued, MayRequest, Member, Queued, Owns
<1>4. \A i \in 1 .. Len(q) : q[i] # u
  BY <1>1, <1>3 DEF FifoAt
<1>5. \A k \in Locks, v \in Units : Owns(k, v)' <=> Owns(k, v)
  BY DEF AcquireQueued, MayRequest, Owns, TypeOK
<1>6. \A k \in Locks, v \in Units : Queued(k, v)' <=> Queued(k, v) \/ (k = l /\ v = u)
  BY DEF AcquireQueued, MayRequest, Queued, TypeOK
<1>7. \A k \in Locks, v \in Units : Token(k, v)' <=> Token(k, v)
  <2>1. \A v \in Units : v # u => (Notified(v)' <=> Notified(v))
    BY DEF AcquireQueued, Notified, TypeOK
  <2>2. ~Notified(u)' /\ ~Notified(u)
    BY DEF AcquireQueued, MayRequest, Notified, TypeOK
  <2>. QED  BY <1>5, <1>6, <2>1, <2>2 DEF Token
<1>8. arrivals' = [arrivals EXCEPT ![l] = Append(q, u)]
  BY DEF Arrive
<1>9. FifoAt(l)'
  <2>1. /\ Append(q, u) \in Seq(Units) /\ Len(Append(q, u)) = Len(q) + 1 /\ Append(q, u) # <<>>
        /\ \A i \in 1 .. Len(q) : Append(q, u)[i] = q[i]
        /\ Append(q, u)[Len(q) + 1] = u
    BY <1>1, AppendProperties
  <2>2. arrivals'[l] = Append(q, u) /\ tail'[l] = u
    BY <1>8 DEF FifoInv, TypeOK, AcquireQueued
  <2>3. pred'[u] = q[Len(q)] /\ \A v \in Units : v # u => pred'[v] = pred[v]
    BY <1>1 DEF FifoAt, AcquireQueued, TypeOK
  <2>. DEFINE r == Append(q, u)
  <2>. HIDE DEF r, q
  <2>4. \A i, j \in 1 .. Len(r) : r[i] = r[j] => i = j
    <3>1. \A i, j \in 1 .. Len(q) : q[i] = q[j] => i = j
      BY <1>1 DEF FifoAt, q
    <3>. QED  BY <1>2, <1>4, <2>1, <3>1 DEF r
  <2>5. \A v \in Units : Member(l, v)' <=> \E i \in 1 .. Len(r) : r[i] = v
    <3>1. \A v \in Units : Member(l, v) <=> \E i \in 1 .. Len(q) : q[i] = v
      BY <1>1 DEF FifoAt, q
    <3>2. \A v \in Units : Member(l, v)' <=> Member(l, v) \/ v = u
      BY <1>5, <1>6 DEF Member
    <3>3. \A v \in Units : (\E i \in 1 .. Len(r) : r[i] = v) <=> (\E i \in 1 .. Len(q) : q[i] = v) \/ v = u
      BY <1>2, <2>1 DEF r
    <3>. QED  BY <3>1, <3>2, <3>3
  <2>6. PICK h \in Units : h = r[1] /\ Token(l, h)'
    <3>1. r[1] = q[1] /\ q[1] \in Units
      BY <1>2, <2>1 DEF r
    <3>2. Token(l, q[1])
      BY <1>1 DEF FifoAt, q
    <3>. QED  BY <1>7, <3>1, <3>2
  <2>7. \A i \in 2 .. Len(r) : pred'[r[i]] = r[i - 1]
    <3>1. \A i \in 2 .. Len(q) : pred[q[i]] = q[i - 1]
      BY <1>1 DEF FifoAt, q
    <3>. QED  BY <1>2, <1>4, <2>1, <2>3, <3>1 DEF r
  <2>8. r \in Seq(Units) /\ r # <<>> /\ r[Len(r)] = u
    BY <2>1 DEF r
  <2>9. arrivals'[l] = r
    BY <2>2 DEF r
  <2>. QED  BY <2>2, <2>4, <2>5, <2>6, <2>7, <2>8, <2>9 DEF FifoAt
<1>10. \A k \in Locks \ {l} :
          /\ tail'[k] = tail[k]
          /\ \A v \in Units : /\ Member(k, v)' <=> Member(k, v)
                              /\ Token(k, v)' <=> Token(k, v)
                              /\ Pending(k, v) => pred'[v] = pred[v]
  <2>1. \A k \in Locks : ~Pending(k, u)
    BY DEF AcquireQueued, MayRequest, Pending, Queued
  <2>2. \A v \in Units : v # u => pred'[v] = pred[v]
    BY DEF AcquireQueued, TypeOK
  <2>. QED  BY <1>5, <1>6, <1>7, <2>1, <2>2 DEF Member, AcquireQueued, TypeOK
<1>11. FifoInv'
  BY <1>8, <1>9, <1>10, OtherLocks
<1>12. ~Fifo!InQueue(l, u)
  BY <1>4 DEF Fifo!InQueue
<1>13. Owners' = Owners
  BY <1>5 DEF Owners
<1>. QED  BY <1>1, <1>8, <1>11, <1>12, <1>13 DEF Fifo!Join

\* MPI_Recv returns: the head of the queue becomes the owner.
LEMMA EnterStep ==
    ASSUME IInv, FifoInv, NEW u \in Units, NEW l \in Locks, cur[u] = l,
           ReceiveNotification(u), UNCHANGED arrivals
    PROVE  FifoInv' /\ Fifo!Enter(l, u)
<1>. USE UnitsAssumption DEF IInv
<1>1. Queued(l, u) /\ Notified(u) /\ Token(l, u) /\ pred[u] \in Units
  BY DEF ReceiveNotification, Queued, Notified, Token, TypeOK, QueuedInv
<1>2. \A v \in Units : ~Owns(l, v)
  <2>1. ~Owns(l, u)
    BY <1>1 DEF QueuedInv, Owns
  <2>. QED  BY <1>1, <2>1 DEF Token, TokenInv
<1>3. \A k \in Locks, v \in Units : Owns(k, v)' <=> IF k = l THEN v \in {u} ELSE Owns(k, v)
  BY <1>1, <1>2 DEF ReceiveNotification, Owns, TypeOK
<1>4. \A k \in Locks, v \in Units : Queued(k, v)' <=> Queued(k, v) /\ v # u
  BY <1>1 DEF ReceiveNotification, Queued, TypeOK
<1>5. \A v \in Units : v # u => (Notified(v)' <=> Notified(v))
  BY <1>1 DEF ReceiveNotification, Notified, TypeOK
<1>6. \A k \in Locks : k # l => ~Queued(k, u)
  BY DEF Queued
<1>7. \A k \in Locks, v \in Units : /\ Member(k, v)' <=> Member(k, v)
                                    /\ Token(k, v)' <=> Token(k, v)
                                    /\ Pending(k, v) => v # u
  <2>1. \A v \in Units : Token(l, v)' <=> v = u
    BY <1>1, <1>3, <1>4, <1>5 DEF Token, TokenInv
  <2>2. \A v \in Units : Token(l, v) <=> v = u
    BY <1>1 DEF TokenInv
  <2>3. \A k \in Locks, v \in Units : k # l => (Token(k, v)' <=> Token(k, v))
    BY <1>3, <1>4, <1>5, <1>6 DEF Token
  <2>4. \A k \in Locks, v \in Units : Member(k, v)' <=> Member(k, v)
    BY <1>1, <1>2, <1>3, <1>4, <1>6 DEF Member
  <2>. QED  BY <1>1, <2>1, <2>2, <2>3, <2>4 DEF Pending
<1>8. \A k \in Locks : FifoAt(k)'
  <2>1. TAKE k \in Locks
  <2>2. FifoAt(k) /\ arrivals'[k] = arrivals[k] /\ tail'[k] = tail[k]
    BY DEF FifoInv, ReceiveNotification
  <2>3. \A v \in Units : Pending(k, v) => pred'[v] = pred[v]
    BY <1>7 DEF ReceiveNotification, TypeOK
  <2>. QED  BY <1>7, <2>2, <2>3, QueueUntouched
<1>9. arrivals[l] # <<>> /\ u = Head(arrivals[l])
  <2>1. FifoAt(l)
    BY <1>1 DEF FifoInv
  <2>2. arrivals[l] # <<>> /\ u = arrivals[l][1] /\ arrivals[l] \in Seq(Units)
    BY <1>1, <2>1, OnlyHeadHasToken DEF FifoAt
  <2>. QED  BY <2>2
<1>10. Owners' = [Owners EXCEPT ![l] = {u}]
  BY <1>1, <1>3, OwnersChange
<1>11. Owners[l] = {}
  BY <1>1, <1>2 DEF Owners
<1>. QED  BY <1>8, <1>9, <1>10, <1>11 DEF FifoInv, Fifo!Enter

\* dart_lock_release with nobody behind: the queue was its owner only.
LEMMA LeaveLastStep ==
    ASSUME IInv, FifoInv, NEW l \in Locks, NEW u \in Units, ReleaseLast(l, u), Depart(l)
    PROVE  FifoInv' /\ Fifo!Leave(l, u)
<1>. USE UnitsAssumption DEF IInv
<1>. DEFINE q == arrivals[l]
<1>1. Owns(l, u) /\ Token(l, u) /\ tail[l] = u
  BY DEF ReleaseLast, Owns, Token
<1>2. FifoAt(l)
  BY DEF FifoInv
<1>3. q \in Seq(Units) /\ q # <<>> /\ q[1] = u /\ q[Len(q)] = u
  BY <1>1, <1>2, OnlyHeadHasToken DEF FifoAt
<1>4. Len(q) = 1 /\ Tail(q) = <<>>
  <2>1. Len(q) \in Nat /\ Len(q) >= 1
    BY <1>3, EmptySeq, LenProperties
  <2>2. Len(q) = 1
    <3>1. \A i, j \in 1 .. Len(q) : q[i] = q[j] => i = j
      BY <1>2 DEF FifoAt
    <3>2. 1 \in 1 .. Len(q) /\ Len(q) \in 1 .. Len(q) /\ q[1] = q[Len(q)]
      BY <1>3, <2>1
    <3>. HIDE DEF q
    <3>. QED  BY <3>1, <3>2
  <2>3. Tail(q) \in Seq(Units) /\ Len(Tail(q)) = 0
    BY <1>3, <2>2, HeadTailProperties
  <2>. QED  BY <2>2, <2>3, EmptySeq
<1>5. arrivals' = [arrivals EXCEPT ![l] = <<>>]
  BY <1>4 DEF Depart
<1>6. \A v \in Units : Member(l, v) => v = u
  BY <1>2, <1>3, <1>4 DEF FifoAt
<1>7. \A k \in Locks, v \in Units : Owns(k, v)' <=> IF k = l THEN v \in {} ELSE Owns(k, v)
  BY <1>1, <1>6 DEF ReleaseLast, Owns, Member, TypeOK
<1>8. \A k \in Locks, v \in Units : /\ Queued(k, v)' <=> Queued(k, v)
                                    /\ Notified(v)' <=> Notified(v)
  BY DEF ReleaseLast, Queued, Notified
<1>9. FifoAt(l)'
  <2>1. <<>> \in Seq(Units) /\ Len(<<>>) = 0
    OBVIOUS
  <2>2. arrivals'[l] = <<>> /\ tail'[l] = NoUnit
    BY <1>5 DEF FifoInv, ReleaseLast, TypeOK
  <2>3. ~Queued(l, u)
    BY <1>1 DEF QueuedInv, Owns
  <2>4. \A v \in Units : ~Member(l, v)'
    BY <1>6, <1>7, <1>8, <2>3 DEF Member
  <2>. QED  BY <2>1, <2>2, <2>4 DEF FifoAt
<1>10. \A k \in Locks \ {l} :
          /\ tail'[k] = tail[k]
          /\ \A v \in Units : /\ Member(k, v)' <=> Member(k, v)
                              /\ Token(k, v)' <=> Token(k, v)
                              /\ Pending(k, v) => pred'[v] = pred[v]
  BY <1>7, <1>8 DEF Member, Token, ReleaseLast, TypeOK
<1>11. FifoInv'
  BY <1>5, <1>9, <1>10, OtherLocks
<1>12. Owners' = [Owners EXCEPT ![l] = {}]
  BY <1>7, OwnersChange
<1>13. Owners[l] = {u}
  BY <1>1, <1>6 DEF Owners, Member
<1>. QED  BY <1>11, <1>12, <1>13 DEF Fifo!Leave, Depart

\* dart_lock_release hands the lock over: the owner leaves the head of the
\* queue, and the unit behind it has the token.
LEMMA LeaveStep ==
    ASSUME IInv, FifoInv, NEW u \in Units, NEW l \in Locks, cur[u] = l,
           SendNotification(u), Depart(l)
    PROVE  FifoInv' /\ Fifo!Leave(l, u)
<1>. USE UnitsAssumption DEF IInv
<1>1. PICK q \in Seq(Units) : q = arrivals[l]
  BY DEF FifoInv, FifoAt
<1>2. FifoAt(l)
  BY DEF FifoInv
<1>3. PICK w \in Units : /\ w = next[u] /\ w # u /\ Owns(l, u) /\ Pending(l, w) /\ pred[w] = u
                         /\ \A k \in Locks, v \in Units :
                                /\ Token(k, v)' <=> IF k = l THEN v = w ELSE Token(k, v)
                                /\ Owns(k, v)' <=> Owns(k, v) /\ ~ (k = l /\ v = u)
  BY SendMovesToken
<1>4. \A k \in Locks, v \in Units : Queued(k, v)' <=> Queued(k, v)
  BY DEF SendNotification, Queued
<1>5. /\ \A i, j \in 1 .. Len(q) : q[i] = q[j] => i = j
      /\ \A v \in Units : Member(l, v) <=> \E i \in 1 .. Len(q) : q[i] = v
      /\ \A i \in 2 .. Len(q) : pred[q[i]] = q[i - 1]
      /\ tail[l] = IF q = <<>> THEN NoUnit ELSE q[Len(q)]
  BY <1>1, <1>2 DEF FifoAt
<1>6. q # <<>> /\ q[1] = u
  BY <1>1, <1>2, <1>3, OnlyHeadHasToken DEF Token
<1>7. Len(q) \in Nat /\ \A i \in 1 .. Len(q) : q[i] \in Units
  BY LenProperties, ElementOfSeq
<1>8. Len(q) >= 2 /\ q[2] = w
  <2>1. PICK i \in 1 .. Len(q) : q[i] = w
    BY <1>3, <1>5 DEF Member, Pending
  <2>2. i # 1
    BY <1>3, <1>6, <2>1
  <2>3. i \in 2 .. Len(q)
    BY <1>7, <2>1, <2>2
  <2>4. q[i - 1] = q[1] /\ i - 1 \in 1 .. Len(q) /\ 1 \in 1 .. Len(q)
    BY <1>3, <1>5, <1>6, <1>7, <2>1, <2>3
  <2>5. i - 1 = 1
    BY <1>5, <2>4
  <2>. QED  BY <1>7, <2>1, <2>3, <2>5
<1>9. PICK r \in Seq(Units) : r = Tail(q)
  BY <1>6, HeadTailProperties
<1>10. Len(r) = Len(q) - 1 /\ \A i \in 1 .. Len(r) : r[i] = q[i + 1]
  BY <1>6, <1>9, HeadTailProperties
<1>11. r # <<>> /\ r[1] = w /\ r[Len(r)] = q[Len(q)]
  <2>1. Len(r) \in 1 .. Len(r) /\ 1 \in 1 .. Len(r) /\ Len(r) + 1 = Len(q)
    BY <1>7, <1>8, <1>10
  <2>. QED  BY <1>8, <1>10, <2>1, EmptySeq
<1>12. arrivals' = [arrivals EXCEPT ![l] = r]
  BY <1>1, <1>9 DEF Depart
<1>13. FifoAt(l)'
  <2>1. ASSUME NEW i \in 1 .. Len(r), NEW j \in 1 .. Len(r), r[i] = r[j]
        PROVE  i = j
    <3>1. i + 1 \in 1 .. Len(q) /\ j + 1 \in 1 .. Len(q)
      BY <1>7, <1>10
    <3>2. q[i + 1] = q[j + 1]
      BY <1>10, <2>1
    <3>3. i + 1 = j + 1
      BY <1>5, <3>1, <3>2
    <3>. QED  BY <1>7, <1>10, <3>3
  <2>2. \A v \in Units : Member(l, v)' <=> \E i \in 1 .. Len(r) : r[i] = v
    <3>1. \A v \in Units : Member(l, v)' <=> Member(l, v) /\ v # u
      BY <1>3, <1>4 DEF Member, Owns, QueuedInv
    <3>2. ASSUME NEW v \in Units
          PROVE  (\E i \in 1 .. Len(r) : r[i] = v)
                     <=> (\E i \in 1 .. Len(q) : q[i] = v) /\ v # u
      <4>1. ASSUME NEW i \in 1 .. Len(r), r[i] = v
            PROVE  v # u /\ \E j \in 1 .. Len(q) : q[j] = v
        <5>1. i + 1 \in 1 .. Len(q) /\ 1 \in 1 .. Len(q) /\ q[i + 1] = v /\ i + 1 # 1
          BY <1>7, <1>10, <4>1
        <5>. QED  BY <1>5, <1>6, <5>1
      <4>2. ASSUME NEW j \in 1 .. Len(q), q[j] = v, v # u
            PROVE  \E i \in 1 .. Len(r) : r[i] = v
        <5>1. j - 1 \in 1 .. Len(r) /\ (j - 1) + 1 = j
          BY <1>6, <1>7, <1>10, <4>2
        <5>. QED  BY <1>10, <4>2, <5>1
      <4>. QED  BY <4>1, <4>2
    <3>. QED  BY <1>5, <3>1, <3>2
  <2>3. \A i \in 2 .. Len(r) : pred'[r[i]] = r[i - 1]
    <3>1. TAKE i \in 2 .. Len(r)
    <3>2. i + 1 \in 2 .. Len(q) /\ i - 1 \in 1 .. Len(r) /\ i \in 1 .. Len(r)
          /\ (i + 1) - 1 = i /\ (i - 1) + 1 = i
      BY <1>7, <1>10
    <3>3. pred'[q[i + 1]] = q[i]
      BY <1>5, <3>2 DEF SendNotification
    <3>. QED  BY <1>10, <3>2, <3>3
  <2>4. arrivals'[l] = r /\ tail'[l] = r[Len(r)]
    BY <1>5, <1>6, <1>11, <1>12 DEF FifoInv, SendNotification
  <2>5. Token(l, w)' /\ r[1] = w
    BY <1>3, <1>11
  <2>. QED  BY <1>11, <2>1, <2>2, <2>3, <2>4, <2>5 DEF FifoAt
<1>14. \A k \in Locks \ {l} :
          /\ tail'[k] = tail[k]
          /\ \A v \in Units : /\ Member(k, v)' <=> Member(k, v)
                              /\ Token(k, v)' <=> Token(k, v)
                              /\ Pending(k, v) => pred'[v] = pred[v]
  BY <1>3, <1>4 DEF Member, SendNotification
<1>15. FifoInv'
  BY <1>12, <1>13, <1>14, OtherLocks
<1>16. \A v \in Units : Owns(l, v) => v = u
  BY <1>3 DEF Token, TokenInv
<1>17. Owners' = [Owners EXCEPT ![l] = {}]
  <2>1. \A k \in Locks, v \in Units : Owns(k, v)' <=> IF k = l THEN v \in {} ELSE Owns(k, v)
    BY <1>3, <1>16
  <2>. QED  BY <2>1, OwnersChange
<1>18. Owners[l] = {u}
  BY <1>3, <1>16 DEF Owners
<1>. QED  BY <1>15, <1>17, <1>18 DEF Fifo!Leave, Depart

\* Every step of the lock keeps the queues in order and is a step of FifoLock,
\* or none.
LEMMA QueueStep ==
    ASSUME IInv, FifoInv, [HNext]_hvars
    PROVE  FifoInv' /\ [Fifo!FNext]_(Fifo!fvars)
<1>1. CASE UNCHANGED hvars
  <2>1. Quiet
    BY <1>1 DEF hvars, vars, Quiet, Owns, Queued, Token, Notified
  <2>. QED  BY <2>1, QuietStep
<1>2. ASSUME NEW l \in Locks, NEW u \in Units,
             AcquireFree(l, u) \/ AcquireQueued(l, u) \/ TryAcquire(l, u), Arrive(l, u)
      PROVE  FifoInv' /\ Fifo!FNext
  BY <1>2, TakeStep, JoinStep DEF Fifo!FNext
<1>3. ASSUME NEW l \in Locks, NEW u \in Units, ReleaseLast(l, u), Depart(l)
      PROVE  FifoInv' /\ Fifo!FNext
  BY <1>3, LeaveLastStep DEF Fifo!FNext
<1>4. ASSUME NEW u \in Units, SendNotification(u), Depart(cur[u])
      PROVE  FifoInv' /\ Fifo!FNext
  <2>1. PICK l \in Locks : cur[u] = l
    BY DEF IInv, TypeOK
  <2>. QED  BY <1>4, <2>1, LeaveStep DEF Fifo!FNext
<1>5. ASSUME NEW u \in Units, ReceiveNotification(u), UNCHANGED arrivals
      PROVE  FifoInv' /\ Fifo!FNext
  <2>1. PICK l \in Locks : cur[u] = l
    BY DEF IInv, TypeOK
  <2>. QED  BY <1>5, <2>1, EnterStep DEF Fifo!FNext
<1>6. ASSUME NEW l \in Locks, NEW u \in Units, UNCHANGED arrivals,
             \/ InitStep(l, u) \/ LinkPredecessor(u)
             \/ ReleaseContended(l, u) \/ ReadNext(u) \/ FinishRelease(u)
      PROVE  FifoInv' /\ UNCHANGED Fifo!fvars
  BY <1>6, InitIsQuiet, OtherIsQuiet, QuietStep
<1>. QED  BY <1>1, <1>2, <1>3, <1>4, <1>5, <1>6 DEF HNext

\* What the words say follows from both invariants.
LEMMA WordsFollow ==
    ASSUME IInv, FifoInv
    PROVE  WordsSpellQueue
<1>. USE UnitsAssumption DEF IInv
<1>. SUFFICES ASSUME NEW l \in Locks
              PROVE  LET q == arrivals[l]
                     IN  /\ tail[l] = (IF q = <<>> THEN NoUnit ELSE q[Len(q)])
                         /\ \A i \in 1 .. Len(q) :
                                \/ list[l][q[i]] = NoUnit
                                \/ i < Len(q) /\ list[l][q[i]] = q[i + 1]
                         /\ \A i \in 2 .. Len(q) :
                                (pc[q[i]] = "wait" /\ ~ Notified(q[i]))
                                    => list[l][q[i - 1]] = q[i]
  BY DEF WordsSpellQueue
<1>1. PICK q \in Seq(Units) : q = arrivals[l]
  BY DEF FifoInv, FifoAt
<1>2. FifoAt(l)
  BY DEF FifoInv
<1>3. /\ \A i, j \in 1 .. Len(q) : q[i] = q[j] => i = j
      /\ \A v \in Units : Member(l, v) <=> \E i \in 1 .. Len(q) : q[i] = v
      /\ \A i \in 2 .. Len(q) : pred[q[i]] = q[i - 1]
      /\ tail[l] = IF q = <<>> THEN NoUnit ELSE q[Len(q)]
  BY <1>1, <1>2 DEF FifoAt
<1>4. Len(q) \in Nat /\ \A i \in 1 .. Len(q) : q[i] \in Units
  BY LenProperties, ElementOfSeq
<1>5. \A i \in 2 .. Len(q) : Pending(l, q[i])
  BY <1>1, <1>2, OnlyHeadHasToken
<1>6. \A v \in Units : Pending(l, v) => q # <<>> /\ v # q[1] /\ Member(l, v)
  <2>1. \A v \in Units : Pending(l, v) => Member(l, v) /\ ~Token(l, v)
    BY DEF Pending, Member, Token, QueuedInv, Owns
  <2>2. q # <<>> => Token(l, q[1])
    BY <1>1, <1>2 DEF FifoAt
  <2>3. q = <<>> => \A v \in Units : ~Member(l, v)
    BY <1>1, <1>2, OnlyHeadHasToken
  <2>. QED  BY <2>1, <2>2, <2>3
<1>7. ASSUME NEW i \in 1 .. Len(q), list[l][q[i]] # NoUnit
      PROVE  i < Len(q) /\ list[l][q[i]] = q[i + 1]
  <2>1. PICK p \in Units : p = q[i]
    BY <1>4
  <2>2. PICK v \in Units : v = list[l][p]
    BY <1>7, <2>1 DEF TypeOK, Word
  <2>3. Member(l, p)
    BY <1>3, <2>1
  <2>4. life[l][p] = "ready" /\ ~Sent(l, p)
    BY <2>3 DEF Member, Owns, Queued, Sent, LifeInv
  <2>5. Pending(l, v) /\ pred[v] = p
    BY <2>2, <2>4 DEF ListInv
  <2>6. PICK j \in 1 .. Len(q) : q[j] = v
    BY <1>3, <1>6, <2>5
  <2>7. j \in 2 .. Len(q)
    BY <1>4, <1>6, <2>5, <2>6
  <2>8. q[j - 1] = q[i] /\ j - 1 \in 1 .. Len(q)
    BY <1>3, <1>4, <2>1, <2>5, <2>6, <2>7
  <2>9. j - 1 = i
    BY <1>3, <2>8
  <2>10. i < Len(q) /\ i + 1 = j
    BY <1>4, <2>7, <2>9
  <2>. QED  BY <2>1, <2>2, <2>6, <2>10
<1>8. ASSUME NEW i \in 2 .. Len(q), pc[q[i]] = "wait"
      PROVE  list[l][q[i - 1]] = q[i]
  <2>1. q[i] \in Units /\ pred[q[i]] = q[i - 1] /\ Pending(l, q[i])
    BY <1>3, <1>4, <1>5
  <2>. QED  BY <1>8, <2>1 DEF PendingInv
<1>. QED  BY <1>1, <1>3, <1>7, <1>8

\* The lock of dart_synchronization.c is a first-in first-out lock, for any
\* team and any set of locks: units own it in the order of their swaps on the
\* tail, and the words of the units spell the queue.
THEOREM LockIsFifo == HSpec => ImplementsFifoLock
<1>. DEFINE Both == IInv /\ FifoInv
<1>1. HInit => Both /\ Fifo!FInit
  <2>. SUFFICES ASSUME HInit PROVE Both /\ Fifo!FInit
    OBVIOUS
  <2>. USE UnitsAssumption, LocksAssumption
  <2>1. IInv
    BY InitEstablishes DEF HInit
  <2>2. \A l \in Locks, u \in Units : ~Owns(l, u) /\ ~Queued(l, u)
    BY DEF HInit, Init, Owns, Queued
  <2>3. DOMAIN arrivals = Locks /\ \A l \in Locks : arrivals[l] = <<>> /\ tail[l] = NoUnit
    BY DEF HInit, Init
  <2>4. FifoInv
    <3>1. <<>> \in Seq(Units) /\ Len(<<>>) = 0
      OBVIOUS
    <3>2. ASSUME NEW l \in Locks PROVE FifoAt(l)
      <4>1. arrivals[l] = <<>> /\ tail[l] = NoUnit
        BY <2>3
      <4>2. \A u \in Units : ~Member(l, u)
        BY <2>2 DEF Member
      <4>. QED  BY <3>1, <4>1, <4>2 DEF FifoAt
    <3>. QED  BY <2>3, <3>2 DEF FifoInv
  <2>5. Owners = [l \in Locks |-> {}]
    BY <2>2 DEF Owners
  <2>. QED  BY <2>1, <2>4, <2>5 DEF HInit, Fifo!FInit
<1>2. Both /\ [HNext]_hvars => Both' /\ [Fifo!FNext]_(Fifo!fvars)
  <2>. SUFFICES ASSUME Both, [HNext]_hvars PROVE Both' /\ [Fifo!FNext]_(Fifo!fvars)
    OBVIOUS
  <2>1. [Next]_vars
    BY DEF HNext, hvars, Next, AcquireStep, ReleaseStep
  <2>2. IInv'
    BY <2>1, StepPreserves
  <2>. QED  BY <2>2, QueueStep
<1>3. Both => FifoInv /\ WordsSpellQueue
  BY WordsFollow
<1>. QED  BY <1>1, <1>2, <1>3, PTL DEF HSpec, Fifo!FSpec, ImplementsFifoLock

-----------------------------------------------------------------------------
(* The completion of one-sided operations.                                 *)

\* There is a target and a window, and so a place for an unused slot.
LEMMA AnyPlaceExists == AnyPlace \in Places
<1>1. PICK t \in Targets, w \in Wins : TRUE
  BY PlacesAssumption
<1>2. [target |-> t, win |-> w] \in Places
  BY DEF Places
<1>. QED  BY <1>2 DEF AnyPlace

\* dart_get: a new operation without a handle, already complete when copied.
LEMMA GetStep ==
    ASSUME CompletionInv, NEW o \in Ops, NEW m \in Memory, NEW p \in Places,
           Get(o, m, p)
    PROVE  CompletionInv'
<1>1. SlotsOK'
  BY OpsAssumption DEF CompletionInv, SlotsOK, Calls, Get, Issue, CopiedIfShared, Shared, Return
<1>2. (UnusedInv /\ NullInv /\ NoRequestLeft)'
  BY DEF CompletionInv, UnusedInv, NullInv, NoRequestLeft, LocallyComplete,
     RemotelyComplete, Get, Issue
<1>3. (FlushPromise /\ LocalPromise /\ FirstWaitPromise)'
  BY DEF FlushPromise, LocalPromise, FirstWaitPromise, ReturnedFrom, Get, Return
<1>. QED  BY <1>1, <1>2, <1>3 DEF CompletionInv

\* dart_put and dart_accumulate: a new operation without a handle.
LEMMA PutStep ==
    ASSUME CompletionInv, NEW o \in Ops, NEW p \in Places, Put(o, p)
    PROVE  CompletionInv'
<1>1. SlotsOK'
  BY OpsAssumption DEF CompletionInv, SlotsOK, Calls, Put, Issue, Return
<1>2. (UnusedInv /\ NullInv /\ NoRequestLeft)'
  BY DEF CompletionInv, UnusedInv, NullInv, NoRequestLeft, LocallyComplete,
     RemotelyComplete, Put, Issue
<1>3. (FlushPromise /\ LocalPromise /\ FirstWaitPromise)'
  BY DEF FlushPromise, LocalPromise, FirstWaitPromise, ReturnedFrom, Put, Return
<1>. QED  BY <1>1, <1>2, <1>3 DEF CompletionInv

\* dart_get_handle: a handle with a request, or without one after a copy.
LEMMA GetHandleStep ==
    ASSUME CompletionInv, NEW o \in Ops, NEW m \in Memory, NEW p \in Places,
           GetHandle(o, m, p)
    PROVE  CompletionInv'
<1>1. SlotsOK'
  BY OpsAssumption DEF CompletionInv, SlotsOK, Calls, GetHandle, Issue, CopiedIfShared, Shared,
     Return
<1>2. (UnusedInv /\ NullInv /\ NoRequestLeft)'
  BY DEF CompletionInv, SlotsOK, UnusedInv, NullInv, NoRequestLeft, LocallyComplete,
     RemotelyComplete, GetHandle, Issue, CopiedIfShared, Shared
<1>3. (FlushPromise /\ LocalPromise /\ FirstWaitPromise)'
  BY DEF FlushPromise, LocalPromise, FirstWaitPromise, ReturnedFrom, GetHandle,
     Return
<1>. QED  BY <1>1, <1>2, <1>3 DEF CompletionInv

\* dart_put_handle: a handle with an active request.
LEMMA PutHandleStep ==
    ASSUME CompletionInv, NEW o \in Ops, NEW p \in Places, PutHandle(o, p)
    PROVE  CompletionInv'
<1>1. SlotsOK'
  BY OpsAssumption DEF CompletionInv, SlotsOK, Calls, PutHandle, Issue, Return
<1>2. (UnusedInv /\ NullInv /\ NoRequestLeft)'
  BY DEF CompletionInv, SlotsOK, UnusedInv, NullInv, NoRequestLeft, LocallyComplete,
     RemotelyComplete, PutHandle, Issue
<1>3. (FlushPromise /\ LocalPromise /\ FirstWaitPromise)'
  BY DEF FlushPromise, LocalPromise, FirstWaitPromise, ReturnedFrom, PutHandle,
     Return
<1>. QED  BY <1>1, <1>2, <1>3 DEF CompletionInv

\* dart_get_blocking and dart_put_blocking on the own node: a copy.
LEMMA CopyBlockingStep ==
    ASSUME CompletionInv, NEW o \in Ops, NEW m \in Memory, NEW p \in Places,
           NEW k \in {"get", "put"}, CopyBlocking(o, k, m, p)
    PROVE  CompletionInv'
<1>1. SlotsOK'
  BY OpsAssumption DEF CompletionInv, SlotsOK, Calls, CopyBlocking, Issue, Return
<1>2. (UnusedInv /\ NullInv /\ NoRequestLeft)'
  BY DEF CompletionInv, UnusedInv, NullInv, NoRequestLeft, LocallyComplete,
     RemotelyComplete, CopyBlocking, Issue
<1>3. (FlushPromise /\ LocalPromise /\ FirstWaitPromise)'
  BY DEF CompletionInv, SlotsOK, FlushPromise, LocalPromise, FirstWaitPromise,
     ReturnedFrom, RemotelyComplete, CopyBlocking, Issue, Return
<1>. QED  BY <1>1, <1>2, <1>3 DEF CompletionInv

\* The blocking forms elsewhere: issue, then wait in MPI_Win_flush.
LEMMA StartBlockingStep ==
    ASSUME CompletionInv, NEW o \in Ops, NEW m \in Memory, NEW p \in Places,
           NEW k \in {"get", "put"}, StartBlocking(o, k, m, p)
    PROVE  CompletionInv'
<1>1. SlotsOK'
  BY OpsAssumption DEF CompletionInv, SlotsOK, Calls, StartBlocking, Issue, Return
<1>2. (UnusedInv /\ NullInv /\ NoRequestLeft)'
  BY DEF CompletionInv, SlotsOK, UnusedInv, NullInv, NoRequestLeft, LocallyComplete,
     RemotelyComplete, StartBlocking, Issue
<1>3. (FlushPromise /\ LocalPromise /\ FirstWaitPromise)'
  BY DEF FlushPromise, LocalPromise, FirstWaitPromise, ReturnedFrom,
     StartBlocking, Return
<1>. QED  BY <1>1, <1>2, <1>3 DEF CompletionInv

\* The blocking forms return when the flush has completed their operation.
LEMMA FinishBlockingStep ==
    ASSUME CompletionInv, NEW o \in Ops, FinishBlocking(o)
    PROVE  CompletionInv'
<1>1. SlotsOK'
  BY OpsAssumption DEF CompletionInv, SlotsOK, Calls, FinishBlocking, Return
<1>2. (UnusedInv /\ NullInv /\ NoRequestLeft)'
  BY OpsAssumption DEF CompletionInv, UnusedInv, NullInv, NoRequestLeft, LocallyComplete,
     RemotelyComplete, FinishBlocking
<1>3. (FlushPromise /\ LocalPromise /\ FirstWaitPromise)'
  BY DEF CompletionInv, UnusedInv, FlushPromise, LocalPromise, FirstWaitPromise,
     ReturnedFrom, RemotelyComplete, FinishBlocking, UsedAt, Return
<1>. QED  BY <1>1, <1>2, <1>3 DEF CompletionInv

\* dart_flush and dart_flush_local return when the operations at their place
\* are complete.
LEMMA FlushOneStep ==
    ASSUME CompletionInv, NEW p \in Places, Flush(p) \/ FlushLocal(p)
    PROVE  CompletionInv'
<1>1. SlotsOK'
  BY OpsAssumption DEF CompletionInv, SlotsOK, Calls, Flush, FlushLocal, FlushPlaces,
     UsedAt, Return
<1>2. (UnusedInv /\ NullInv /\ NoRequestLeft)'
  BY DEF CompletionInv, UnusedInv, NullInv, NoRequestLeft, LocallyComplete,
     RemotelyComplete, Flush, FlushLocal, FlushPlaces
<1>3. (FlushPromise /\ LocalPromise /\ FirstWaitPromise)'
  BY DEF FlushPromise, LocalPromise, FirstWaitPromise, ReturnedFrom,
     LocallyComplete, RemotelyComplete, Flush, FlushLocal, FlushPlaces, Return
<1>. QED  BY <1>1, <1>2, <1>3 DEF CompletionInv

\* dart_flush_all and dart_flush_local_all: the same for a window.
LEMMA FlushWindowStep ==
    ASSUME CompletionInv, NEW p \in Places, FlushAll(p.win) \/ FlushLocalAll(p.win)
    PROVE  CompletionInv'
<1>1. SlotsOK'
  BY OpsAssumption DEF CompletionInv, SlotsOK, Calls, FlushAll, FlushLocalAll,
     FlushPlaces, UsedAt, Return
<1>2. (UnusedInv /\ NullInv /\ NoRequestLeft)'
  BY DEF CompletionInv, UnusedInv, NullInv, NoRequestLeft, LocallyComplete,
     RemotelyComplete, FlushAll, FlushLocalAll, FlushPlaces
<1>3. (FlushPromise /\ LocalPromise /\ FirstWaitPromise)'
  BY DEF FlushPromise, LocalPromise, FirstWaitPromise, ReturnedFrom,
     LocallyComplete, RemotelyComplete, FlushAll, FlushLocalAll, FlushPlaces,
     Return
<1>. QED  BY <1>1, <1>2, <1>3 DEF CompletionInv

\* dart_wait_local consumes the request of a locally complete operation.
LEMMA WaitLocalStep ==
    ASSUME CompletionInv, NEW o \in Ops, WaitLocal(o)
    PROVE  CompletionInv'
<1>1. SlotsOK'
  BY OpsAssumption DEF CompletionInv, SlotsOK, Calls, WaitLocal, CompleteRequests, Return
<1>2. (UnusedInv /\ NullInv /\ NoRequestLeft)'
  BY DEF CompletionInv, SlotsOK, UnusedInv, NullInv, NoRequestLeft, LocallyComplete,
     RemotelyComplete, WaitLocal, CompleteRequests
<1>3. (FlushPromise /\ LocalPromise /\ FirstWaitPromise)'
  BY DEF CompletionInv, NoRequestLeft, FlushPromise, LocalPromise, FirstWaitPromise,
     ReturnedFrom, LocallyComplete, WaitLocal, CompleteRequests, Return
<1>. QED  BY <1>1, <1>2, <1>3 DEF CompletionInv

\* dart_wait flushes while the request is active, and frees the handle.
LEMMA WaitStep ==
    ASSUME CompletionInv, NEW o \in Ops, Wait(o)
    PROVE  CompletionInv'
<1>1. SlotsOK'
  BY OpsAssumption DEF CompletionInv, SlotsOK, Calls, Wait, CompleteRequests, FreeHandles,
     Return
<1>2. (UnusedInv /\ NullInv /\ NoRequestLeft)'
  BY DEF CompletionInv, UnusedInv, NullInv, NoRequestLeft, LocallyComplete,
     RemotelyComplete, Wait, CompleteRequests, FreeHandles
<1>3. (FlushPromise /\ LocalPromise /\ FirstWaitPromise)'
  BY DEF CompletionInv, UnusedInv, NullInv, NoRequestLeft, FlushPromise, LocalPromise,
     FirstWaitPromise, ReturnedFrom, LocallyComplete, RemotelyComplete, Wait,
     UsedAt, Return
<1>. QED  BY <1>1, <1>2, <1>3 DEF CompletionInv

\* dart_waitall and dart_waitall_local do nothing when the first handle is NULL.
LEMMA WaitallIgnoredStep ==
    ASSUME CompletionInv, NEW H \in SUBSET Ops, 
           NEW call \in {"waitall_ignored", "waitall_local_ignored"},
           WaitallIgnored(call, H)
    PROVE  CompletionInv'
<1>1. SlotsOK'
  BY OpsAssumption DEF CompletionInv, SlotsOK, Calls, WaitallIgnored, Return
<1>2. (UnusedInv /\ NullInv /\ NoRequestLeft)'
  BY DEF CompletionInv, UnusedInv, NullInv, NoRequestLeft, LocallyComplete,
     RemotelyComplete, WaitallIgnored
<1>3. (FlushPromise /\ LocalPromise /\ FirstWaitPromise)'
  BY DEF FlushPromise, LocalPromise, FirstWaitPromise, ReturnedFrom,
     WaitallIgnored, Return
<1>. QED  BY <1>1, <1>2, <1>3 DEF CompletionInv

\* dart_waitall_local consumes all requests and frees the handles.
LEMMA WaitallLocalStep ==
    ASSUME CompletionInv, NEW H \in SUBSET Ops, WaitallLocal(H)
    PROVE  CompletionInv'
<1>1. SlotsOK'
  BY OpsAssumption DEF CompletionInv, SlotsOK, Calls, WaitallLocal, CompleteRequests,
     FreeHandles, Return
<1>2. (UnusedInv /\ NullInv /\ NoRequestLeft)'
  BY DEF CompletionInv, UnusedInv, NullInv, NoRequestLeft, LocallyComplete,
     RemotelyComplete, WaitallLocal, CompleteRequests, FreeHandles
<1>3. (FlushPromise /\ LocalPromise /\ FirstWaitPromise)'
  BY DEF CompletionInv, NoRequestLeft, FlushPromise, LocalPromise, FirstWaitPromise,
     ReturnedFrom, LocallyComplete, WaitallLocal, CompleteRequests, Return
<1>. QED  BY <1>1, <1>2, <1>3 DEF CompletionInv

\* dart_waitall consumes all requests and frees the handles without a flush.
LEMMA WaitallStep ==
    ASSUME CompletionInv, NEW H \in SUBSET Ops, Waitall(H)
    PROVE  CompletionInv'
<1>1. SlotsOK'
  BY OpsAssumption DEF CompletionInv, SlotsOK, Calls, Waitall, CompleteRequests,
     FreeHandles, Return
<1>2. (UnusedInv /\ NullInv /\ NoRequestLeft)'
  BY DEF CompletionInv, UnusedInv, NullInv, NoRequestLeft, LocallyComplete,
     RemotelyComplete, Waitall, CompleteRequests, FreeHandles
<1>3. (FlushPromise /\ LocalPromise /\ FirstWaitPromise)'
  BY DEF CompletionInv, NoRequestLeft, FlushPromise, LocalPromise, FirstWaitPromise,
     ReturnedFrom, LocallyComplete, Waitall, CompleteRequests, Return
<1>. QED  BY <1>1, <1>2, <1>3 DEF CompletionInv

\* dart_test_local consumes the request if it reports completion.
LEMMA TestLocalStep ==
    ASSUME CompletionInv, NEW o \in Ops, TestLocal(o)
    PROVE  CompletionInv'
<1>1. SlotsOK'
  BY OpsAssumption DEF CompletionInv, SlotsOK, Calls, TestLocal, CompleteRequests, Return
<1>2. (UnusedInv /\ NullInv /\ NoRequestLeft)'
  BY DEF CompletionInv, SlotsOK, UnusedInv, NullInv, NoRequestLeft, LocallyComplete,
     RemotelyComplete, TestLocal, CompleteRequests
<1>3. (FlushPromise /\ LocalPromise /\ FirstWaitPromise)'
  BY DEF CompletionInv, NoRequestLeft, FlushPromise, LocalPromise, FirstWaitPromise,
     ReturnedFrom, LocallyComplete, TestLocal, CompleteRequests, Return
<1>. QED  BY <1>1, <1>2, <1>3 DEF CompletionInv

\* dart_testall_local consumes the requests if it reports completion.
LEMMA TestallLocalStep ==
    ASSUME CompletionInv, NEW H \in SUBSET Ops, TestallLocal(H)
    PROVE  CompletionInv'
<1>1. SlotsOK'
  BY OpsAssumption DEF CompletionInv, SlotsOK, Calls, TestallLocal, CompleteRequests,
     Return
<1>2. (UnusedInv /\ NullInv /\ NoRequestLeft)'
  BY DEF CompletionInv, UnusedInv, NullInv, NoRequestLeft, LocallyComplete,
     RemotelyComplete, TestallLocal, CompleteRequests
<1>3. (FlushPromise /\ LocalPromise /\ FirstWaitPromise)'
  BY DEF CompletionInv, NoRequestLeft, FlushPromise, LocalPromise, FirstWaitPromise,
     ReturnedFrom, LocallyComplete, TestallLocal, CompleteRequests, Return
<1>. QED  BY <1>1, <1>2, <1>3 DEF CompletionInv

\* The network only completes operations, and no promise asks for less.
LEMMA NetworkKeeps ==
    ASSUME CompletionInv, NEW o \in Ops, NetworkStep(o)
    PROVE  CompletionInv'
<1>1. SlotsOK'
  BY OpsAssumption DEF CompletionInv, SlotsOK, NetworkStep, CompleteLocally,
     CompleteRemotely
<1>2. (UnusedInv /\ NullInv /\ NoRequestLeft)'
  BY DEF CompletionInv, SlotsOK, UnusedInv, NullInv, NoRequestLeft, LocallyComplete,
     RemotelyComplete, NetworkStep, CompleteLocally, CompleteRemotely
<1>3. (FlushPromise /\ LocalPromise /\ FirstWaitPromise)'
  BY DEF CompletionInv, SlotsOK, FlushPromise, LocalPromise, FirstWaitPromise,
     ReturnedFrom, LocallyComplete, RemotelyComplete, NetworkStep,
     CompleteLocally, CompleteRemotely
<1>. QED  BY <1>1, <1>2, <1>3 DEF CompletionInv

\* A slot is reused when its operation is complete and has no handle.
LEMMA RetireStep ==
    ASSUME CompletionInv, NEW o \in Ops, Retire(o)
    PROVE  CompletionInv'
<1>1. SlotsOK'
  BY AnyPlaceExists, OpsAssumption DEF CompletionInv, SlotsOK, Calls, Retire, Return
<1>2. (UnusedInv /\ NullInv /\ NoRequestLeft)'
  BY OpsAssumption DEF Entering, CompletionInv, UnusedInv, NullInv, NoRequestLeft,
     LocallyComplete, RemotelyComplete, Retire
<1>3. (FlushPromise /\ LocalPromise /\ FirstWaitPromise)'
  BY DEF FlushPromise, LocalPromise, FirstWaitPromise, ReturnedFrom, Retire,
     Return
<1>. QED  BY <1>1, <1>2, <1>3 DEF CompletionInv

\* After dart_init no operation is under way.
LEMMA OInitEstablishes == OInit => CompletionInv
<1>. SUFFICES ASSUME OInit PROVE CompletionInv
  OBVIOUS
<1>1. SlotsOK
  BY AnyPlaceExists, OpsAssumption DEF OInit, SlotsOK, Calls
<1>2. UnusedInv /\ NullInv /\ NoRequestLeft
  BY OpsAssumption DEF OInit, UnusedInv, NullInv, NoRequestLeft
<1>3. FlushPromise /\ LocalPromise /\ FirstWaitPromise
  BY DEF OInit, FlushPromise, LocalPromise, FirstWaitPromise, ReturnedFrom
<1>. QED  BY <1>1, <1>2, <1>3 DEF CompletionInv

\* Every call of dart_communication.c and the network preserve the invariant.
LEMMA OStepPreserves == CompletionInv /\ [ONext]_ovars => CompletionInv'
<1>. SUFFICES ASSUME CompletionInv, [ONext]_ovars PROVE CompletionInv'
  OBVIOUS
<1>1. CASE \E o \in Ops, m \in Memory, p \in Places : IssueStep(o, m, p)
  BY <1>1, GetStep, PutStep, GetHandleStep, PutHandleStep, CopyBlockingStep,
     StartBlockingStep DEF IssueStep
<1>2. CASE \E p \in Places : FlushStep(p)
  BY <1>2, FlushOneStep, FlushWindowStep DEF FlushStep
<1>3. CASE \E o \in Ops :
              HandleStep(o) \/ NetworkStep(o) \/ FinishBlocking(o) \/ Retire(o)
  BY <1>3, WaitLocalStep, WaitStep, TestLocalStep, NetworkKeeps,
     FinishBlockingStep,
     RetireStep DEF HandleStep
<1>4. CASE \E H \in SUBSET Ops : HandlesStep(H)
  BY <1>4, WaitallLocalStep, WaitallStep, TestallLocalStep, WaitallIgnoredStep
     DEF HandlesStep
<1>5. CASE UNCHANGED ovars
  BY <1>5 DEF ovars, CompletionInv, SlotsOK, UnusedInv, NullInv, NoRequestLeft,
     FlushPromise,
     LocalPromise, FirstWaitPromise, ReturnedFrom, LocallyComplete, RemotelyComplete
<1>. QED  BY <1>1, <1>2, <1>3, <1>4, <1>5 DEF ONext

\* CompletionInvariance: every issue, test, wait and flush of
\* dart_communication.c preserves the invariant CompletionInv.
THEOREM CompletionInvariance == OSpec => []CompletionInv
BY OInitEstablishes, OStepPreserves, PTL DEF OSpec

\* FirstWaitIsRemote: dart_wait ensures remote completion on every handle no
\* dart_wait_local or dart_test*_local has seen complete before.
THEOREM FirstWaitIsRemote == OSpec => []FirstWaitPromise
<1>1. CompletionInv => FirstWaitPromise
  BY DEF CompletionInv
<1>. QED  BY <1>1, CompletionInvariance, PTL
=============================================================================
