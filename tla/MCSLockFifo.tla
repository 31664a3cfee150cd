---------------------------- MODULE MCSLockFifo ----------------------------
(***************************************************************************)
(* MCSLock with a history variable: arrivals[l] lists the units in the     *)
(* order of their atomic operations on the tail of l, and a unit leaves it *)
(* when it clears the tail or sends its notification.  The variable only   *)
(* records; with it, the lock implements FifoLock.                         *)
(***************************************************************************)
EXTENDS MCSLock, Sequences

VARIABLE arrivals

HInit == Init /\ arrivals = [l \in Locks |-> <<>>]

Arrive(l, u) == arrivals' = [arrivals EXCEPT ![l] = Append(@, u)]
Depart(l) == arrivals' = [arrivals EXCEPT ![l] = Tail(@)]

HNext ==
    \E l \in Locks, u \in Units :
        \/ (AcquireFree(l, u) \/ AcquireQueued(l, u) \/ TryAcquire(l, u))
               /\ Arrive(l, u)
        \/ ReleaseLast(l, u) /\ Depart(l)
        \/ SendNotification(u) /\ Depart(cur[u])
        \/ /\ \/ InitStep(l, u)
              \/ LinkPredecessor(u) \/ ReceiveNotification(u)
              \/ ReleaseContended(l, u) \/ ReadNext(u) \/ FinishRelease(u)
           /\ UNCHANGED arrivals

hvars == <<vars, arrivals>>

HSpec == HInit /\ [][HNext]_hvars

FairHSpec == HSpec /\ Fairness

Owners == [l \in Locks |-> {u \in Units : Owns(l, u)}]

Fifo == INSTANCE FifoLock WITH queue <- arrivals, owner <- Owners

\* WordsSpellQueue: tail and list are the queue, as far as the units have
\* linked themselves: the tail names the last arrival, and a list word that
\* is set names the next arrival after its unit.
WordsSpellQueue ==
    \A l \in Locks :
        LET q == arrivals[l]
        IN  /\ tail[l] = (IF q = <<>> THEN NoUnit ELSE q[Len(q)])
            /\ \A i \in 1 .. Len(q) :
                   \/ list[l][q[i]] = NoUnit
                   \/ i < Len(q) /\ list[l][q[i]] = q[i + 1]
            /\ \A i \in 2 .. Len(q) :
                   (pc[q[i]] = "wait" /\ ~ Notified(q[i]))
                       => list[l][q[i - 1]] = q[i]

-----------------------------------------------------------------------------
(* The inductive invariant behind the refinement, with IInv of MCSLock.    *)

Member(l, u) == Queued(l, u) \/ Owns(l, u)

\* The queue of l holds each unit that waits for l or owns it once, its head
\* has the token, its last unit is in the tail, and each of the others waits
\* for the one before it.
FifoAt(l) ==
    LET q == arrivals[l]
    IN  /\ q \in Seq(Units)
        /\ tail[l] = IF q = <<>> THEN NoUnit ELSE q[Len(q)]
        /\ \A i, j \in 1 .. Len(q) : q[i] = q[j] => i = j
        /\ \A u \in Units : Member(l, u) <=> \E i \in 1 .. Len(q) : q[i] = u
        /\ q # <<>> => Token(l, q[1])
        /\ \A i \in 2 .. Len(q) : pred[q[i]] = q[i - 1]

FifoInv == DOMAIN arrivals = Locks /\ \A l \in Locks : FifoAt(l)

\* ImplementsFifoLock: units obtain the lock in the order of their swaps on
\* the tail (dart_lock_acquire), a try succeeds only when nobody has the lock
\* or waits for it, and a release passes the lock to the next in the queue,
\* which the words of the units spell.
ImplementsFifoLock == Fifo!FSpec /\ []WordsSpellQueue
=============================================================================
