------------------------------- MODULE MCSLock -------------------------------
(***************************************************************************)
(* The queue lock of dart-impl/mpi/src/dart_synchronization.c.             *)
(*                                                                         *)
(* A lock is a word "tail" in the memory of unit 0 of the team and one     *)
(* word "list" in the memory of every unit.  A unit swaps itself into the  *)
(* tail; if somebody was there before, it writes itself into that unit's   *)
(* list word and blocks in MPI_Recv.  A releasing unit compares-and-swaps  *)
(* the tail back to -1; when that fails it spins until its list word names *)
(* its successor, sends it an empty message and resets the word.           *)
(*                                                                         *)
(* Every MPI one-sided operation that is followed by MPI_Win_flush is one  *)
(* atomic step.  The messages carry nothing: tag 0, no bytes, and one      *)
(* communicator for all the locks of the team, so a channel is a counter   *)
(* and a receiver cannot tell which lock a message is about.               *)
(*                                                                         *)
(* Calls that return at once with a warning (acquire and try_acquire by a  *)
(* holder, release by a unit that holds nothing) change no state and have  *)
(* no action.                                                              *)
(*                                                                         *)
(* A definition marked as a faulty variant is no part of the system: it is *)
(* the operation after it with a mistake that a property must notice.      *)
(***************************************************************************)
EXTENDS Naturals, FiniteSets

CONSTANTS
    Units,    \* the members of the team
    Root,     \* unit 0 of the team, which stores the tail
    Locks,    \* the locks created over the team
    NoUnit,   \* the value -1 of tail and list
    Before    \* the pairs <<k, l>>: a program may request l while it holds k

ASSUME UnitsAssumption == NoUnit \notin Units /\ Root \in Units
ASSUME LocksAssumption == Locks # {} /\ Before \subseteq Locks \X Locks

VARIABLES
    tail,        \* tail[l]: the word at gptr_tail
    list,        \* list[l][u]: the word of unit u at gptr_list
    life,        \* life[l][u]: how far u is in dart_team_lock_init of l
    isAcquired,  \* isAcquired[l][u]: lock->is_acquired of unit u
    pc,          \* pc[u]: where unit u is
    cur,         \* cur[u]: the lock of the call u is in
    pred,        \* pred[u]: predecessor[0] in dart_lock_acquire
    next,        \* next[u]: next in dart_lock_release
    inflight     \* inflight[<<p, q>>]: messages sent by p, not received by q

vars == <<tail, list, life, isAcquired, pc, cur, pred, next, inflight>>

Word == Units \cup {NoUnit}

PCs == {"idle",
        "bcast", "memalloc", "setlist",           \* dart_team_lock_init
        "link", "wait",                           \* dart_lock_acquire
        "spin", "send", "sent"}                   \* dart_lock_release

(***************************************************************************)
(* TypeOK: each variable ranges over the values its C declaration and the  *)
(* protocol give it.                                                       *)
(***************************************************************************)
TypeOK ==
    /\ tail \in [Locks -> Word]
    /\ list \in [Locks -> [Units -> Word]]
    /\ life \in [Locks -> [Units -> {"none", "entered", "joined", "ready"}]]
    /\ isAcquired \in [Locks -> [Units -> BOOLEAN]]
    /\ pc \in [Units -> PCs]
    /\ cur \in [Units -> Locks]
    /\ pred \in [Units -> Word]
    /\ next \in [Units -> Word]
    /\ inflight \in [Units \X Units -> Nat]

Init ==
    /\ tail = [l \in Locks |-> NoUnit]
    /\ list = [l \in Locks |-> [u \in Units |-> NoUnit]]
    /\ life = [l \in Locks |-> [u \in Units |-> "none"]]
    /\ isAcquired = [l \in Locks |-> [u \in Units |-> FALSE]]
    /\ pc = [u \in Units |-> "idle"]
    /\ cur = [u \in Units |-> CHOOSE l \in Locks : TRUE]
    /\ pred = [u \in Units |-> NoUnit]
    /\ next = [u \in Units |-> NoUnit]
    /\ inflight = [pq \in Units \X Units |-> 0]

-----------------------------------------------------------------------------
(* dart_team_lock_init, a collective call.                                 *)

\* A program calls the collective operations of a team in the same order at
\* every member (u may not enter l before a lock some v entered before l),
\* and not while it holds a lock others may be waiting for.
MayInit(l, u) ==
    /\ pc[u] = "idle"
    /\ life[l][u] = "none"
    /\ \A k \in Locks : ~ isAcquired[k][u]
    /\ \A k \in Locks, v \in Units :
           (k # l /\ life[k][v] # "none" /\ life[l][v] = "none")
               => life[k][u] # "none"

\* Unit 0 allocates the tail and stores -1 before it broadcasts the pointer.
EnterInit(l, u) ==
    /\ MayInit(l, u)
    /\ life' = [life EXCEPT ![l][u] = "entered"]
    /\ pc' = [pc EXCEPT ![u] = "bcast"]
    /\ cur' = [cur EXCEPT ![u] = l]
    /\ tail' = IF u = Root THEN [tail EXCEPT ![l] = NoUnit] ELSE tail
    /\ UNCHANGED <<list, isAcquired, pred, next, inflight>>

\* dart_bcast returns at a unit once the root has called it.
ReceiveTail(u) ==
    /\ pc[u] = "bcast"
    /\ life[cur[u]][Root] # "none"
    /\ life' = [life EXCEPT ![cur[u]][u] = "joined"]
    /\ pc' = [pc EXCEPT ![u] = "memalloc"]
    /\ UNCHANGED <<tail, list, isAcquired, cur, pred, next, inflight>>

\* dart_team_memalloc_aligned ends with an MPI_Allgather: no unit leaves it
\* before the last one has called it.  The new word may hold anything.
AllocateList(u) ==
    /\ pc[u] = "memalloc"
    /\ \A v \in Units : life[cur[u]][v] \in {"joined", "ready"}
    /\ \E w \in Word : list' = [list EXCEPT ![cur[u]][u] = w]
    /\ pc' = [pc EXCEPT ![u] = "setlist"]
    /\ UNCHANGED <<tail, life, isAcquired, cur, pred, next, inflight>>

\* Faulty variant: the word keeps what the memory held before.
FinishInitUncleared(u) ==
    /\ pc[u] = "setlist"
    /\ isAcquired' = [isAcquired EXCEPT ![cur[u]][u] = FALSE]
    /\ life' = [life EXCEPT ![cur[u]][u] = "ready"]
    /\ pc' = [pc EXCEPT ![u] = "idle"]
    /\ UNCHANGED <<tail, list, cur, pred, next, inflight>>

\* Each unit clears its own word and returns; there is no barrier after it.
FinishInit(u) ==
    /\ pc[u] = "setlist"
    /\ list' = [list EXCEPT ![cur[u]][u] = NoUnit]
    /\ isAcquired' = [isAcquired EXCEPT ![cur[u]][u] = FALSE]
    /\ life' = [life EXCEPT ![cur[u]][u] = "ready"]
    /\ pc' = [pc EXCEPT ![u] = "idle"]
    /\ UNCHANGED <<tail, cur, pred, next, inflight>>

-----------------------------------------------------------------------------
(* dart_lock_acquire and dart_lock_try_acquire.                            *)

\* The program may call for l now: it has initialised l, is in no other
\* call, does not hold l, and holds only locks it may hold when it asks.
MayRequest(l, u) ==
    /\ pc[u] = "idle"
    /\ life[l][u] = "ready"
    /\ ~ isAcquired[l][u]
    /\ \A k \in Locks : isAcquired[k][u] => <<k, l>> \in Before

\* MPI_Fetch_and_op(MPI_REPLACE) on the tail finds -1: the lock is free.
AcquireFree(l, u) ==
    /\ MayRequest(l, u)
    /\ tail[l] = NoUnit
    /\ tail' = [tail EXCEPT ![l] = u]
    /\ isAcquired' = [isAcquired EXCEPT ![l][u] = TRUE]
    /\ UNCHANGED <<list, life, pc, cur, pred, next, inflight>>

\* The same swap finds a predecessor.
AcquireQueued(l, u) ==
    /\ MayRequest(l, u)
    /\ tail[l] # NoUnit
    /\ pred' = [pred EXCEPT ![u] = tail[l]]
    /\ tail' = [tail EXCEPT ![l] = u]
    /\ cur' = [cur EXCEPT ![u] = l]
    /\ pc' = [pc EXCEPT ![u] = "link"]
    /\ UNCHANGED <<list, life, isAcquired, next, inflight>>

\* MPI_Fetch_and_op(MPI_REPLACE) on the list word of the predecessor.
LinkPredecessor(u) ==
    /\ pc[u] = "link"
    /\ list' = [list EXCEPT ![cur[u]][pred[u]] = u]
    /\ pc' = [pc EXCEPT ![u] = "wait"]
    /\ UNCHANGED <<tail, life, isAcquired, cur, pred, next, inflight>>

\* Faulty variant: MPI_Recv is left out.
EnterWithoutNotification(u) ==
    /\ pc[u] = "wait"
    /\ isAcquired' = [isAcquired EXCEPT ![cur[u]][u] = TRUE]
    /\ pred' = [pred EXCEPT ![u] = NoUnit]
    /\ pc' = [pc EXCEPT ![u] = "idle"]
    /\ UNCHANGED <<tail, list, life, cur, next, inflight>>

\* MPI_Recv from the predecessor returns: u holds the lock it asked for.
ReceiveNotification(u) ==
    /\ pc[u] = "wait"
    /\ inflight[<<pred[u], u>>] > 0
    /\ inflight' = [inflight EXCEPT ![<<pred[u], u>>] = @ - 1]
    /\ isAcquired' = [isAcquired EXCEPT ![cur[u]][u] = TRUE]
    /\ pred' = [pred EXCEPT ![u] = NoUnit]
    /\ pc' = [pc EXCEPT ![u] = "idle"]
    /\ UNCHANGED <<tail, list, life, cur, next>>

\* Faulty variant: an unconditional swap instead of the compare-and-swap.
TryAcquireBySwap(l, u) ==
    /\ MayRequest(l, u)
    /\ tail' = [tail EXCEPT ![l] = u]
    /\ isAcquired' = [isAcquired EXCEPT ![l][u] = TRUE]
    /\ UNCHANGED <<list, life, pc, cur, pred, next, inflight>>

\* MPI_Compare_and_swap(-1 -> u) on the tail.  A failed attempt changes
\* nothing but the caller's result word and is the stuttering step.
TryAcquire(l, u) ==
    /\ MayRequest(l, u)
    /\ tail[l] = NoUnit
    /\ tail' = [tail EXCEPT ![l] = u]
    /\ isAcquired' = [isAcquired EXCEPT ![l][u] = TRUE]
    /\ UNCHANGED <<list, life, pc, cur, pred, next, inflight>>

-----------------------------------------------------------------------------
(* dart_lock_release.                                                      *)

\* MPI_Compare_and_swap(u -> -1) on the tail succeeds: nobody is queued.
ReleaseLast(l, u) ==
    /\ pc[u] = "idle"
    /\ isAcquired[l][u]
    /\ tail[l] = u
    /\ tail' = [tail EXCEPT ![l] = NoUnit]
    /\ isAcquired' = [isAcquired EXCEPT ![l][u] = FALSE]
    /\ UNCHANGED <<list, life, pc, cur, pred, next, inflight>>

\* Faulty variant: the word is reset before the loop that reads it.
ReleaseAfterReset(l, u) ==
    /\ pc[u] = "idle"
    /\ isAcquired[l][u]
    /\ tail[l] # u
    /\ list' = [list EXCEPT ![l][u] = NoUnit]
    /\ cur' = [cur EXCEPT ![u] = l]
    /\ pc' = [pc EXCEPT ![u] = "spin"]
    /\ UNCHANGED <<tail, life, isAcquired, pred, next, inflight>>

\* The compare-and-swap fails: somebody is, or is about to be, in our word.
ReleaseContended(l, u) ==
    /\ pc[u] = "idle"
    /\ isAcquired[l][u]
    /\ tail[l] # u
    /\ cur' = [cur EXCEPT ![u] = l]
    /\ pc' = [pc EXCEPT ![u] = "spin"]
    /\ UNCHANGED <<tail, list, life, isAcquired, pred, next, inflight>>

\* The atomic read of the own word (MPI_NO_OP) ends the loop at a value
\* other than -1.
ReadNext(u) ==
    /\ pc[u] = "spin"
    /\ list[cur[u]][u] # NoUnit
    /\ next' = [next EXCEPT ![u] = list[cur[u]][u]]
    /\ pc' = [pc EXCEPT ![u] = "send"]
    /\ UNCHANGED <<tail, list, life, isAcquired, cur, pred, inflight>>

\* MPI_Send starts: the message is on its way.
SendNotification(u) ==
    /\ pc[u] = "send"
    /\ inflight' = [inflight EXCEPT ![<<u, next[u]>>] = @ + 1]
    /\ pc' = [pc EXCEPT ![u] = "sent"]
    /\ UNCHANGED <<tail, list, life, isAcquired, cur, pred, next>>

\* Faulty variant: the list word is not reset.
FinishReleaseKeepingWord(u) ==
    /\ pc[u] = "sent"
    /\ isAcquired' = [isAcquired EXCEPT ![cur[u]][u] = FALSE]
    /\ next' = [next EXCEPT ![u] = NoUnit]
    /\ pc' = [pc EXCEPT ![u] = "idle"]
    /\ UNCHANGED <<tail, list, life, cur, pred, inflight>>

\* MPI_Send returns, early or only when the message has been received, and
\* the unit resets its list word and leaves.
FinishRelease(u) ==
    /\ pc[u] = "sent"
    /\ list' = [list EXCEPT ![cur[u]][u] = NoUnit]
    /\ isAcquired' = [isAcquired EXCEPT ![cur[u]][u] = FALSE]
    /\ next' = [next EXCEPT ![u] = NoUnit]
    /\ pc' = [pc EXCEPT ![u] = "idle"]
    /\ UNCHANGED <<tail, life, cur, pred, inflight>>

-----------------------------------------------------------------------------
InitStep(l, u) ==
    EnterInit(l, u) \/ ReceiveTail(u) \/ AllocateList(u) \/ FinishInit(u)

AcquireStep(l, u) ==
    \/ AcquireFree(l, u) \/ AcquireQueued(l, u)
    \/ LinkPredecessor(u) \/ ReceiveNotification(u)
    \/ TryAcquire(l, u)

ReleaseStep(l, u) ==
    \/ ReleaseLast(l, u) \/ ReleaseContended(l, u)
    \/ ReadNext(u) \/ SendNotification(u) \/ FinishRelease(u)

Next ==
    \E l \in Locks, u \in Units :
        InitStep(l, u) \/ AcquireStep(l, u) \/ ReleaseStep(l, u)

Spec == Init /\ [][Next]_vars

\* A unit inside a call keeps running (weak fairness); MPI only promises
\* that MPI_Send returns once the message is received.  Of the program it
\* is assumed that it releases what it holds, whatever other calls it makes
\* in between (strong fairness).  Nobody has to ask for a lock.
Fairness ==
    \A u \in Units :
        /\ WF_vars(\/ ReceiveTail(u) \/ AllocateList(u) \/ FinishInit(u)
                   \/ LinkPredecessor(u) \/ ReceiveNotification(u)
                   \/ ReadNext(u) \/ SendNotification(u)
                   \/ FinishRelease(u) /\ inflight[<<u, next[u]>>] = 0)
        /\ \A l \in Locks : SF_vars(ReleaseLast(l, u) \/ ReleaseContended(l, u))

-----------------------------------------------------------------------------
(* Vocabulary of the properties.                                           *)

\* u is between the return of an acquire and the call of release of l.
Holds(l, u) == isAcquired[l][u] /\ ~ (pc[u] # "idle" /\ cur[u] = l)

\* u is in dart_lock_acquire of l, behind somebody.
Queued(l, u) == pc[u] \in {"link", "wait"} /\ cur[u] = l

\* The message that ends the wait of u is on its way.
Notified(u) == pc[u] = "wait" /\ inflight[<<pred[u], u>>] > 0

\* u has the lock, has not handed it over yet, and is the one who must.
Owns(l, u) == isAcquired[l][u] /\ ~ (pc[u] = "sent" /\ cur[u] = l)

\* MutualExclusion: at most one unit is between a successful
\* dart_lock_acquire or dart_lock_try_acquire and its dart_lock_release.
MutualExclusion ==
    \A l \in Locks, u, v \in Units : Holds(l, u) /\ Holds(l, v) => u = v

\* NoStrayMessage: the empty message of dart_lock_release is matched by
\* source and communicator only.  There is never more than one on a channel,
\* its receiver is blocked on this sender, and the lock it waits for has no
\* owner, so it is never taken for the hand-over of another lock.
NoStrayMessage ==
    \A p, q \in Units :
        inflight[<<p, q>>] > 0 =>
            /\ inflight[<<p, q>>] = 1
            /\ pc[q] = "wait" /\ pred[q] = p
            /\ \A v \in Units : ~ Owns(cur[q], v)

\* NoLostWaiter: a unit blocked in MPI_Recv without a message on its way is
\* named in the list word of its predecessor, and that unit is still queued
\* for, or still owns, the same lock: it will find the name and send.
NoLostWaiter ==
    \A u \in Units :
        (pc[u] = "wait" /\ ~ Notified(u)) =>
            LET p == pred[u]  l == cur[u]
            IN  /\ p \in Units
                /\ list[l][p] = u
                /\ Queued(l, p) \/ Owns(l, p)

\* StarvationFree: a unit that enters dart_lock_acquire behind another one
\* returns with the lock, and dart_lock_release does not spin or block for
\* ever.
StarvationFree ==
    /\ \A l \in Locks, u \in Units : Queued(l, u) ~> Holds(l, u)
    /\ \A u \in Units : (pc[u] \in {"spin", "send", "sent"}) ~> (pc[u] = "idle")

-----------------------------------------------------------------------------
(* The inductive invariant behind MutualExclusion and NoStrayMessage.  The *)
(* right to enter is a token: a unit has it that owns the lock or is       *)
(* notified.                                                               *)

Token(l, u) == Owns(l, u) \/ (Queued(l, u) /\ Notified(u))

\* u has swapped itself behind pred[u], which has not sent to it yet.
Pending(l, u) == Queued(l, u) /\ ~ Notified(u)

Sent(l, u) == pc[u] = "sent" /\ cur[u] = l

\* The stages of dart_team_lock_init: a lock is used by units that have
\* cleared their word, after all have joined the allocation.
LifeInv ==
    /\ \A u \in Units :
           /\ pc[u] = "bcast" => life[cur[u]][u] = "entered"
           /\ pc[u] \in {"memalloc", "setlist"} => life[cur[u]][u] = "joined"
           /\ pc[u] = "setlist" =>
                  \A v \in Units : life[cur[u]][v] \in {"joined", "ready"}
    /\ \A l \in Locks, u, v \in Units :
           life[l][u] = "ready" => life[l][v] \in {"joined", "ready"}
    /\ \A l \in Locks, u \in Units :
           isAcquired[l][u] \/ Queued(l, u) \/ tail[l] = u
               => life[l][u] = "ready"

\* There is at most one token, and none while the tail is -1.
TokenInv ==
    \A l \in Locks :
        /\ \A u, v \in Units : Token(l, u) /\ Token(l, v) => u = v
        /\ tail[l] = NoUnit => \A u \in Units : ~ Token(l, u)

\* The tail names a unit that is queued or holds, never one that releases.
TailInv ==
    \A l \in Locks : tail[l] # NoUnit =>
        Queued(l, tail[l]) \/ Holds(l, tail[l])

\* A releasing unit still has is_acquired set, and sends to the unit in its
\* list word.
ReleaseInv ==
    \A u \in Units :
        /\ pc[u] \in {"spin", "send", "sent"} => isAcquired[cur[u]][u]
        /\ pc[u] = "send" => /\ next[u] # NoUnit
                             /\ next[u] = list[cur[u]][u]

\* A queued unit waits behind another unit, which has initialised the lock.
QueuedInv ==
    \A l \in Locks, u \in Units : Queued(l, u) =>
        /\ ~ isAcquired[l][u]
        /\ pred[u] \in Units \ {u}
        /\ life[l][pred[u]] = "ready"

\* The predecessor of a pending unit is itself queued or owns the lock, has
\* no second successor, is not the tail, and its list word is -1 until the
\* pending unit has written itself into it.
PendingInv ==
    \A l \in Locks, u \in Units : Pending(l, u) =>
        /\ Queued(l, pred[u]) \/ Owns(l, pred[u])
        /\ tail[l] # pred[u]
        /\ list[l][pred[u]] = (IF pc[u] = "link" THEN NoUnit ELSE u)
        /\ \A v \in Units : Pending(l, v) /\ pred[v] = pred[u] => v = u

\* A list word that is set names a pending unit behind its owner, except
\* between the MPI_Send of the owner and its reset of the word.
ListInv ==
    \A l \in Locks, p, q \in Units :
        (life[l][p] = "ready" /\ list[l][p] = q /\ ~ Sent(l, p)) =>
            pc[q] = "wait" /\ Pending(l, q) /\ pred[q] = p

\* A message is alone on its channel and its receiver is blocked on it.
MessageInv ==
    \A p, q \in Units : inflight[<<p, q>>] > 0 =>
        inflight[<<p, q>>] = 1 /\ pc[q] = "wait" /\ pred[q] = p

\* IInv: what every operation of the lock preserves, from the first swap on
\* the tail to the reset of the list word.
IInv ==
    /\ TypeOK /\ LifeInv /\ TokenInv /\ TailInv /\ ReleaseInv
    /\ QueuedInv /\ PendingInv /\ ListInv /\ MessageInv
=============================================================================
