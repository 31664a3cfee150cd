------------------------------ MODULE FifoLock ------------------------------
(***************************************************************************)
(* What a DART lock promises to the units of a team: the units that ask    *)
(* for the lock form a queue, only its head may own the lock, and an owner *)
(* that leaves makes room for the one that asked next.  dart_lock_acquire  *)
(* queues and waits, dart_lock_try_acquire succeeds only on an empty       *)
(* queue, dart_lock_release leaves.                                        *)
(***************************************************************************)
EXTENDS Naturals, Sequences

CONSTANTS Units, Locks

VARIABLES
    queue,  \* queue[l]: the units that asked for l and have not left, in order
    owner   \* owner[l]: the units that own l: none, or the head of the queue

fvars == <<queue, owner>>

FInit ==
    /\ queue = [l \in Locks |-> <<>>]
    /\ owner = [l \in Locks |-> {}]

InQueue(l, u) == \E i \in 1 .. Len(queue[l]) : queue[l][i] = u

\* The lock is free: ask and own in one step.
Take(l, u) ==
    /\ queue[l] = <<>>
    /\ queue' = [queue EXCEPT ![l] = <<u>>]
    /\ owner' = [owner EXCEPT ![l] = {u}]

\* Somebody has it: join at the end.
Join(l, u) ==
    /\ queue[l] # <<>>
    /\ ~ InQueue(l, u)
    /\ queue' = [queue EXCEPT ![l] = Append(@, u)]
    /\ UNCHANGED owner

\* The head of the queue becomes the owner once there is none.
Enter(l, u) ==
    /\ queue[l] # <<>>
    /\ u = Head(queue[l])
    /\ owner[l] = {}
    /\ owner' = [owner EXCEPT ![l] = {u}]
    /\ UNCHANGED queue

\* The owner leaves the lock and the queue.
Leave(l, u) ==
    /\ owner[l] = {u}
    /\ queue' = [queue EXCEPT ![l] = Tail(@)]
    /\ owner' = [owner EXCEPT ![l] = {}]

FNext ==
    \E l \in Locks, u \in Units :
        Take(l, u) \/ Join(l, u) \/ Enter(l, u) \/ Leave(l, u)

FSpec == FInit /\ [][FNext]_fvars
=============================================================================
