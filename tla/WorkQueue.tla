----------------------------- MODULE WorkQueue ------------------------------
(***************************************************************************)
(* The helper thread of a unit of the SHMEM runtime and its work queue,    *)
(* dart_helper_thread.c: a ring of MAXNUM_WORK_ITEMS slots, a mutex and    *)
(* two condition variables.  Threads of the program push items, the helper *)
(* pops and executes them, and the main thread pushes the shutdown item    *)
(* and joins the helper when the unit exits (dart_exit_shmem).             *)
(*                                                                         *)
(* A critical section is one action: it begins with the mutex taken and    *)
(* ends with its release or with pthread_cond_wait, which releases it.  A  *)
(* thread that was signalled, or woke on its own, looks again.             *)
(***************************************************************************)
EXTENDS Integers, Sequences, FiniteSets

CONSTANTS
    Threads,    \* threads that may push; main is one of them
    Main,
    MaxItems,   \* MAXNUM_WORK_ITEMS
    Pushes      \* bound: items a thread pushes

ASSUME ThreadsAssumption == Main \in Threads /\ IsFiniteSet(Threads)
ASSUME SizesAssumption == MaxItems \in Nat \ {0} /\ Pushes \in Nat

NoItem == <<"none", 0>>
Shutdown == <<"shutdown", 0>>
Slots == 0 .. MaxItems - 1
Work == (Threads \X (1 .. Pushes)) \union {Shutdown}

VARIABLES
    users,      \* the threads of the program that push
    nitems, nextPush, nextPop, work,    \* the struct work_queue
    waitFull,   \* threads asleep on cond_not_full
    waitEmpty,  \* whether the helper is asleep on cond_not_empty
    pushed,     \* pushed[t]: items t has pushed
    at,         \* at[t]: where a thread of the program is
    helper,     \* where the helper is: "pop", "run" or "exited"
    item        \* the helper's item

queue == <<nitems, nextPush, nextPop, work>>
qvars == <<users, queue, waitFull, waitEmpty, pushed, at, helper, item>>

\* dart_work_queue_init, then pthread_create.
QInit ==
    /\ users \in {S \in SUBSET Threads : Main \in S}
    /\ nitems = 0 /\ nextPush = 0 /\ nextPop = 0
    /\ work = [s \in Slots |-> NoItem]
    /\ waitFull = {} /\ waitEmpty = FALSE
    /\ pushed = [t \in Threads |-> 0]
    /\ at = [t \in Threads |-> "run"]
    /\ helper = "pop"
    /\ item = NoItem

\* The item t pushes next: the shutdown after its own, and after those of the
\* other threads, which the program must have finished before dart_exit.
NextItem(t) == IF pushed[t] < Pushes THEN <<t, pushed[t] + 1>> ELSE Shutdown

MayPush(t) ==
    /\ t \in users /\ t \notin waitFull /\ at[t] = "run"
    /\ \/ pushed[t] < Pushes
       \/ t = Main /\ \A o \in users \ {Main} : pushed[o] = Pushes

\* dart_work_queue_push_item on a full queue.
PushWaits(t) ==
    /\ MayPush(t) /\ nitems >= MaxItems
    /\ waitFull' = waitFull \union {t}
    /\ UNCHANGED <<users, queue, waitEmpty, pushed, at, helper, item>>

\* Faulty variant: the signal is given when the queue was not empty.
PushSignallingLate(t) ==
    /\ MayPush(t) /\ nitems < MaxItems
    /\ work' = [work EXCEPT ![nextPush] = NextItem(t)]
    /\ nextPush' = (nextPush + 1) % MaxItems
    /\ nitems' = nitems + 1
    /\ waitEmpty' = (waitEmpty /\ nitems' # 2)
    /\ pushed' = [pushed EXCEPT ![t] = IF @ < Pushes THEN @ + 1 ELSE @]
    /\ at' = [at EXCEPT ![t] = IF pushed[t] < Pushes THEN @ ELSE "join"]
    /\ UNCHANGED <<users, nextPop, waitFull, helper, item>>

\* The rest of it: cond_not_empty is signalled when the queue was empty.
Push(t) ==
    /\ MayPush(t) /\ nitems < MaxItems
    /\ work' = [work EXCEPT ![nextPush] = NextItem(t)]
    /\ nextPush' = (nextPush + 1) % MaxItems
    /\ nitems' = nitems + 1
    /\ waitEmpty' = (waitEmpty /\ nitems' # 1)
    /\ pushed' = [pushed EXCEPT ![t] = IF @ < Pushes THEN @ + 1 ELSE @]
    /\ at' = [at EXCEPT ![t] = IF pushed[t] < Pushes THEN @ ELSE "join"]
    /\ UNCHANGED <<users, nextPop, waitFull, helper, item>>

PopWaits ==
    /\ helper = "pop" /\ ~waitEmpty /\ nitems = 0
    /\ waitEmpty' = TRUE
    /\ UNCHANGED <<users, queue, waitFull, pushed, at, helper, item>>

\* pthread_cond_signal wakes one of the sleepers, if there is one.
SignalOne(S) == IF S = {} THEN {S} ELSE {S \ {t} : t \in S}

\* Faulty variant: the item is read when the index has been advanced.
PopAfterAdvancing ==
    /\ helper = "pop" /\ ~waitEmpty /\ nitems > 0
    /\ item' = work[(nextPop + 1) % MaxItems]
    /\ nextPop' = (nextPop + 1) % MaxItems
    /\ nitems' = nitems - 1
    /\ waitFull' \in IF nitems' = MaxItems - 1 THEN SignalOne(waitFull) ELSE {waitFull}
    /\ helper' = "run"
    /\ UNCHANGED <<users, nextPush, work, waitEmpty, pushed, at>>

\* dart_work_queue_pop_item: cond_not_full is signalled when the queue was full.
Pop ==
    /\ helper = "pop" /\ ~waitEmpty /\ nitems > 0
    /\ item' = work[nextPop]
    /\ nextPop' = (nextPop + 1) % MaxItems
    /\ nitems' = nitems - 1
    /\ waitFull' \in IF nitems' = MaxItems - 1 THEN SignalOne(waitFull) ELSE {waitFull}
    /\ helper' = "run"
    /\ UNCHANGED <<users, nextPush, work, waitEmpty, pushed, at>>

\* dart_helper_thread: a send or a receive is done, the shutdown ends the thread.
Execute ==
    /\ helper = "run"
    /\ helper' = IF item = Shutdown THEN "exited" ELSE "pop"
    /\ UNCHANGED <<users, queue, waitFull, waitEmpty, pushed, at, item>>

WakeSpuriously ==
    /\ \/ waitEmpty /\ waitEmpty' = FALSE /\ UNCHANGED waitFull
       \/ \E t \in waitFull : waitFull' = waitFull \ {t} /\ UNCHANGED waitEmpty
    /\ UNCHANGED <<users, queue, pushed, at, helper, item>>

\* pthread_join in dart_exit_shmem.
Join ==
    /\ at[Main] = "join" /\ helper = "exited"
    /\ at' = [at EXCEPT ![Main] = "done"]
    /\ UNCHANGED <<users, queue, waitFull, waitEmpty, pushed, helper, item>>

ThreadStep(t) == PushWaits(t) \/ Push(t)
HelperStep == PopWaits \/ Pop \/ Execute
QNext == HelperStep \/ Join \/ WakeSpuriously \/ \E t \in Threads : ThreadStep(t)

\* Threads that can run do; the sends and receives of the helper find their
\* partners.  Nothing wakes a sleeper but a signal.
QFairness ==
    /\ WF_qvars(HelperStep) /\ WF_qvars(Join)
    /\ \A t \in Threads : WF_qvars(ThreadStep(t))

QSpec == QInit /\ [][QNext]_qvars /\ QFairness

-----------------------------------------------------------------------------
(* Properties.                                                             *)

Ring == [k \in 1 .. nitems |-> work[(nextPop + k - 1) % MaxItems]]

C == INSTANCE Channel WITH
        Capacity <- MaxItems, Items <- Work, inside <- Ring, last <- item

\* Type and shape: the count is the distance of the indices, the helper sleeps
\* only on an empty queue, and a thread that pushes alone only on a full one,
\* although both are woken at the edges only (push_item, pop_item).
QueueInv ==
    /\ users \subseteq Threads /\ pushed \in [Threads -> 0 .. Pushes]
    /\ work \in [Slots -> Work \union {NoItem}] /\ item \in Work \union {NoItem}
    /\ at \in [Threads -> {"run", "join", "done"}]
    /\ helper \in {"pop", "run", "exited"} /\ waitEmpty \in BOOLEAN
    /\ nitems \in 0 .. MaxItems /\ nextPush \in Slots /\ nextPop \in Slots
    /\ (nextPop + nitems) % MaxItems = nextPush
    /\ waitEmpty => nitems = 0 /\ helper = "pop"
    /\ waitFull \subseteq users
    /\ users = {Main} /\ waitFull # {} => nitems = MaxItems

\* The ring with its two indices and its count is a first-in first-out channel
\* of MaxItems places, whatever the threads do (push_item, pop_item).
ImplementsChannel == C!CInit(NoItem) /\ [][C!CNext]_(C!cvars) /\ []QueueInv

\* With one thread pushing, everything pushed is executed and the exit of the
\* unit returns: no signal is missed although push and pop give one only at the
\* edges, nitems = 1 and nitems = MaxItems - 1.
ExitReturns == users = {Main} => <>(at[Main] = "done")
=============================================================================
