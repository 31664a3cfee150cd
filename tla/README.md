# DASH and DART in TLA+

A verification development for DASH 0.2, the C++ template library for distributed
data structures, and DART, the runtime it is built on. The modules are
translated from the source (paths below are relative to the repository), checked
with TLC on small instances, and the properties that matter most are proved
with TLAPS for every value of the constants.

1. [The system](#1-the-system)
2. [Modules and how they correspond to the code](#2-modules-and-how-they-correspond-to-the-code)
3. [What is checked](#3-what-is-checked)
4. [What was found](#4-what-was-found)
5. [What is proved](#5-what-is-proved)
6. [Assumptions and what is not modelled](#6-assumptions-and-what-is-not-modelled)
7. [Plan](#7-plan)
8. [Running it](#8-running-it)

## 1. The system

A DASH program runs the same code at every *unit*. Units form *teams*, allocate
memory collectively over a team, and read and write each other's part of it
through *global pointers* with one-sided operations. DART is the C interface that
offers this (`dart-if/v3.2`); it has two implementations, `dart-impl/mpi` over
MPI-3 and `dart-impl/shmem` over System V shared memory and POSIX threads. DASH
(`dash/include/dash`) builds distribution patterns, containers, iterators, views
and algorithms on top.

There is little shared state and there are no threads in the MPI runtime: what is
hard is that every unit keeps its own copy of tables which must agree only in
part, and that a call is a sequence of MPI operations between which the other
units run. In the shared memory runtime the units share mutexes, conditions,
slots and FIFOs, and a launcher must tell how they ended. In DASH most code is
index arithmetic, which must agree with itself at all its edges; what is
concurrent are the few algorithms that overlap communication with computation, and
the lives of containers, which end in collective calls.

### Components

| Component | State | Operations | Interacts with | What is hard | What makes it correct | Modelled |
|---|---|---|---|---|---|---|
| MPI: queue lock (`dart_synchronization.c`) | tail word at unit 0, list word and `is_acquired` per unit | init, acquire, try_acquire, release, free | atomic one-sided operations, messages between two units, global memory | interleaving of swap, link, compare-and-swap and notification; empty messages shared by all locks of a team | mutual exclusion, first-in first-out, no lost waiter, no stray message, progress | partly: `MCSLock`, without free |
| MPI: one-sided communication (`dart_communication.c`) | handles with a request, operations under way | get, put, the handle and blocking forms, wait, test, flush, with `_local` and `all` forms | windows of teams and of the shared memory of the node, translation table | local and remote completion; requests that MPI resets; copies within the node | each call returns only after what it promises has happened | `OneSided`; where an access goes is in `GlobalMemory` |
| MPI: collective communication | none | barrier, bcast, gather, scatter, allgather | MPI | one MPI call each | as MPI | no |
| MPI: groups, teams, team list (`dart_team_group.c`, `dart_team_private.c`) | per unit: id counter, free slots, sorted list of teams, communicator and window per slot; groups | group operations, team_create, team_destroy, lookup | every other component finds its team here | counters of units of different teams; slots recycled in different orders; a unit without a slot; union of groups as a merge | ids grow, a team is found at every member, slots are conserved | `TeamRegistry` |
| MPI: global memory and translation table (`dart_globmem.c`, `dart_translation.c`) | per unit: segment counters, table from segment to window, addresses and sizes | memalloc_aligned, memfree, memregister, memderegister, lookup | team list, one-sided communication | segment ids counted by each unit for all its teams; frees in any order; slots in pointers | a pointer finds its region, an access finds the unit and the memory it is for | `GlobalMemory` |
| MPI: local allocation (`dart_mem.c`) | a tree of buddies | alloc, free, size | locks (the tail word) | splitting and combining over long sequences | blocks are disjoint, freed space comes back | `BuddyAllocator`, `LocalMemory` |
| MPI: initialisation and exit (`dart_initialization.c`) | the windows of the world, `_init_by_dart` | init, exit | all of the above | order of the frees | nothing is used after it was freed | partly: as initial states |
| SHMEM: process-shared barrier (`shmem_barriers_sysv.c:193-244`) | mutex, condition, counter | create, await, destroy | synchronisation area, team deletion | rounds that overlap, wakeups without a broadcast | nobody leaves early, everybody leaves | `SysvBarrier` |
| SHMEM: groups, synchronisation area, teams (`shmem_barriers_sysv.c`, `dart_teams_impl.c`, `dart_groups_impl.c`) | table of team slots in shared memory, table per unit, two tables per group | group operations, newteam, delteam, team_create, team_destroy | barrier, FIFOs | slots found by id while unit 0 clears them; a team without a slot | a barrier call finds the barrier of its team | `SyncArea`, `ShmemTeams` |
| SHMEM: locks (`dart_locks.c`) | slots of process-shared mutexes | init, free, acquire, try_acquire, release | barrier, broadcast | slots freed before the barrier | a slot belongs to one lock at a time | `SyncArea`, `ShmemTeams` |
| SHMEM: FIFOs and collectives (`shmem_p2p_sysv.c`, `dart_collective_impl.c`) | a named pipe per pair of units | send, recv, bcast, gather, scatter, allgather | barrier | opens that must meet; operations that follow each other without a barrier | a message is received by the call it was sent for, nobody waits for ever | partly: `ShmemTeams`; no reads in pieces |
| SHMEM: helper thread and work queue (`dart_helper_thread.c`) | a ring of work items, mutex, two conditions | push, pop, the thread's loop, shutdown | exit of the unit | signals at the edges only, several producers | items are processed once and in order, the exit returns | `WorkQueue` |
| SHMEM: memory pools and buckets (`dart_memarea.c`, `dart_mempool.c`, `dart_membucket.c`) | lists of free and allocated chunks | create, alloc, free, destroy | teams | splitting, merging neighbours | chunks are disjoint and cover the bucket | partly: the bucket in `LocalMemory`; no list of pools |
| SHMEM: one-sided access and accumulate (`dart_onesided.c`) | none | get, put (memcpy), accumulate | pools | a compare-and-swap loop | no update is lost | no |
| SHMEM: launcher, start and exit (`dartrun.c`, `dart_init_*.c`) | table of processes, shared segment with a state per unit | spawn, wait, kill, cleanup; init, exit | all units | units that end at any moment, asleep in a barrier or after their mark | an end is not taken for a failure nor a failure for an end, and the run ends | `Launcher` |
| SHMEM: segments, System V collectives | none | create, attach | teams | none | one system call each; the second file is empty | no |
| DART base | log level | logging | all | none | none | no |
| DASH: teams, init, finalize (`Team.h`, `Init.cc`) | tree of teams, deallocator list per team | split, free, barrier, finalize | DART teams, containers | a loop over a list that its own calls change, with collective calls inside | the units make the same collective calls, nothing is called after exit | partly: `Lifetimes` |
| DASH: containers, global memory (`Array.h`, `Matrix.h`, `GlobMem.h`, `Shared*.h`) | pointers, sizes, patterns | construct, allocate, deallocate, destroy, access | teams, patterns, DART memory | memory freed while others read; containers that outlive their team | accesses reach live memory, an array is one array | partly: `Lifetimes`, `DashArray`, `MatrixView` |
| DASH: patterns (`pattern/*`, `Cartesian.h`, `TeamSpec`, `Distribution`, `MakePattern.h`) | immutable after construction | construction from argument lists, maps between global, local, unit and block indices, choice of a pattern by properties | containers, iterators, views, algorithms | underfilled blocks, units without elements, boundaries, orders | the maps are inverse to each other, storage is dense, properties hold | partly: seven classes and `make_pattern` |
| DASH: iterators, references, views (`GlobIter.h`, `GlobViewIter.h`, `MatrixRef*`) | position, pattern, view spec | arithmetic, dereference, sub, projection, block, local | patterns, DART access | views of views, local coordinates | a view reaches the elements of its section | partly: `DashArray`, `MatrixView` |
| DASH: algorithms (`SUMMA.h`, `Copy.h`, `MinMax.h`, `Fill.h`, `ForEach.h`, `LocalRange.h`) | buffers, futures, a shared minimum | summa, copy, copy_async, min_element, fill, for_each | all of DASH | buffers used while a read is under way; collective calls inside | the result is that of the sequential algorithm | partly: `Summa`, `DashArray`; not transform, accumulate |
| DASH: utilities, logging, timers, LAPACK | none shared | | | none | none | no |
| Build files, examples, tests, benchmarks | | | | | | read for how the code is used |

`PROJECT.json` lists the same components with their sources, and under `hazards`
what in this code is hard to test, at the line where it bites, with the properties
that would notice.

## 2. Modules and how they correspond to the code

Specifications, abstract specifications and proofs:

| Module | What it is | Uses |
|---|---|---|
| `MCSLock` | the queue lock of the MPI runtime, with its inductive invariant | |
| `FifoLock` | what a lock promises: a queue whose head may own it | |
| `MCSLockFifo` | `MCSLock` with a history variable, shown to implement `FifoLock` | `MCSLock`, `FifoLock` |
| `OneSided` | completion of one-sided operations at one origin, with its inductive invariant | |
| `MpiProofs` | theorems about the lock and about one-sided operations | `MCSLockFifo`, `OneSided` |
| `TeamRegistry` | groups, teams and team list of the MPI runtime, with their inductive invariant | |
| `GlobalMemory` | global memory and addressing, composed with the teams | `TeamRegistry` |
| `GlobalMemoryProofs` | theorems about both | `GlobalMemory`, `RecursionLemmas` |
| `RecursionLemmas` | induction, and what recursive functions, folds and sums over finite sets compute | |
| `SysvBarrier`, `SysvBarrierProofs` | the process-shared barrier of the SHMEM runtime | `RoundBarrier`, `RecursionLemmas` |
| `RoundBarrier` | what a barrier promises: rounds | |
| `SyncArea` | the shared structure of the SHMEM runtime, as operators | |
| `ShmemTeams` | groups, teams, locks and collectives of the SHMEM runtime | `SyncArea` |
| `ShmemTeamsLemmas` | what its calls do, its inductive invariant, the steps between calls and in barriers | `ShmemTeams`, `RecursionLemmas` |
| `ShmemTeamsProofs` | the other steps, and the theorems about it | `ShmemTeamsLemmas` |
| `BuddyAllocator` | the local heap of the MPI runtime, as operators | |
| `LocalMemory` | the local heap of the SHMEM runtime, and the allocation calls of both runtimes, shown to implement `Heap` | `BuddyAllocator`, `Heap` |
| `Heap` | what a heap promises: disjoint blocks, refused only without room | |
| `WorkQueue` | the work queue of the helper thread, shown to implement `Channel` | `Channel` |
| `Channel` | a bounded first-in first-out channel | |
| `Launcher` | `dartrun` and the start and exit of its units, with its inductive invariant | |
| `ShmemProcessProofs` | theorems about the work queue and the launcher | `WorkQueue`, `Launcher` |
| `Lifetimes` | teams of DASH, containers, initialisation and finalisation | |
| `PatternParts` | distributions and their mappings, index spaces, view specs, team specs, constructors' argument lists, properties of pattern classes | |
| `BlockPattern1D`, `BlockPattern`, `TilePattern1D`, `TilePattern`, `ShiftTilePattern1D`, `ShiftTilePattern`, `CSRPattern` | the seven pattern classes, as operators | `PatternParts` |
| `Patterns` | the pattern concept over all classes, what a pattern owes its users, and `make_pattern`: the choice of a class by properties | all of them |
| `MatrixView` | views of a matrix and their iterators; what a pattern answers to `summa` | `Patterns` |
| `Copy` | how a range is cut into reads | |
| `DashArray` | `dash::Array` and the algorithms on it, shown to implement `GlobalArray` | `MatrixView`, `Copy`, `GlobalArray` |
| `GlobalArray` | one array, and the calls on it, with no units and no layout | |
| `Summa` | the matrix multiplication, shown to implement `BlockProduct`, with the inductive invariant of its buffers | `Copy`, `BlockProduct` |
| `SummaProofs` | theorems about it | `Summa`, `RecursionLemmas` |
| `BlockProduct` | blocks of C that take each panel once, in any order | |
| `MC...` | constants for TLC | |

Some modules hold *faulty variants*: a definition with a plausible mistake, placed
before the one it distorts and named after the mistake. They are no part of
any specification. For every property there is one that breaks it (`mutants` in
`PROJECT.json`), which shows that the property depends on the code.

### `MCSLock`, `MCSLockFifo`

One step is one atomic one-sided operation with the `MPI_Win_flush` after it, or
one message operation. The state is the memory of the lock (`tail`, `list`), the
field `is_acquired` of each unit, its local variables `predecessor` and `next`, a
program counter for the calls that take more than one step, and the messages
under way. The messages have tag 0, no contents, and the communicator of the
team, so a channel is a counter per pair of units and *not* per lock.

| Action | Code (`dart_synchronization.c`) |
|---|---|
| `EnterInit`, `ReceiveTail`, `AllocateList`, `FinishInit` | `dart_team_lock_init`: tail at unit 0, broadcast of its pointer, collective allocation of the list (26-79) |
| `AcquireFree`, `AcquireQueued` | the swap on the tail (110) |
| `LinkPredecessor`, `ReceiveNotification` | the swap on the predecessor's word (124) and `MPI_Recv` (132) |
| `TryAcquire` | the compare-and-swap -1 to unit (159) |
| `ReleaseLast`, `ReleaseContended` | the compare-and-swap unit to -1 (206) |
| `ReadNext`, `SendNotification`, `FinishRelease` | the loop on the own word (222), `MPI_Send` (235), the reset (236) |

A new list word holds an arbitrary value until its unit stores -1. A program may
hold a lock while it asks for another one when the pair is in `Before`; in the
run it is an order, without which any locks deadlock. `MCSLockFifo` adds
`arrivals`, the units in the order of their swaps, which no action reads.

### `SysvBarrier`

The mutex is its `owner`; `Sleep` is the release of the mutex inside
`pthread_cond_wait`, `Reacquire` its return, `Broadcast` the branch of the last
unit. The single `pthread_cond_wait` is not in a loop, therefore what POSIX calls
a spurious wakeup matters: `WakeSpuriously` may happen at any time, and `spurious`
remembers that one has. `entered` and `left` count calls and returns; they exist in
the model only. `Destroy` is `sysv_barrier_destroy` by unit 0, after its last
barrier, while others may still be leaving.

### `OneSided`

One origin, operations in slots (`Ops`), each with a place (target and window) and
a stage: issued, locally complete, remotely complete. The network moves
operations forward at any time (`NetworkStep`). Each issuing call and each call
that waits is one action; its guard is that what MPI waits for has happened, so the
action is the return of the call. The blocking forms have two steps, because
operations issued earlier complete in between. A get from a target on the same node
is a `memcpy` with a handle whose request is `MPI_REQUEST_NULL`.
The variable `returned` remembers the last call and its operations; the
promises are about it. `handle`, `request` and `consumed` together tell what the
code can and cannot know when it waits.

### `TeamRegistry` and `GlobalMemory`

Every unit has its own tables. Collective calls are matched as MPI does: each
communicator has a sequence of calls, and a unit's n-th call on it joins the n-th
call of the others; the calls of one unit on different communicators may be in any
order. A call waits only where MPI makes it wait (`Everybody`, `Neighbours`):

| Definition | Code |
|---|---|
| `GroupUnion`, `GroupIntersect`, `AddMember`, `DelMember`, `GroupSplit` | the operations on groups; the union is MPI's, brought into order by one merge of two runs |
| `EnterCreate`, `CompleteCreate` | `dart_team_create` up to `MPI_Comm_create` and `MPI_Allreduce(MAX)` |
| `CreateForOthers`, `CreateWithoutSlot`, `CreateInSlot`, `FinishCreate` | the rest of it: no member, no slot, slot taken, windows created |
| `EnterDestroy`, `FinishDestroy` | `dart_team_destroy`, `dart_adapt_teamlist_recycle` |
| `Search`, `Position` | the binary search of `dart_team_private.c` |
| `EnterMemalloc`, `FinishMemalloc`, `FinishMemregister` | the aligned allocation and registration, up to and from `MPI_Allgather` |
| `EnterMemfree`, `FinishMemfree`, `Memderegister` | both ways to free; the first waits for the units of the node, the second for nobody |
| `Lookup`, `RemoveEntry` | `dart_translation.c` |
| `Through`, `Copied`, `Reached`, `ReachedByHandle` | how `dart_get`, `dart_put` and the others find window, rank and address |

A region is named by its communicator and the number of the call that made it, a
name the program never sees; a pointer has a segment id and the slot its team had
at the unit that computed it. That a pointer leads to its region is a
property, not an assumption. The groups of the run are made by recipes, lists of
group operations (`Recipes`).

### `SyncArea` and `ShmemTeams`

`SyncArea` has the functions that hold `barrier_lock` from beginning to end, each of
them an operator from an area to an area, and the barrier objects in its slots as
`RoundBarrier` allows to see them: who sleeps, who has been woken. `ShmemTeams` runs
a program, a sequence of collective calls, at every unit; a call is expanded into
the list of its steps for that unit (`CreateSteps`, `DestroySteps`, `BcastSteps`,
`GatherSteps`, `LockInitSteps`, ...), and each step is an action: finding the slot of a
barrier, arriving, leaving, opening a FIFO for reading, sending (which waits for
the reader), receiving, taking or clearing a slot in the area, changing the
unit's own table. Between calls units acquire and release locks. What the interface
demands of programs is `WellFormed`: the members of a team make the same calls on it in the
same order, with groups of members, and none on a team or a lock they have begun to
destroy. `dart_lock_acquire` is two steps, so that a unit that waits for the mutex is in a call
that must return.

`Garbage` are the values an unset team id may read as, any integers: the id is a variable of
`dart_team_create` that nobody has written, and may hold that of the world or of another team. A unit
that finds a team by it (`Misled`) writes its own table over the entry of that team, or, if it is the
world's, clears the table (`InitMisled`); what it goes on to do is left open, and the
properties speak of the time before (`NobodyLost`). A team that takes a slot whose
barrier others are still leaving finds a mutex and a condition in use, and
`sysv_barrier_create` initialises them anew. That is undefined, so such a barrier is *torn*:
whoever is in it, or enters it later, may return or not, at any time, and nothing is assumed
of its fairness.

### `LocalMemory`

`BuddyAllocator` is the tree of node states in its array: the walk down the tree,
which goes left first, is stated as the node it ends at, the walk up as what it
marks. The bucket (`BucketCreate`, `BucketAlloc`, `BucketFree`) is the sorted list of free
chunks and the list of allocated ones. An offset given to a free may be any. `Heap` is a
set of blocks: an allocation must find a place if there is an aligned free one of
the rounded size (buddies) or a free stretch of that length (bucket), so it demands
that everything that can be joined has been.

`IntBits` stands for the 32 bits of `uint32_t` and `int`, to which sizes are cut
(`dart_mem.c:30`, 74; `IsPowOf2`, `AsInt`). A request of up to `2^(IntBits - 2)` bytes is the
request it should be (`Limit` of `Heap`). A larger one may be taken for a small one, and then
`Heap` asks only that the block is in a place of its own; or for one of no or negative size,
for which the walk goes on to children behind the end of the array and writes them
(`MemallocOverruns`): there the model ends.

### `WorkQueue`

A critical section is one action. `PushWaits` and `PopWaits` are the calls of
`pthread_cond_wait`, `Push` and `Pop` what follows; a signal wakes one of those who
wait, and anybody may wake without one. Items are pairs of thread and number, the
main thread's last one is the shutdown (`dart_exit_shmem`), followed by `Join`.
`users` is chosen at the start: the threads that push.

### `Launcher`

The launcher forks the units (`Spawn`), waits for any child (`Wait`), after the first
that has not set its state to a clean exit goes through its table and sends SIGTERM
(`Kill`, one table entry a step), and removes the shared area (`Remove`), in that case
without waiting for those it has killed (`Terminate` is the end of such a unit). A unit goes through the barriers of init and exit (`Arrive`, the last one
to arrive releases them all), sets its mark (`Mark`) and ends; `Crash` ends it anywhere
and leaves it counted in the barrier it sleeps in. Crashes are not fair: they need
not happen.

### `Lifetimes`

Every unit runs the same program, a list of calls on containers and teams. A call
is a list of steps; barriers, allocations and the creation of teams are steps the
units of a team take together, and so is the end of a shared window, which
`dart_team_memfree` leaves to `MPI_Win_free` and which the team's units on one node
(`NodeOf`, `Neighbours`) take together (`Release`, then `FreeWindow`). Everything else is a step of one
unit. `Loop`, `Invoke`, `Advance` are the loop of `Team::free`, over a list from
which each deallocator removes itself; `Without` and `Before` give where libstdc++'s
circular list leaves the iterator. What containers expect of their user and do not
see to themselves, a barrier between the use of a `Matrix` and its destruction and
the like, is in `Disciplined`, which the programs must satisfy (`ProgramsAssumption`).

### Patterns

A pattern is a record of the members its constructors compute; each method is an
operator with the method's name, in a module per class. `PatternParts` reads
argument lists left to right as `PatternArguments.h` does, including what a later
argument does to the spec an earlier one has set. `Patterns` chooses by class and
states the pattern concept (`Layout`: what a pattern answers for every element and
unit, computed once per array), and translates the SFINAE conditions of `make_pattern`
into a choice by sets of properties (`MakePattern`).

### `DashArray`, `MatrixView`

`DashArray` runs on an array chosen from `Arrays`. Assignments, `fill`, `copy` in both
directions, `copy_async` and `for_each` act while nobody is inside `min_element`;
`min_element` is a sequence of steps per unit (`CallMin`, `ReduceLocal`, `ShareMin`,
`SearchMin`, `ReadMin`, `LeaveMin`) with its barriers and its broadcast, where unit 0
frees the shared value (memory read after that is `Garbage`). `MatrixView` has
`MatrixRef`, `LocalMatrixRef` and `GlobViewIter` as operators on view records.

### `Summa`

Each unit has two pairs of buffers, the pointers into them and into local memory, and
the reads it has under way, which end one at a time, in any order, whenever they
like. `Begin` and `Prefetch` start reads, `AwaitFirst` and `AwaitNext` wait for
futures and swap, `Multiply` is `multiply_local`, which reads what the pointers
lead to at that moment. Dimension 0 is the column.

`Summa` does not know the pattern classes. All the loop asks of a pattern is in a record:
extents, where elements are, where blocks begin, the blocks of each unit. `MatrixView`'s
`Answers` computes it with the methods `summa` calls, `Accepted` says which patterns
compile, and `MCSumma` gives `Summa` the answers of those of its patterns that do. What
`summa` takes for granted about the answers is `WellTiled`, an assumption TLC evaluates on each of
them; for its result to be the product it needs `Multipliable` besides, which the patterns of
`MCSumma` satisfy and the theorem about the product has as its hypothesis.

## 3. What is checked

`properties` in `PROJECT.json` names the definitions; each is explained where it is
stated.

| Run | Instance | Distinct states | What it shows |
|---|---|---|---|
| `MCSLockFifo` | 3 units, 2 locks, one may be held when the other is asked for | 14 543 | the inductive invariant, mutual exclusion, no stray message, no lost waiter, first-in first-out (refinement of `FifoLock`), no deadlock, every queued unit gets the lock and every release returns, from initialisation on |
| `SysvBarrier` | 4 units, 3 rounds, any spurious wakeups | 71 062 | up to the first spurious wakeup the barrier is a round barrier and every call returns; after it the counter still counts calls modulo the team size |
| `OneSided` | 2 operations, a near and a far target, 2 windows | 65 553 | which promises of the calls are kept |
| `OneSided_waitall` | 2 operations, 1 window | violation | the promise of `dart_waitall` is not |
| `GlobalMemory` | 3 units on 2 nodes, 3 team slots, 2 overlapping groups, 4 collective calls | 70 034 | tables, teams, pointers and accesses over every interleaving |
| `ShmemTeams` | 3 units, 3 team slots, 1 lock slot, 36 programs | 36 930 | team lookup, barriers, messages, locks, and that the programs end |
| `LocalMemory` | heaps of 8 units, requests of 0, 1, 2, 3, 9, 17, 66, sizes cut to 6 bits, 4 blocks in use | 236 850 | both allocators implement `Heap`, and lose nothing |
| `WorkQueue` | 3 threads, a ring of 2, 3 items a thread | 13 527 | the ring is a bounded channel; with one producer the exit returns |
| `Launcher` | 4 units, any of which may die | 18 098 | the launcher's verdict and that the run ends |
| `Lifetimes` | 3 units in 2 parts and on 2 nodes, 58 programs with 1 to 4 containers | 61 114 | accesses and deallocators meet live memory, collective calls match, no call after exit, the programs end |
| `DashArray` | 309 arrays over the seven pattern classes, teams of 1 to 3 units; on some, all operations | 69 690 | patterns, views, ranges; one array behind any layout; `min_element` returns |
| `Summa` | 7 matrices on 1 to 4 units; 2 classes that are refused | 27 821 | buffers are ready when used, panels are added once, the product comes out |

### Bounds and why they are enough

* `MCSLockFifo`: three units are the fewest at which one unit releases while a second
  is linking and a third swaps behind it, and at which one can come back to the end
  of the queue it has just left. Two locks are the fewest with which a message could be
  taken for the wrong lock. Nothing counts upwards: the state space is complete, and
  the proofs remove the bounds for everything but liveness.
* `SysvBarrier`: the hazard is a unit that is a round ahead; three rounds let a fast
  unit enter a round while the slow ones are still in the one before, twice. The
  proofs remove the bounds on units and rounds.
* `OneSided`: operations interact only by sharing a place or a `waitall`; two
  slots (reused without end, by `Retire`) show both, and the proofs remove the bounds.
* `GlobalMemory`: `MaxCalls` (4) bounds all collective calls together: enough to
  make a team, allocate in it and in another one, free or destroy, and for each
  member to do so in a different order. `MaxTeams` (3) makes the slots run out after
  two teams. The groups `{1, 2}` and `{0, 2}` overlap in one unit, which so has more
  teams than the others, and neither is all units. Unit 0 is alone on its
  node, units 1 and 2 share one, so the world has near and far pairs. `MaxSeg` is
  that of `int16_t` and is not reached. The proofs remove all bounds but that of `MaxSeg`.
* `ShmemTeams`: two slots besides the world's are one too few for three teams; a
  slot is recycled while another team lives and while others are still asleep in the
  barrier of its last owner. One lock slot is one too few for two locks. The programs are
  those of `MCShmemTeams`: creations and destructions of two and three overlapping
  teams, of teams of teams, and pairs of collectives after each other.
* `LocalMemory`: eight units are three levels of buddies; requests of 3 and 9 are
  rounded and refused, 0 is an edge, 17 is above what 6 bits can round up and 66 has the low
  bits of 2; any offset may be given to a free. Four blocks
  at a time fragment the heap in every way the four levels allow.
* `WorkQueue`: a ring of two is the smallest whose edges differ; three threads are enough
  for two to sleep on a full ring while a third pushes. The proofs remove these bounds.
* `Launcher`: four units, so that two can sleep in a barrier with a dead one counted
  while the last one arrives. The proofs remove the bound for safety.
* `Lifetimes`: a team of two and one of one show that parts do not wait for each other; of
  the three units two share a node, so that windows of a team end in two groups or in one.
  Lists of one to four deallocators are the lengths at which the loop of `Team::free`
  behaves differently.
* `DashArray`: one dimension up to eight elements with all distributions and underfilled
  last blocks, all local sizes 0 to 2 of up to three units (CSR), two dimensions of
  blocks, tiles and shifted tiles in both orders, and what `make_pattern` gives for
  five requests. The operations of units are interleaved on the arrays
  `Exercised`, with two calls of `min_element` in a row, and reads of at most two
  elements so that ranges are cut.
* `Summa`: matrices of four to sixteen elements in two to four blocks a side, tiles of
  one and of four elements, one to four units, so that a unit has several blocks and
  some panels are local and some are not; the elements differ and do not commute. A
  read takes at most four elements, a block.

Deadlock is checked for `MCSLockFifo`, `OneSided`, `OneSided_waitall` and `Summa`. It
is not where the program ends (`SysvBarrier`, `ShmemTeams`, `WorkQueue`, `Launcher`,
`Lifetimes`, `DashArray`, `GlobalMemory`) or may have nothing left to ask for
(`LocalMemory`); that programs end rightly is a liveness property in those which have
one. In `GlobalMemory` a member without a slot leaves the others waiting
in `MPI_Win_create_dynamic`.

### Fairness

* `MCSLock`: a unit inside a call runs (weak fairness of each step; the operating
  system schedules processes, MPI makes progress on one-sided operations and
  messages). For `MPI_Send` only its return after the matching receive is assumed,
  which is what MPI promises when it does not buffer. The program initialises a
  lock at every unit and releases what it holds; the latter is strong because it may
  make other calls in between. No unit has to ask for a lock, and nothing is
  assumed of `AcquireFree`, `AcquireQueued` and `TryAcquire`.
* `SysvBarrier`: a unit inside the barrier runs, and the program calls the barrier at
  every unit as often. A unit blocked in `pthread_mutex_lock` gets the mutex
  since the others enter the critical section only once each round.
* `ShmemTeams`: a unit inside a call runs, the program goes on to its next call
  (strong, because acquiring and releasing locks between calls turns it off and on),
  a held lock is released, and a unit that waits for a mutex nobody holds gets it if it stays free.
  Nobody has to ask for a lock. Nothing is assumed of units in a torn barrier, and
  `EveryCallReturns` is about the time before there is one.
* `WorkQueue`: the threads, the helper and the join run. Spurious wakeups are not fair:
  nothing is rescued by one.
* `Launcher`: the launcher and the units run, and a signal sent arrives. Crashes are
  not fair; a unit that waits for a dead one may wait until it is killed.
* `Lifetimes`: each unit takes its own steps, and the steps a team takes together when
  all are there.
* `DashArray`: a unit inside `min_element` goes on, and a call one unit has made is
  made by the others.

## 4. What was found

One run violates its property (`findings` in `PROJECT.json` has the quotation):
**`dart_waitall` never flushes** (`dart_communication.c:1156`). It looks at the
requests after `MPI_Waitall` has reset them to `MPI_REQUEST_NULL`, so the remote
completion the interface promises is not ensured. TLC's trace is a put with a handle, its
local completion, and a `dart_waitall` that returns; the early return for a NULL first handle (1073)
is not taken for a violation (`WaitallPromise` leaves it out). `FirstWaitPromise` is what
remains true of `dart_wait`.

Other observations made while translating. They are built into the models, excluded by
a stated condition, or outside of what is modelled.

*MPI runtime*

* `dart_wait` after `dart_wait_local` does not flush (`dart_communication.c:924`); a
  NULL first handle hides the others in `dart_waitall_local` and `dart_waitall`
  (969, 1073).
* Segment ids are counted by each unit over all its teams (`dart_globmem.c:275`, 300), so
  they are not aligned across a team. Inside the runtime this is harmless, because every
  lookup uses the unit's own pointer (`AccessesHit`). They are `int16_t` and wrap after 32 767
  allocations.
* Handles and blocking puts use global unit ids for registered memory, whose ids are
  negative (`dart_communication.c:312`, 558): they translate only when `seg_id > 0`.
* `dart_group_union` with its result aliasing the first operand leaves the members
  unsorted; `dart_group_split` uses a ceiling division, so the last parts may be
  empty.
* `dart_memfree` asserts where builds without `NDEBUG` stop; the model is of builds
  with it.
* Requests above 2^30 bytes may get a block that is too small from the local heap, or
  overrun its tree (`dart_mem.c:30`, 74).

*SHMEM runtime*

* After one spurious wakeup in `sysv_barrier_await` (235) a unit leaves early and stays
  counted: each later round is one arrival short. `CounterCountsCalls` states exactly what
  goes on.
* With no team slot left the new id is unset; when it reads as `DART_TEAM_ALL` or as the id of
  another team, that team's entry is initialised again (`dart_teams_impl.c:111-118`, 286-347).
* A slot's mutex and condition are initialised again while woken units of its last team may
  still be on their way out (`shmem_barriers_sysv.c:123`, 199, 206).
* With several producers, `dart_helper_thread.c` can lose a wakeup: two producers
  asleep on a full ring, one signal (only at the edge `MAXNUM - 1`).
  `ExitReturns` is for one producer, which is how the runtime uses the queue.
* `dart_scatter` copies the root's own part in the wrong direction
  (`dart_collective_impl.c:90`), `dart_allgather` broadcasts one part's size (137),
  `dart_gptr_setaddr` and `dart_gptr_getaddr` use different bases (`dart_malloc.c:35`,
  55), the one-sided address is a difference of global unit ids times the local size
  (`dart_onesided.c:74-76`, 211, 237), and `dart_accumulate` scales offsets by the
  size of an int (74, 86). A union whose result aliases an operand loses members, and
  `dart_group_delmember` leaves a stale local id.
* The launcher stores a failed fork as process -1: it hangs, and with two failures it
  signals every process (`dartrun.c:89-98`, 122-126). Its clean-up matches
  `sysv-12` also in the names of run 123 (197-219). It does not wait for the units it
  kills.
* A bucket gives a chunk of no bytes to a request of zero, at the place of the
  next one; `dart_memfree` and `dart_team_memfree` are empty.

*DASH: patterns*

* `make_pattern` accepts neighbor and diagonal mappings with a canonical layout and does
  not honour them (`MakePatternTest.cc:91-111` asks for it); a balanced mapping is not
  checked against extents that are no multiple of the units; `multiple` and the storage
  order are ignored by the constraints. The default layout is not linear, because
  `row_major` has no specialization.
* A single distribution never sets `_is_tiled`, so `TilePattern(a, b, TILE, TILE, team)`
  throws; a team after a team spec is ignored; `TeamSpec(team)` is not adjusted to
  the distribution its documentation speaks of (`Cartesian.h:672-687`); examples in the
  comments of `BlockPattern.h` (134, 162, 240) throw, or put everything on unit 0.
* `TilePattern::operator=` does not copy `_myid`; `ShiftTilePattern::global(index)` uses
  `dash::myid()`; `CSRPattern` never compares the sum of local sizes with the size; a
  its `local_size(unit)` is the caller's size whatever unit it is asked for (1110), and `copy`
  cuts ranges by it (`Copy.h:188`, 351; `SizesKnown`); a
  pattern of `NONE` in all dimensions counts every element as local at each unit;
  the block methods of `BlockPattern` in several dimensions do not compile, and
  `block()` in one dimension multiplies with the size.

*DASH: containers, iterators, algorithms*

* `GlobIter::is_local` and `local` compare a unit of the team with a global id
  (`GlobIter.h:243`), and `min_element` on a part of the units hangs
  (`MinMax.h:46`, 87): the algorithms are modelled for all units. Their local ranges are right
  for contiguous layouts only (`Contiguous`).
* A copy into a global range with parts on both sides of the local one misplaces the last
  part (`Copy.h:918`); `copy_async` of a matrix block longer than the largest read reads
  elements outside of it; the copy from global to global is a stub.
* `Team::free` (`Team.h:233-243`) loops over a list its calls remove elements from. With one
  and three containers all are freed, the latter only because libstdc++'s list
  is circular; with two, four and five some are skipped.
* `Matrix::deallocate` and `~Shared` have no barrier, `Array`'s has; a counter has none
  after it was set to zero (`SharedCounter.h:27`). A container of a part of the units that is
  never freed makes `~Team` call `dart_barrier` after `dart_exit`. A default-constructed
  array leaves a member uninitialised that its destructor tests. `Disciplined` is what a
  program has to do about these.
* `matrix.row(r)[k]` names column r; a sub of a sub in one dimension replaces the offset;
  `matrix[i].begin()` and the local view of a sub-range ignore offsets; the coordinates of
  `matrix.local.begin()` are global. `ViewsSeeSections` says which views are right.
* `summa` multiplies blocks row by row, whatever the storage order (`SUMMA.h:69`): with
  tiles of several elements in row-major order, the default of `make_pattern`, the
  result is not the product (the test's comparison is disabled in `SUMMATest.cc`). The
  model is of column-major tiles and of single elements.

## 5. What is proved

All proofs are checked by `tlapm` with Z3, Zenon and LS4, and none has an
open step.

| Theorem | Statement |
|---|---|
| `MpiProofs!Invariance` | `Spec => []IInv` |
| `MpiProofs!TypeCorrect`, `LockIsExclusive`, `MessagesReachTheirLock`, `WaitersAreNamed` | `[]TypeOK`, `[]MutualExclusion`, `[]NoStrayMessage`, `[]NoLostWaiter` |
| `MpiProofs!LockIsFifo` | `HSpec => ImplementsFifoLock`: the refinement of `FifoLock`, and the words spell the queue |
| `SysvBarrierProofs!BarrierInvariance`, `BarrierRefinement` | `[]IInv` and the refinement of `RoundBarrier`, both up to the first spurious wakeup |
| `SysvBarrierProofs!CounterOfCalls` | `[]CounterCountsCalls`, spurious wakeups or not |
| `MpiProofs!CompletionInvariance`, `FirstWaitIsRemote` | `[]CompletionInv`, of which the promises of the calls are conjuncts, and `[]FirstWaitPromise` |
| `ShmemProcessProofs!QueueInvariance`, `RingIsChannel` | `[]QueueInv`, `Spec => ImplementsChannel` |
| `ShmemProcessProofs!LauncherInvariance`, `LauncherVerdict`, `MarksAreFinal` | `[]IInv`, `[]VerdictRight`, `[]MarkedIsUnneeded` |
| `ShmemTeamsLemmas!GroupsAreRanked` | adding, removing, union and intersection give the group their names say, its two tables inverse to each other and ascending |
| `ShmemTeamsProofs!TeamsInvariant` | `[]IInv`: some values of three functions tell the whole state of `ShmemTeams` |
| `ShmemTeamsProofs!TeamsResolveAlways`, `SleepersBelongAlways`, `MessagesMatchAlways`, `LocksApartAlways` | `[]TeamsResolve`, `[]SleepersBelong`, `[]MessagesMatch`, `[]LocksApart`, each up to the first unit that is misled (`NobodyLost`) |
| `ShmemTeamsProofs!TeamsResolveWithSlots` | `[](NobodyLost /\ TeamsResolve)`, if programs create fewer teams than there are slots |
| `GlobalMemoryProofs!SearchFinds`, `MadeIsGroup` | the binary search of the team list finds what is there; operations on groups, however combined, give ascending groups |
| `GlobalMemoryProofs!TablesStayWellFormed`, `TeamsAreFound` | `[]TablesWellFormed`, `[]TeamsResolve` |
| `GlobalMemoryProofs!AccessesReachTheirUnits` | `[]AccessesHit`, if `MaxCalls < MaxSeg` |
| `SummaProofs!SummaBuffers` | `Spec => []BuffersReady` |
| `SummaProofs!SummaMultiplies` | `Spec /\ Multipliable => ImplementsBlockProduct`: the refinement of `BlockProduct`, and the result is the product, if tiles are column-major or single elements |

**Assumptions.** Those named in the modules: `-1` is no unit and unit 0 is a member
(`UnitsAssumption`), the team is finite and `num_procs` is its size
(`SizeAssumption`), and so on; in `ShmemTeams` the units are the numbers from 0 on, as
`dart_init` makes them, and programs are well-formed (`ProgramsAssumption`); an unset id may read as
any integer. Nothing is assumed about how many units, locks,
operations, targets, windows, rounds, threads, items, places in the ring, processes,
team slots, lock slots, group operations or collective calls there are, nor how long programs are; in `MCSLock` the set of units may even be infinite, and `Before` may have
cycles: the order of locks matters for progress only. Three theorems have a hypothesis of
their own. `TeamsResolveWithSlots` is about programs that create fewer teams than there are slots
(`FewTeams`): none of them meets an unset id. `AccessesReachTheirUnits` is about programs with fewer collective calls than
an `int16_t` counter can count (`MaxCalls < MaxSeg`), because segment ids wrap after that and
name two regions; the other theorems about `GlobalMemory` do not need it. And `Summa` has an
assumption about its patterns (`MatricesAssumption`): tiles are square and as many in each
dimension, every unit has a block of C, elements have places of their own, and those of a
tile are one behind the other at one unit. That is what the constraints on the pattern
(`SUMMA.h:86-123`) are meant to ensure, but for the squares: `summa` asserts that the extents
of A, B and C fit (`SUMMA.h:238-255`) and says nothing of tiles, and the model is of one pattern
for all three. The assumption also has that one read takes a tile, where `copy_async` would cut
a tile of more than `INT_MAX` bytes into several (`Copy.h:286`). Extents, tiles and units are any.
`SummaMultiplies` has the third hypothesis (`Multipliable`): tiles fill the matrix, consecutive
elements of a tile are along dimension 0 (`COL_MAJOR`, or a tile is one element), which is how
`multiply_local` reads them, each block of C is a local block of one unit, at its place, and the values are integers,
any: sums in floating point would depend on the order of the panels. It says nothing of the
default of a pattern, row-major tiles of several elements: `summa` accepts them too, and
its result is then not the product (section 4).

**The lock is exclusive.** Mutual exclusion is not inductive: a state with two units
notified satisfies it. The argument is that the right to enter is a *token* (`Token`):
a unit has it that owns the lock and has not sent its notification, or that has one
under way to it. `TokenInv`: at most one token per lock, none while the tail is -1.
For a hand-over to preserve it the released unit must not be two units, and must be
one that waits for *this* lock: `PendingInv` (a unit that has swapped itself behind a
predecessor has it for itself, and the predecessor is still queued or owns the
lock) and `ListInv` (a list word that is set names the unit pending behind its owner,
except between the send and the reset). `TailInv` says that the tail names somebody
who will come to release, `MessageInv` that a channel holds at most one
message, to a unit blocked on it, `LifeInv` that a word is used only after it was
cleared, which is why initialisation needs no barrier at its end. Each of the
fourteen actions has a lemma, and each part of the invariant a step in its proof.

**The lock is first-in first-out.** `FifoInv` says that the recorded queue holds each
unit that waits or owns once, its head has the token, its last is in the tail, and
each of the others has the one before it as its predecessor. Then everybody behind the
head is pending (`OnlyHeadHasToken`), so `IInv` knows their list words. Steps
that move neither a queue nor a token are invisible (`Quiet`, three lemmas); the
others are a step of `FifoLock` each (`TakeStep`, `JoinStep`, `EnterStep`,
`LeaveLastStep`, `LeaveStep`). That the unit in the owner's word is the second
in the queue, so that the hand-over goes in order, follows from the predecessors.

**The barrier.** `RoundInv`: all units agree on the number of completed rounds, where
a unit that is awake again counts its own round as complete. `CounterCountsSleepers`
connects the counter with the units asleep, so that the last one to arrive is the
last one. After a spurious wakeup the latter is false, and so is everything that
depends on it; the invariant is `TypeOK /\ (spurious \/ Orderly)`. What is left then is
`CounterCountsCalls`: every step that counts a call changes one term of the sum
(`SumChange`), and both the counter and the sum are taken modulo the size of the team, so
neither who leaves early nor who is counted in its place matters.

**One-sided operations.** The invariant adds to the promises that a request which is
`MPI_REQUEST_NULL` without having been consumed was a copy (`NullInv`) and that an
unused slot has no handle (`UnusedInv`).

**The work queue.** `QueueInv` says that `nextPop + nitems` is `nextPush` modulo the size of
the ring. The queue of `Channel` is the window of `nitems` slots from `nextPop`. A push
writes the slot behind the window, which is no slot of it because
`nitems < MaxItems`; a pop takes the first. The lemma `Wrap` replaces `%` by a case
distinction for arguments below twice the size.

**The launcher.** `CounterInv`: those counted in the barrier are those asleep in it and
some that died asleep, so when the last one arrives all the others are asleep or dead.
Hence the living are always in one phase (`PhaseInv`), and when one has
set its mark, all the living are behind their last barrier. `LauncherInv` connects the
table and the set of reaped children with how the units ended.

**Teams of the SHMEM runtime.** The properties of `ShmemTeams` are about units in different
calls, at different steps of them, so an invariant that speaks of program counters would have a
case for each pair. `IInv` has none: it says that there are three functions that tell the
state, `ids[c]`, the id operation `c` has made, `left[u][i]`, the number of steps unit `u`
has left of operation `i`, and `over[i]`, the number of its barriers that are over.
`Coupled` says how each variable follows from them. A step of the code changes `left` by one in
one place, an id or `over` in a few, and what it does to every variable must be what
`Coupled` says of the new values; each action has a lemma for that (`...Step`).

What makes `Coupled` preserved is about the lists of steps alone, and is proved without
any state (the first half of `ShmemTeamsLemmas`). `CallIs`: in every call, the members send to and receive
from the same partners, once each (`TalkOK`); they have as many barriers as each
other (`BarrierOK`); the step that makes an id comes before the message that tells of it, that
before the steps that use it, and what a call takes away it takes away on the right side of a barrier
(`MakingOK`). Steps are counted from the end of the call, so that a step of a unit leaves the
numbers of the others as they are.

Then: a barrier is over when its last member arrives, and `over` says so for all of them
(`OverOK`), so a unit that has passed a barrier knows that the others have reached it. A FIFO holds, in the
order of the program, one message for each operation whose send has been done and whose
reception has not (`QueueOK`); its head is what the receiver waits for because operations
before its own are received completely. Unlinking a FIFO and clearing a slot are
between barriers, so nobody is at a step that needs them (`There`, `Deleted`). The area has a slot, and only one, for each
team that has an id and is not deleted (`AreaOK`), the members' tables have the team in that
slot once they have read the id (`TableOK`), and who is in a barrier is in that of a slot in
use for its team (`InsideOK`). Ids are new because `nextid` counts the teams made
(`CountOK`): an id no slot was given for is none of them. Locks are in different slots from
the step that takes one to the step that drops it (`LocksOK`), which the first member makes
before the barrier of `dart_team_lock_free`, when others may still hold the lock: that is why
`LocksApart` speaks of locks nobody has begun to free.

Once a unit has taken an existing team for the one that could not be made (`InitMisled`), it makes no
further step in the model and the invariant says nothing more; the four properties have
`NobodyLost` as their condition. That it is always true of programs with enough slots
(`TeamsResolveWithSlots`) is a matter of counting: ids are made once each, a slot in use has
the id of a creation that has begun, so with fewer creations than slots one is free.

**The team list.** `TeamsResolve` rests on the order of the list, and that on the ids
being new, so the invariant (`RegistryInv`, in `TeamRegistry`) has to follow a team from
the call that creates it. `CallsInv`: the result of a creation appears when all members have
called, is a communicator of the group asked for, and groups ascend. `Creating`: until a
unit has taken its result, the id is not below its own counter, the communicator is none of its
teams' and it has made no call on it. This is what a step of *another* unit could
spoil: the id is the maximum of the counters of all members (`NewIdIsNew`), and a unit inside one
creation cannot advance its counter in another. `Lists`: every team in the list has its
communicator in its slot, each a different one, and `DART_TEAM_ALL` is first.
`SlotsConserved` speaks of a sequence without duplicates made of two lists;
`ConservedApart` takes it apart so that moving a slot from one to the other can be
followed (`Joined`, `Removed`). Each of the operations has a lemma `...KeepsRegistry`;
calls on the global memory are to the registry calls like any others (`MakeKeepsRegistry`,
`LeaveKeepsRegistry`), so `RegistryInv /\ TypeOK` is inductive for `GlobalMemory` too.

**Accesses.** That a pointer reaches its memory needs `MemoryInv` besides. Its entry is in
the table, alone with its id: ids come from two counters of the unit, and
`SegmentsCounted` bounds their distance by the calls the unit has made, a sum over all
communicators that is at most `MaxCalls`; under the hypothesis `Wrap` is then the
identity (`NoWrap`). Whatever team the unit has on the communicator of the region has
the slot in the pointer's flags (`PointerKnown`): a slot may be recycled while pointers with it
are around, but only by a team of a communicator the unit has made no call on
(`Creating`), so of another region; pointers of a destroyed team stay known, though not
`Alive`. `Hits` then goes through the branches of the access: the rank in the window's
communicator, on the node and in the program name the same unit.

**The buffers of `summa`.** Pointers change places with buffers and with local memory, and
reads end at any time, so that the buffer a read goes to cannot be told from where
`get` points at the moment it ends. `SummaInv` follows both. `PointersInv`: of the two buffers of an
operand `get` leads to or has set aside one, `comp` the other, whichever way around; a
pointer that is set aside is put back before the next fetch. `ReadInv`: a read
is of the whole block that the unit expects (`Expected`, of this iteration before the
first wait, of the next one afterwards), to where it expects it (`Target`), and only
if the block is not local; hence none is under way behind the last wait, when the buffers are freed.
`ComingInv`: a block that is expected is local, under way, or in its
buffer; so at the end of a wait it is there. `ReadyInv` carries that to the
multiplication: a fetch, and a read that ends, touch only the other buffer, and other units
write to C. That a block is *one* read is a lemma about the recursive
function of `Copy.h` (`OneRead`); that the read brings the elements of the block
follows from `WellTiled` and from A and B being as they were (`BlockStored`, `ReadData`).

**The result of `summa`.** `ProductInv` says what an element of C is at any moment: the sum over
the panels its block has taken (`TakenBy`). These are read off the loop variables of
the one unit that owns the block: those of the iterations behind it, and of the
present one once it has multiplied. A multiplication reads the two blocks of the iteration,
by `ReadyInv`; what it adds to an element is then the part of a row of A times a column of B
that the panel has (`BlockTerms`), and the panel is new to the block because a unit
that starts at its own column and counts modulo the number of blocks meets each panel once
(`MultiplyTakes`, `Rotation`). Blocks of one unit do not overlap (`BlocksApart`), so the
rest of C stays. So each multiplication is an `Add` of `BlockProduct` and every other step
stutters (`MultiplyIsAdd`, `NothingAdded`). A unit that has left has done its last block, and by
the same rotation all panels of all its blocks; sums over panels of sums over their
elements are the product (`SumOfParts`).

**Recursion.** The library's induction theorems take operators as parameters and cannot
be used here; `RecursionLemmas` states induction over numbers and over a measure for *sets*
instead, and from them what a recursive function, a fold and a sum over a finite set
compute. The functions of the library are `CHOOSE f : f = ...`, so each such lemma first
shows that a function with the equation exists (`LinearRecursion`, `SumsExist`,
`FoldExists`). On these rest the binary search (`SearchFinds`, by the length of the
interval that is left), the merge of `dart_group_union` (`MergedIsGroup`), MPI's
difference and intersection (`KeptIsGroup`), the recipes (`MadeIsGroup`) and the sums.
`SumOf` names the sum of a function over a finite set; its lemmas take sums apart, shift
and join them.

**Only model-checked.** Liveness (`StarvationFree`, `EveryCallReturns`, `ExitReturns`,
`MinReturns`, `EveryoneEnds`, `RunEnds`), which is out of the prover's reach; and the
properties of `LocalMemory` (`ImplementsHeap`), `Lifetimes` and `DashArray`. The trees, free
lists and index maps of these would each need an induction of their own, and
`ImplementsGlobalArray` lemmas on the index arithmetic of all
patterns: so would a proof that every accepted pattern is `WellTiled` and `Multiplied`. How
`dart_group_split` of the SHMEM runtime cuts a group is checked by TLC only, too.

## 6. Assumptions and what is not modelled

* MPI and POSIX do what their standards say. MPI's one-sided operations are atomic
  where the code uses the atomic ones, and a flush completes what it covers.
* Programs make collective calls in the same order at all members of a team, give
  the same group to `dart_team_create`, free regions before they destroy the team,
  and do not destroy `DART_TEAM_ALL`; programs that use containers are `Disciplined`.
* MPI and system calls do not fail. The error branches that only log and return are left
  out; those the runtime's own state leads to (no free slot, unknown team or segment,
  no room in a heap) are there.
* Calls that return at once without a change of state (acquire by a holder, release
  without holding, a failed try) have no action.
* There are at most `MAXNUM_UNITS` units under the SHMEM launcher (`NumProcsAssumption`).
* Data is left out of `OneSided`, `GlobalMemory` and `ShmemTeams`: no payload, no
  offsets inside a region, a message is one unit of data. `dart_accumulate` of MPI
  completes like `dart_put`.
* A mutex destroyed while busy stays usable (`SysvBarrier!Destroy`), as it does in
  glibc; POSIX calls it undefined.
* In `ShmemTeams` a barrier is atomic, as `RoundBarrier` has it; that
  `sysv_barrier_await` amounts to this is what `SysvBarrier` shows. Spurious wakeups are in
  the latter only.
* `copy` into a global range is modelled where it stays at one unit
  (`CopyIn`), and out of one where the caller's pattern knows the sizes it cuts by (`SizesKnown`).
* The first reads of `summa` may be blocking or asynchronous by a build flag; they are
  modelled as asynchronous, which allows more.

Not modelled, because it is one call of MPI or of the system or keeps no state: MPI
collective communication, SHMEM segments, logging, timers, bindings, build files, examples.
Not modelled, because it is unfinished or does not compile: `CSRPattern` in two
dimensions, block methods of `BlockPattern`, the global-to-global copy, `accumulate` of
DASH. Not modelled for its size: `dart_team_lock_free`, `dart_init` twice and `dart_exit`
of MPI, lists of memory pools, messages that arrive in pieces, one-sided access and accumulate of the
SHMEM runtime, `transform`, asynchronous references and hierarchical views,
navigation between teams.

## 7. Plan

In order:

1. `dart_team_lock_free` in `MCSLock`, which frees the tail before the collective call.
2. The loop of `dart_accumulate` of the SHMEM runtime, and messages in pieces in
   `ShmemTeams`.
3. Pools (`dart_memarea.c`, `dart_mempool.c`), whose ids are counted by each unit.
4. `GlobalMemory` at the edge of `int16_t`, with a small `MaxSeg`.
5. Proofs: the teams and containers of `Lifetimes`; the bucket of `LocalMemory`.
6. `transform`, and the algorithms on teams that are a part of the units once the code
   supports them.

## 8. Running it

    tlc -config MCSLockFifo.cfg MCMCSLockFifo
    tlapm MpiProofs.tla

The module of each run is in `PROJECT.json`. `GlobalMemory`, `DashArray` and `LocalMemory` take one
to two minutes, the other runs up to one; `SummaProofs` takes about ten minutes, `GlobalMemoryProofs`
seven, `ShmemTeamsLemmas` and `ShmemTeamsProofs` about a quarter of an hour each, the other proof
modules up to two.
