---------------------------- MODULE LocalMemory -----------------------------
(***************************************************************************)
(* Local allocation: dart_memalloc and dart_memfree of the MPI runtime     *)
(* (dart_globmem.c over dart_mem.c) and the bucket of a memory pool of the *)
(* SHMEM runtime (dart_malloc.c over dart_membucket.c), each with its own  *)
(* data structure, against the specification Heap.  A unit allocates and   *)
(* frees in its own memory only, so there is one caller.                   *)
(*                                                                         *)
(* dart_memfree of the SHMEM runtime is empty; its bucket is freed from as *)
(* dart_membucket_free allows.  Requests of zero bytes get one unit from   *)
(* the buddy allocator; from a bucket they would get a chunk at the        *)
(* position of the next one, and are left out there.                       *)
(*                                                                         *)
(* The buddy allocator takes very large requests for small ones, or for    *)
(* some of no or negative size.  Those write behind the end of the tree;   *)
(* the unit is not followed from there on.                                 *)
(***************************************************************************)
EXTENDS BuddyAllocator, Sequences, SequencesExt

CONSTANTS
    BucketSize, \* localsz of the memory pool
    Requests,   \* bound: sizes asked for
    MaxBlocks   \* bound: blocks in use at a time

ASSUME BucketSizeAssumption == BucketSize \in Nat \ {0}
ASSUME RequestsAssumption == Requests \subseteq 0 .. 2^(2 * IntBits - 1) /\ BucketSize = 2^Level
ASSUME MaxBlocksAssumption == MaxBlocks \in Nat

VARIABLES
    runtime,    \* "mpi" or "shmem"; "overrun" when memory behind the tree is lost
    tree,       \* dart_localpool
    bucket,     \* the bucket of memory pool 0
    result      \* the last call and its result

vars == <<runtime, tree, bucket, result>>

-----------------------------------------------------------------------------
(* The local heap of the SHMEM runtime, dart_membucket.c: a list of free   *)
(* chunks in ascending order and a list of allocated ones, latest first.   *)

Chunk(pos, size) == [pos |-> pos, size |-> size]

BucketCreate == [free |-> <<Chunk(0, BucketSize)>>, allocated |-> <<>>]

\* The first index with the property, 0 if there is none.
LargeEnough(list, size) == SelectInSeq(list, LAMBDA e : e.size >= size)
WithPos(list, pos) == SelectInSeq(list, LAMBDA e : e.pos = pos)

CanAlloc(b, size) == LargeEnough(b.free, size) # 0

\* dart_membucket_alloc: first fit, cut off the front of the chunk.
BucketAlloc(b, size) ==
    LET i == LargeEnough(b.free, size)
        found == b.free[i]
    IN  [free |-> IF found.size = size THEN RemoveAt(b.free, i)
                  ELSE [b.free EXCEPT ![i] = Chunk(found.pos + size, found.size - size)],
         allocated |-> <<Chunk(found.pos, size)>> \o b.allocated]

\* dart_insert_sorted: before the first entry with a larger position.
InsertSorted(list, e) ==
    LET larger == SelectInSeq(list, LAMBDA f : e.pos < f.pos)
    IN  InsertAt(list, IF larger = 0 THEN Len(list) + 1 ELSE larger, e)

\* dart_list_melt: every run of adjacent chunks becomes one.
ListMelt(list) ==
    FoldLeft(LAMBDA done, e :
                 IF done # <<>> /\ Last(done).pos + Last(done).size = e.pos
                 THEN Front(done) \o <<Chunk(Last(done).pos, Last(done).size + e.size)>>
                 ELSE Append(done, e),
             <<>>, list)

CanFreeChunk(b, pos) == WithPos(b.allocated, pos) # 0

\* dart_membucket_free
BucketFree(b, pos) ==
    LET i == WithPos(b.allocated, pos)
    IN  [free |-> ListMelt(InsertSorted(b.free, b.allocated[i])),
         allocated |-> RemoveAt(b.allocated, i)]

BucketBlocks(b) ==
    {[pos |-> b.allocated[i].pos, len |-> b.allocated[i].size] :
        i \in DOMAIN b.allocated}

-----------------------------------------------------------------------------
Failed == -1
Alloc(n, pos) == [ask |-> "alloc", n |-> n, pos |-> pos]
Free(pos) == [ask |-> "free", n |-> 0, pos |-> pos]

Init ==
    /\ runtime \in {"mpi", "shmem"}
    /\ tree = BuddyNew
    /\ bucket = BucketCreate
    /\ result = [ask |-> "none", n |-> 0, pos |-> 0]

MemallocMpi(n) ==
    /\ runtime = "mpi" /\ Cardinality(BuddyBlocks(tree)) < MaxBlocks
    /\ IF Fits(tree, n)
       THEN /\ tree' = BuddyAlloc(tree, n)
            /\ result' = Alloc(n, IndexOffset[Found(tree, SizeFor(n))])
       ELSE /\ ~ LeavesTree(tree, n)
            /\ result' = Alloc(n, Failed)
            /\ UNCHANGED tree
    /\ UNCHANGED <<runtime, bucket>>

MemallocOverruns(n) ==
    /\ runtime = "mpi" /\ LeavesTree(tree, n)
    /\ runtime' = "overrun"
    /\ UNCHANGED <<tree, bucket, result>>

\* Any offset may be passed; a wrong one is DART_ERR_INVAL.
MemfreeMpi(o) ==
    /\ runtime = "mpi"
    /\ IF CanFree(tree, o)
       THEN tree' = BuddyFree(tree, o) /\ result' = Free(o)
       ELSE result' = Free(Failed) /\ UNCHANGED tree
    /\ UNCHANGED <<runtime, bucket>>

MemallocShmem(n) ==
    /\ runtime = "shmem" /\ n > 0 /\ Len(bucket.allocated) < MaxBlocks
    /\ IF CanAlloc(bucket, n)
       THEN /\ bucket' = BucketAlloc(bucket, n)
            /\ result' = Alloc(n, bucket.free[LargeEnough(bucket.free, n)].pos)
       ELSE /\ result' = Alloc(n, Failed)
            /\ UNCHANGED bucket
    /\ UNCHANGED <<runtime, tree>>

MembucketFree(pos) ==
    /\ runtime = "shmem"
    /\ IF CanFreeChunk(bucket, pos)
       THEN bucket' = BucketFree(bucket, pos) /\ result' = Free(pos)
       ELSE result' = Free(Failed) /\ UNCHANGED bucket
    /\ UNCHANGED <<runtime, tree>>

Next ==
    \/ \E n \in Requests : MemallocMpi(n) \/ MemallocOverruns(n) \/ MemallocShmem(n)
    \/ \E p \in 0 .. BucketSize - 1 : MemfreeMpi(p) \/ MembucketFree(p)

Spec == Init /\ [][Next]_vars

-----------------------------------------------------------------------------
(* Properties.                                                             *)

Blocks == IF runtime = "shmem" THEN BucketBlocks(bucket) ELSE BuddyBlocks(tree)

H == INSTANCE Heap WITH
        Size <- BucketSize,
        Limit <- 2^(IntBits - 2),
        grain <- IF runtime = "shmem" THEN "exact" ELSE "pow2",
        blocks <- Blocks,
        answer <- result

\* buddy_size of a block is the size it was handed out with, and nothing in the
\* bucket is lost: free and allocated chunks fill it without gap or overlap.
NothingLost ==
    /\ \A b \in BuddyBlocks(tree) : BuddySize(tree, b.pos) = b.len
    /\ LET chunks == bucket.free \o bucket.allocated
       IN  /\ FoldLeft(LAMBDA n, e : n + e.size, 0, chunks) = BucketSize
           /\ \A i, j \in DOMAIN chunks : i # j =>
                  \/ chunks[i].pos + chunks[i].size <= chunks[j].pos
                  \/ chunks[j].pos + chunks[j].size <= chunks[i].pos

\* Over any sequence of allocations and frees, the buddy tree and the bucket
\* hand out blocks that do not overlap, find a place whenever there is one -
\* freed neighbours have been joined again - and give back exactly the block
\* whose start is passed (dart_buddy_alloc, dart_buddy_free,
\* dart_membucket_alloc, dart_membucket_free); nothing is lost.  A request of
\* more than 2^(IntBits - 2) bytes may get a block that is too small from the
\* tree, in a place of its own, and the last one before memory is overrun.
ImplementsHeap == H!HSpec /\ []NothingLost
=============================================================================
