------------------------------- MODULE OneSided -------------------------------
(***************************************************************************)
(* Completion of the one-sided operations of one unit, the origin, in      *)
(* dart-impl/mpi/src/dart_communication.c.                                 *)
(*                                                                         *)
(* An operation completes locally (its buffer may be used again) and       *)
(* remotely (its effect is at the target) some time after it was issued.   *)
(* The calls that wait differ in what they wait for: MPI_Wait and its      *)
(* relatives end with the local completion and turn the request into       *)
(* MPI_REQUEST_NULL; only MPI_Win_flush ends with the remote completion,   *)
(* of all operations of the origin at one target in one window.            *)
(*                                                                         *)
(* The variable returned remembers the call that returned last and the     *)
(* operations it was about, for the properties to compare with the         *)
(* promises of dart-if/v3.2/include/dash/dart/if/dart_communication.h.     *)
(*                                                                         *)
(* A definition marked as a faulty variant is no part of the system: it is *)
(* the call after it with a mistake that a property must notice.           *)
(***************************************************************************)
EXTENDS FiniteSets

CONSTANTS
    Ops,      \* operations the origin may have under way (bound)
    Targets,  \* target units
    Near,     \* the targets on the node of the origin (dart_sharedmem_table)
    Wins,     \* windows
    NoOp

ASSUME OpsAssumption == NoOp \notin Ops
ASSUME NearAssumption == Near \subseteq Targets
ASSUME PlacesAssumption == Targets # {} /\ Wins # {}

Places == [target : Targets, win : Wins]

VARIABLES
    kind,      \* kind[o]: "none" while the slot is unused, "put" or "get"
    place,     \* place[o]: target and window of the operation
    stage,     \* stage[o]: how far the operation has completed
    handle,    \* handle[o]: the program has a dart_handle_t for it
    request,   \* request[o]: its MPI request is active, not MPI_REQUEST_NULL
    consumed,  \* consumed[o]: a *_local call has seen the request complete
    busy,      \* the operation a blocking call is in, or NoOp
    returned   \* the call that returned last and its operations

ovars == <<kind, place, stage, handle, request, consumed, busy, returned>>

Calls == {"none", "blocking", "flush", "flush_all", "flush_local",
          "flush_local_all", "wait_local", "wait", "waitall_local",
          "waitall", "waitall_local_ignored", "waitall_ignored",
          "test_local", "testall_local"}

\* SlotsOK: slots, handles and the record of the last return.
SlotsOK ==
    /\ kind \in [Ops -> {"none", "put", "get"}]
    /\ place \in [Ops -> Places]
    /\ stage \in [Ops -> {"issued", "local", "remote"}]
    /\ handle \in [Ops -> BOOLEAN]
    /\ request \in [Ops -> BOOLEAN]
    /\ consumed \in [Ops -> BOOLEAN]
    /\ busy \in Ops \cup {NoOp}
    /\ returned \in [call : Calls, ops : SUBSET Ops]

AnyPlace == CHOOSE p \in Places : TRUE

OInit ==
    /\ kind = [o \in Ops |-> "none"]
    /\ place = [o \in Ops |-> AnyPlace]
    /\ stage = [o \in Ops |-> "remote"]
    /\ handle = [o \in Ops |-> FALSE]
    /\ request = [o \in Ops |-> FALSE]
    /\ consumed = [o \in Ops |-> FALSE]
    /\ busy = NoOp
    /\ returned = [call |-> "none", ops |-> {}]

LocallyComplete(o) == stage[o] \in {"local", "remote"}
RemotelyComplete(o) == stage[o] = "remote"

UsedAt(P) == {o \in Ops : kind[o] # "none" /\ place[o] \in P}

Return(call, ops) == returned' = [call |-> call, ops |-> ops]

\* The origin enters a call: it is in no other one.
Entering == busy = NoOp

-----------------------------------------------------------------------------
(* Issuing operations.  A get of any kind and a blocking put copy memory   *)
(* at once when the target is near and the memory is allocated by DART     *)
(* (seg_id >= 0); memory of the program that was registered (seg_id < 0)   *)
(* is reached by MPI on every node.  dart_put and dart_put_handle never    *)
(* copy.                                                                   *)

Issue(o, k, p, s) ==
    /\ Entering
    /\ kind[o] = "none"
    /\ kind' = [kind EXCEPT ![o] = k]
    /\ place' = [place EXCEPT ![o] = p]
    /\ stage' = [stage EXCEPT ![o] = s]
    /\ consumed' = [consumed EXCEPT ![o] = FALSE]

Memory == {"allocated", "registered"}

Shared(m, p) == m = "allocated" /\ p.target \in Near

CopiedIfShared(m, p) == IF Shared(m, p) THEN "remote" ELSE "issued"

Get(o, m, p) ==
    /\ Issue(o, "get", p, CopiedIfShared(m, p))
    /\ Return("none", {})
    /\ UNCHANGED <<handle, request, busy>>

Put(o, p) ==
    /\ Issue(o, "put", p, "issued")
    /\ Return("none", {})
    /\ UNCHANGED <<handle, request, busy>>

\* A get that copied returns a handle whose request is MPI_REQUEST_NULL.
GetHandle(o, m, p) ==
    /\ Issue(o, "get", p, CopiedIfShared(m, p))
    /\ handle' = [handle EXCEPT ![o] = TRUE]
    /\ request' = [request EXCEPT ![o] = ~ Shared(m, p)]
    /\ Return("none", {})
    /\ UNCHANGED busy

PutHandle(o, p) ==
    /\ Issue(o, "put", p, "issued")
    /\ handle' = [handle EXCEPT ![o] = TRUE]
    /\ request' = [request EXCEPT ![o] = TRUE]
    /\ Return("none", {})
    /\ UNCHANGED busy

\* dart_get_blocking and dart_put_blocking of shared memory are a memcpy.
CopyBlocking(o, k, m, p) ==
    /\ Shared(m, p)
    /\ Issue(o, k, p, "remote")
    /\ Return("blocking", {o})
    /\ UNCHANGED <<handle, request, busy>>

\* Otherwise they issue the operation and enter MPI_Win_flush.
StartBlocking(o, k, m, p) ==
    /\ ~ Shared(m, p)
    /\ Issue(o, k, p, "issued")
    /\ busy' = o
    /\ Return("none", {})
    /\ UNCHANGED <<handle, request>>

FinishBlocking(o) ==
    /\ busy = o
    /\ \A q \in UsedAt({place[o]}) : RemotelyComplete(q)
    /\ busy' = NoOp
    /\ Return("blocking", {o})
    /\ UNCHANGED <<kind, place, stage, handle, request, consumed>>

-----------------------------------------------------------------------------
(* dart_flush, dart_flush_all and their local variants block until the     *)
(* operations at a target, or at all targets, of a window are complete.    *)

FlushPlaces(call, P) ==
    /\ Entering
    /\ Return(call, UsedAt(P))
    /\ UNCHANGED <<kind, place, stage, handle, request, consumed, busy>>

AtWindow(w) == {p \in Places : p.win = w}

Flush(p) ==
    /\ \A o \in UsedAt({p}) : RemotelyComplete(o)
    /\ FlushPlaces("flush", {p})

FlushAll(w) ==
    /\ \A o \in UsedAt(AtWindow(w)) : RemotelyComplete(o)
    /\ FlushPlaces("flush_all", AtWindow(w))

FlushLocal(p) ==
    /\ \A o \in UsedAt({p}) : LocallyComplete(o)
    /\ FlushPlaces("flush_local", {p})

FlushLocalAll(w) ==
    /\ \A o \in UsedAt(AtWindow(w)) : LocallyComplete(o)
    /\ FlushPlaces("flush_local_all", AtWindow(w))

-----------------------------------------------------------------------------
(* Waiting on handles.                                                     *)

\* MPI_Wait, MPI_Waitall, a successful MPI_Test or MPI_Testall of the
\* requests of H: all are locally complete and become MPI_REQUEST_NULL.
CompleteRequests(H) ==
    /\ \A o \in H : request[o] => LocallyComplete(o)
    /\ request' = [o \in Ops |-> request[o] /\ o \notin H]

\* free(handle): the program forgets the handles of H.
FreeHandles(H) == handle' = [o \in Ops |-> handle[o] /\ o \notin H]

WaitLocal(o) ==
    /\ Entering /\ handle[o]
    /\ CompleteRequests({o})
    /\ consumed' = [consumed EXCEPT ![o] = @ \/ request[o]]
    /\ Return("wait_local", {o})
    /\ UNCHANGED <<kind, place, stage, handle, busy>>

\* Faulty variant: the request is tested after MPI_Wait, not before.
WaitTestingAfter(o) ==
    /\ Entering /\ handle[o]
    /\ CompleteRequests({o})
    /\ request'[o] => \A q \in UsedAt({place[o]}) : RemotelyComplete(q)
    /\ FreeHandles({o})
    /\ Return("wait", {o})
    /\ UNCHANGED <<kind, place, stage, consumed, busy>>

\* dart_wait flushes after MPI_Wait, but only if the request was active.
Wait(o) ==
    /\ Entering /\ handle[o]
    /\ CompleteRequests({o})
    /\ request[o] => \A q \in UsedAt({place[o]}) : RemotelyComplete(q)
    /\ FreeHandles({o})
    /\ Return("wait", {o})
    /\ UNCHANGED <<kind, place, stage, consumed, busy>>

\* dart_waitall_local and dart_waitall get the handles of H in an array that
\* may also hold NULL.  When the first entry is NULL they return DART_OK and
\* do nothing for H: a return of its own, about which no promise speaks.
WaitallIgnored(call, H) ==
    /\ Entering /\ H # {} /\ \A o \in H : handle[o]
    /\ Return(call, H)
    /\ UNCHANGED <<kind, place, stage, handle, request, consumed, busy>>

\* Faulty variant: MPI_Waitall gets the first handle only.
WaitallLocalFirst(H) ==
    /\ Entering /\ H # {} /\ \A o \in H : handle[o]
    /\ CompleteRequests({CHOOSE o \in H : TRUE})
    /\ FreeHandles(H)
    /\ Return("waitall_local", H)
    /\ UNCHANGED <<kind, place, stage, consumed, busy>>

WaitallLocal(H) ==
    /\ Entering /\ H # {} /\ \A o \in H : handle[o]
    /\ CompleteRequests(H)
    /\ FreeHandles(H)
    /\ Return("waitall_local", H)
    /\ UNCHANGED <<kind, place, stage, consumed, busy>>

\* dart_waitall copies the requests back from MPI_Waitall before it decides
\* which handles need MPI_Win_flush: those whose request is not NULL now.
Waitall(H) ==
    /\ Entering /\ H # {} /\ \A o \in H : handle[o]
    /\ CompleteRequests(H)
    /\ \A o \in H : request'[o] =>
           \A q \in UsedAt({place[o]}) : RemotelyComplete(q)
    /\ FreeHandles(H)
    /\ Return("waitall", H)
    /\ UNCHANGED <<kind, place, stage, consumed, busy>>

\* The tests that report completion; those that do not change nothing.
TestLocal(o) ==
    /\ Entering /\ handle[o]
    /\ CompleteRequests({o})
    /\ consumed' = [consumed EXCEPT ![o] = @ \/ request[o]]
    /\ Return("test_local", {o})
    /\ UNCHANGED <<kind, place, stage, handle, busy>>

TestallLocal(H) ==
    /\ Entering /\ H # {} /\ \A o \in H : handle[o]
    /\ CompleteRequests(H)
    /\ consumed' = [o \in Ops |-> consumed[o] \/ (o \in H /\ request[o])]
    /\ Return("testall_local", H)
    /\ UNCHANGED <<kind, place, stage, handle, busy>>

-----------------------------------------------------------------------------
(* The network, and the program that is done with an operation.            *)

CompleteLocally(o) ==
    /\ kind[o] # "none"
    /\ stage[o] = "issued"
    /\ stage' = [stage EXCEPT ![o] = IF kind[o] = "get" THEN "remote" ELSE "local"]
    /\ UNCHANGED <<kind, place, handle, request, consumed, busy, returned>>

CompleteRemotely(o) ==
    /\ kind[o] # "none"
    /\ stage[o] = "local"
    /\ stage' = [stage EXCEPT ![o] = "remote"]
    /\ UNCHANGED <<kind, place, handle, request, consumed, busy, returned>>

Retire(o) ==
    /\ Entering
    /\ kind[o] # "none" /\ RemotelyComplete(o) /\ ~ handle[o]
    /\ kind' = [kind EXCEPT ![o] = "none"]
    /\ place' = [place EXCEPT ![o] = AnyPlace]
    /\ consumed' = [consumed EXCEPT ![o] = FALSE]
    /\ Return("none", {})
    /\ UNCHANGED <<stage, handle, request, busy>>

-----------------------------------------------------------------------------
IssueStep(o, m, p) ==
    \/ Get(o, m, p) \/ Put(o, p) \/ GetHandle(o, m, p) \/ PutHandle(o, p)
    \/ \E k \in {"get", "put"} :
           CopyBlocking(o, k, m, p) \/ StartBlocking(o, k, m, p)

FlushStep(p) ==
    Flush(p) \/ FlushAll(p.win) \/ FlushLocal(p) \/ FlushLocalAll(p.win)

HandleStep(o) == WaitLocal(o) \/ Wait(o) \/ TestLocal(o)

HandlesStep(H) ==
    \/ WaitallLocal(H) \/ Waitall(H) \/ TestallLocal(H)
    \/ \E call \in {"waitall_local_ignored", "waitall_ignored"} :
           WaitallIgnored(call, H)

NetworkStep(o) == CompleteLocally(o) \/ CompleteRemotely(o)

ONext ==
    \/ \E o \in Ops, m \in Memory, p \in Places : IssueStep(o, m, p)
    \/ \E p \in Places : FlushStep(p)
    \/ \E o \in Ops :
           HandleStep(o) \/ NetworkStep(o) \/ FinishBlocking(o) \/ Retire(o)
    \/ \E H \in SUBSET Ops : HandlesStep(H)

OSpec == OInit /\ [][ONext]_ovars

-----------------------------------------------------------------------------
ReturnedFrom(calls, o) == returned.call \in calls /\ o \in returned.ops

\* FlushPromise: a blocking operation and every operation covered by
\* dart_flush or dart_flush_all is locally and remotely complete when the
\* call returns, whatever the node of the target and the order of issue.
FlushPromise ==
    \A o \in Ops :
        ReturnedFrom({"blocking", "flush", "flush_all"}, o) => RemotelyComplete(o)

\* LocalPromise: the waits and tests that look at their handles, and the
\* local flushes, return (the tests: report completion) only when the buffers
\* of their operations may be used again.
LocalPromise ==
    \A o \in Ops :
        ReturnedFrom({"wait_local", "wait", "waitall_local", "waitall",
                      "test_local", "testall_local",
                      "flush_local", "flush_local_all"}, o) => LocallyComplete(o)

\* FirstWaitPromise: dart_wait on a handle that no dart_wait_local or
\* dart_test*_local has seen complete before ensures remote completion.
FirstWaitPromise ==
    \A o \in Ops :
        ReturnedFrom({"wait"}, o) /\ ~ consumed[o] => RemotelyComplete(o)

\* NoRequestLeft: no call drops the handle of a request that is still
\* active, and MPI_REQUEST_NULL stands for a locally complete operation.
NoRequestLeft ==
    \A o \in Ops :
        /\ request[o] => handle[o]
        /\ handle[o] /\ ~ request[o] => LocallyComplete(o)

\* WaitallPromise: dart_communication.h says of dart_waitall "Wait for the
\* local and remote completion" of the operations.  The property is about the
\* calls that look at their handles; the early return of a call whose first
\* entry is NULL (WaitallIgnored) is left out of it.
WaitallPromise ==
    \A o \in Ops : ReturnedFrom({"waitall"}, o) => RemotelyComplete(o)

-----------------------------------------------------------------------------
(* The inductive invariant behind the promises the code keeps.             *)

\* A slot without an operation has no handle, and no call is blocked on it.
UnusedInv == \A o \in Ops : kind[o] = "none" => ~ handle[o] /\ busy # o

\* MPI_REQUEST_NULL that no *_local call has produced is that of a get that
\* was a memcpy: nothing is left to flush.
NullInv ==
    \A o \in Ops :
        handle[o] /\ ~ request[o] /\ ~ consumed[o] => RemotelyComplete(o)

\* CompletionInv: what every issue, test, wait and flush preserves.
CompletionInv ==
    /\ SlotsOK /\ UnusedInv /\ NullInv /\ NoRequestLeft
    /\ FlushPromise /\ LocalPromise /\ FirstWaitPromise
===============================================================================
