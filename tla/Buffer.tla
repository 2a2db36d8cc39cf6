------------------------------- MODULE Buffer -------------------------------
(***************************************************************************)
(* The buffer of container creations (daemon/buffer): a pool of at most    *)
(* BufferGoroutinesMax goroutines, fed by concurrent API requests directly *)
(* while a goroutine may be started and through a bounded channel          *)
(* otherwise.  A goroutine is known by the request that it handles.  All   *)
(* requests are for one pod; container names belong to the PodList and are *)
(* not part of this module.                                                *)
(***************************************************************************)
EXTENDS Integers, Sequences, FiniteSets

CONSTANTS
  Requests,             \* requests to create a container
  BufferGoroutinesMax,
  BufferChannelSize

ASSUME BufferAssumption ==
  /\ IsFiniteSet(Requests)
  /\ BufferGoroutinesMax \in Nat \ {0}
  /\ BufferChannelSize \in Nat \ {0}

VARIABLES
  pod,               \* whether the pod is alive, and whether it is in the PodList
  goroutinesLimit,   \* goroutines that may still be started
  ch,                \* the channel of the buffer
  phase,             \* progress of each request
  containerBuffers   \* p.containerBuffers: the requests listed as pending

vars == <<pod, goroutinesLimit, ch, phase, containerBuffers>>

Phase == {"new", "named", "buffered", "queued", "handling", "created", "failed", "done"}

\* The types of the variables.
TypeOK ==
  /\ pod \in SUBSET {"alive", "listed"}
  /\ goroutinesLimit \in Nat
  /\ ch \in Seq(Requests)
  /\ phase \in [Requests -> Phase]
  /\ containerBuffers \in SUBSET Requests

\* NewBuffer.
Init ==
  /\ pod = {"alive", "listed"}
  /\ goroutinesLimit = BufferGoroutinesMax
  /\ ch = <<>>
  /\ phase = [r \in Requests |-> "new"]
  /\ containerBuffers = {}

\* The pod is stopped, started or removed; environment of this module.
PodChanges ==
  /\ pod' \in SUBSET {"alive", "listed"}
  /\ UNCHANGED <<goroutinesLimit, ch, phase, containerBuffers>>

-----------------------------------------------------------------------------
(* CreateContainerInPod. *)

\* IsAlive and ReserveContainerName; the name may be taken by another pod.
ReserveContainerName(r) ==
  /\ phase[r] = "new"
  /\ \/ "alive" \in pod /\ phase' = [phase EXCEPT ![r] = "named"]
     \/ phase' = [phase EXCEPT ![r] = "done"]
  /\ UNCHANGED <<pod, goroutinesLimit, ch, containerBuffers>>

\* The entry is dropped again when the pod is no longer in the PodList.
AddContainerBuffer(r) ==
  /\ phase[r] = "named"
  /\ IF "listed" \in pod
     THEN /\ phase' = [phase EXCEPT ![r] = "buffered"]
          /\ containerBuffers' = containerBuffers \cup {r}
     ELSE /\ phase' = [phase EXCEPT ![r] = "done"]
          /\ UNCHANGED containerBuffers
  /\ UNCHANGED <<pod, goroutinesLimit, ch>>

\* RemoveContainerBuffer, in RemoveContainerBufferAll too.
RemoveContainerBuffer(r) ==
  containerBuffers' = containerBuffers \ {r}

\* Mutant: a full channel is not told to the client.
BugDispatch(r) ==
  /\ phase[r] = "buffered"
  /\ \/ /\ goroutinesLimit # 0
        /\ goroutinesLimit' = goroutinesLimit - 1
        /\ phase' = [phase EXCEPT ![r] = "handling"]
        /\ UNCHANGED ch
     \/ /\ goroutinesLimit = 0
        /\ ch' = IF Len(ch) < BufferChannelSize THEN Append(ch, r) ELSE ch
        /\ phase' = [phase EXCEPT ![r] = "queued"]
        /\ UNCHANGED goroutinesLimit
  /\ UNCHANGED <<pod, containerBuffers>>

\* The section under goroutinesLock.
Dispatch(r) ==
  /\ phase[r] = "buffered"
  /\ \/ /\ goroutinesLimit # 0
        /\ goroutinesLimit' = goroutinesLimit - 1
        /\ phase' = [phase EXCEPT ![r] = "handling"]
        /\ UNCHANGED <<ch, containerBuffers>>
     \/ /\ goroutinesLimit = 0
        /\ Len(ch) < BufferChannelSize
        /\ ch' = Append(ch, r)
        /\ phase' = [phase EXCEPT ![r] = "queued"]
        /\ UNCHANGED <<goroutinesLimit, containerBuffers>>
     \/ /\ goroutinesLimit = 0
        /\ Len(ch) = BufferChannelSize
        /\ RemoveContainerBuffer(r)
        /\ phase' = [phase EXCEPT ![r] = "done"]
        /\ UNCHANGED <<goroutinesLimit, ch>>
  /\ UNCHANGED pod

-----------------------------------------------------------------------------
(* containerHandler. *)

\* Mutant: a failed creation does not remove the buffer.
BugHandle(r) ==
  /\ phase[r] = "handling"
  /\ \/ /\ phase' = [phase EXCEPT ![r] = "created"]
        /\ containerBuffers' = containerBuffers \ {r}
     \/ /\ phase' = [phase EXCEPT ![r] = "failed"]
        /\ UNCHANGED containerBuffers
  /\ UNCHANGED <<pod, goroutinesLimit, ch>>

\* DoContainerCreate, which may fail, and the removal of the buffer.
Handle(r) ==
  /\ phase[r] = "handling"
  /\ \/ phase' = [phase EXCEPT ![r] = "created"]
     \/ phase' = [phase EXCEPT ![r] = "failed"]
  /\ RemoveContainerBuffer(r)
  /\ UNCHANGED <<pod, goroutinesLimit, ch>>

\* Mutant: the goroutine ends after one request.
BugHandleNext(r) ==
  /\ phase[r] \in {"created", "failed"}
  /\ phase' = [phase EXCEPT ![r] = "done"]
  /\ goroutinesLimit' = goroutinesLimit + 1
  /\ UNCHANGED <<pod, ch, containerBuffers>>

\* The goroutine takes the next request from the channel, or ends.
HandleNext(r) ==
  /\ phase[r] \in {"created", "failed"}
  /\ IF ch # <<>>
     THEN /\ phase' = [phase EXCEPT ![r] = "done", ![Head(ch)] = "handling"]
          /\ ch' = Tail(ch)
          /\ UNCHANGED goroutinesLimit
     ELSE /\ phase' = [phase EXCEPT ![r] = "done"]
          /\ goroutinesLimit' = goroutinesLimit + 1
          /\ UNCHANGED ch
  /\ UNCHANGED <<pod, containerBuffers>>

-----------------------------------------------------------------------------
Step(r) ==
  \/ AddContainerBuffer(r) \/ Dispatch(r) \/ Handle(r) \/ HandleNext(r)

Next ==
  \/ PodChanges
  \/ \E r \in Requests : ReserveContainerName(r) \/ Step(r)

Spec == Init /\ [][Next]_vars

\* Every request and every goroutine goes on; goroutinesLock is held for a
\* single step, so it is never kept.
FairSpec == Spec /\ \A r \in Requests : WF_vars(Step(r))

-----------------------------------------------------------------------------
(* Properties. *)

\* The requests that a goroutine is busy with.
Busy == {r \in Requests : phase[r] \in {"handling", "created", "failed"}}

\* goroutinesLimit counts exactly the goroutines that are not running, so it
\* never wraps around below zero and never exceeds BufferGoroutinesMax.
SlotsConserved ==
  goroutinesLimit + Cardinality(Busy) = BufferGoroutinesMax

\* No request waits in the channel while a goroutine could be started for it:
\* such a request would wait for the next, unrelated one.
NoStrandedRequest ==
  ch # <<>> => goroutinesLimit = 0

\* The requests in the channel are those accepted and not yet handled, each
\* of them once: none is lost and none is handled twice.
QueueIsExact ==
  /\ \A r \in Requests : phase[r] = "queued" <=> \E i \in 1..Len(ch) : ch[i] = r
  /\ \A i, j \in 1..Len(ch) : ch[i] = ch[j] => i = j

\* The buffer is a pool of workers: the counter and the phases that it keeps
\* implement a pool in which no worker is free while a request waits, requests
\* begin in the order in which they were accepted, and none begins twice.
Pool == INSTANCE WorkerPool WITH
  Jobs <- Requests, Workers <- BufferGoroutinesMax, Room <- BufferChannelSize,
  waiting <- ch, running <- Busy, left <- {r \in Requests : phase[r] = "done"}

\* Every behaviour of the buffer is one of the pool of WorkerPool.
ImplementsPool == Pool!Spec

\* An accepted request is listed as pending until it is handled, and no longer.
PendingIsListed ==
  \A r \in Requests :
    r \in containerBuffers <=> phase[r] \in {"buffered", "queued", "handling"}

\* Every request to create a container that was accepted is handled.
AcceptedIsHandled ==
  \A r \in Requests : phase[r] \in {"queued", "handling"} ~> phase[r] = "done"
=============================================================================
