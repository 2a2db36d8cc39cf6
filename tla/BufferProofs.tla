---------------------------- MODULE BufferProofs ----------------------------
(***************************************************************************)
(* The safety properties of Buffer, for any finite set of requests, any    *)
(* number of goroutines and any size of the channel.                       *)
(***************************************************************************)
EXTENDS Buffer, FiniteSetTheorems, TLAPS

\* The four properties are inductive together: that no request is stranded
\* follows from the count of the goroutines, and the goroutine that takes a
\* request from the channel is counted right because QueueIsExact says that
\* nobody handles that request yet.
IInv == TypeOK /\ SlotsConserved /\ NoStrandedRequest /\ QueueIsExact /\ PendingIsListed

USE BufferAssumption

\* Only finitely many requests are in the hands of goroutines.
LEMMA BusyFinite == IsFiniteSet(Busy)
<1>1. Busy \subseteq Requests
  BY DEF Busy
<1>2. QED BY <1>1, FS_Subset

\* The invariant holds of a new buffer (NewBuffer).
LEMMA InitInv == Init => IInv
<1> SUFFICES ASSUME Init PROVE IInv
  OBVIOUS
<1>1. TypeOK
  BY DEF Init, TypeOK, Phase
<1>2. Busy = {}
  BY DEF Init, Busy
<1>3. SlotsConserved
  BY <1>2, FS_EmptySet DEF Init, SlotsConserved
<1>4. NoStrandedRequest /\ QueueIsExact /\ PendingIsListed
  BY DEF Init, NoStrandedRequest, QueueIsExact, PendingIsListed
<1>5. QED BY <1>1, <1>3, <1>4 DEF IInv

\* A step that moves no request into or out of the hands of a goroutine and
\* leaves the channel alone keeps the queue and the count.
LEMMA QuietStep ==
  ASSUME IInv, UNCHANGED <<goroutinesLimit, ch>>, Busy' = Busy,
         \A r \in Requests : phase'[r] = "queued" <=> phase[r] = "queued"
  PROVE  SlotsConserved' /\ NoStrandedRequest' /\ QueueIsExact'
<1>1. SlotsConserved' /\ NoStrandedRequest'
  BY DEF IInv, SlotsConserved, NoStrandedRequest
<1>2. QueueIsExact'
  BY DEF IInv, QueueIsExact
<1>3. QED BY <1>1, <1>2

\* The check of the pod and the reservation of a name keep it.
LEMMA ReserveInv ==
  ASSUME IInv, NEW r \in Requests, ReserveContainerName(r)
  PROVE  IInv'
<1>1. TypeOK' /\ PendingIsListed'
  BY DEF IInv, TypeOK, Phase, PendingIsListed, ReserveContainerName
<1>2. Busy' = Busy
  BY DEF IInv, TypeOK, Phase, Busy, ReserveContainerName
<1>3. \A q \in Requests : phase'[q] = "queued" <=> phase[q] = "queued"
  BY DEF IInv, TypeOK, ReserveContainerName
<1>4. QED BY <1>1, <1>2, <1>3, QuietStep DEF IInv, ReserveContainerName

\* AddContainerBuffer keeps it.
LEMMA AddInv ==
  ASSUME IInv, NEW r \in Requests, AddContainerBuffer(r)
  PROVE  IInv'
<1>1. TypeOK' /\ PendingIsListed'
  BY DEF IInv, TypeOK, Phase, PendingIsListed, AddContainerBuffer
<1>2. Busy' = Busy
  BY DEF IInv, TypeOK, Phase, Busy, AddContainerBuffer
<1>3. \A q \in Requests : phase'[q] = "queued" <=> phase[q] = "queued"
  BY DEF IInv, TypeOK, AddContainerBuffer
<1>4. QED BY <1>1, <1>2, <1>3, QuietStep DEF IInv, AddContainerBuffer

\* The creation of a container, failed or not, keeps it.
LEMMA HandleInv ==
  ASSUME IInv, NEW r \in Requests, Handle(r)
  PROVE  IInv'
<1>1. TypeOK' /\ PendingIsListed'
  BY DEF IInv, TypeOK, Phase, PendingIsListed, Handle, RemoveContainerBuffer
<1>2. Busy' = Busy
  BY DEF IInv, TypeOK, Phase, Busy, Handle
<1>3. \A q \in Requests : phase'[q] = "queued" <=> phase[q] = "queued"
  BY DEF IInv, TypeOK, Handle
<1>4. QED BY <1>1, <1>2, <1>3, QuietStep DEF IInv, Handle

\* The section of CreateContainerInPod under goroutinesLock keeps it: a request
\* is queued only when the last slot is taken.
LEMMA DispatchInv ==
  ASSUME IInv, NEW r \in Requests, Dispatch(r)
  PROVE  IInv'
<1> USE DEF IInv
<1>1. PendingIsListed'
  BY DEF TypeOK, Phase, PendingIsListed, Dispatch, RemoveContainerBuffer
<1>2. r \notin Busy
  BY DEF Dispatch, Busy
<1>3. CASE goroutinesLimit # 0
  <2>1. /\ goroutinesLimit' = goroutinesLimit - 1
        /\ phase' = [phase EXCEPT ![r] = "handling"]
        /\ UNCHANGED <<pod, ch, containerBuffers>>
    BY <1>3 DEF Dispatch
  <2>2. TypeOK'
    BY <1>3, <2>1 DEF TypeOK, Phase
  <2>3. Busy' = Busy \cup {r}
    BY <2>1 DEF TypeOK, Busy
  <2>4. Cardinality(Busy') = Cardinality(Busy) + 1
    BY <1>2, <2>3, BusyFinite, FS_AddElement
  <2>5. SlotsConserved'
    BY <2>1, <2>4, BusyFinite, FS_CardinalityType DEF TypeOK, SlotsConserved
  <2>6. ch = <<>>
    BY <1>3 DEF NoStrandedRequest
  <2>7. NoStrandedRequest'
    BY <2>1, <2>6 DEF NoStrandedRequest
  <2>8. QueueIsExact'
    BY <2>1 DEF TypeOK, QueueIsExact, Dispatch
  <2>9. QED BY <1>1, <2>2, <2>5, <2>7, <2>8
<1>4. CASE goroutinesLimit = 0 /\ Len(ch) < BufferChannelSize
  <2>1. /\ ch' = Append(ch, r)
        /\ phase' = [phase EXCEPT ![r] = "queued"]
        /\ UNCHANGED <<pod, goroutinesLimit, containerBuffers>>
    BY <1>4 DEF Dispatch, TypeOK
  <2>2. TypeOK'
    BY <2>1 DEF TypeOK, Phase
  <2>3. Busy' = Busy
    BY <2>1 DEF TypeOK, Busy, Dispatch
  <2>4. SlotsConserved' /\ NoStrandedRequest'
    BY <1>4, <2>1, <2>3 DEF SlotsConserved, NoStrandedRequest
  <2>5. /\ Len(ch') = Len(ch) + 1
        /\ \A i \in 1..Len(ch) : ch'[i] = ch[i]
        /\ ch'[Len(ch) + 1] = r
        /\ Len(ch) \in Nat
    BY <2>1 DEF TypeOK
  <2>6. phase[r] # "queued" /\ \A i \in 1..Len(ch) : ch[i] # r
    BY DEF Dispatch, QueueIsExact
  <2>7. ASSUME NEW q \in Requests
        PROVE  phase'[q] = "queued" <=> \E i \in 1..Len(ch') : ch'[i] = q
    <3>1. CASE q = r
      BY <2>1, <2>5, <3>1 DEF TypeOK
    <3>2. CASE q # r
      <4>1. phase'[q] = phase[q]
        BY <2>1, <3>2 DEF TypeOK
      <4>2. (\E i \in 1..Len(ch') : ch'[i] = q) <=> (\E i \in 1..Len(ch) : ch[i] = q)
        BY <2>5, <3>2
      <4>3. QED BY <4>1, <4>2 DEF QueueIsExact
    <3>3. QED BY <3>1, <3>2
  <2>8. \A i, j \in 1..Len(ch') : ch'[i] = ch'[j] => i = j
    BY <2>5, <2>6 DEF QueueIsExact
  <2>9. QED BY <1>1, <2>2, <2>4, <2>7, <2>8 DEF QueueIsExact
<1>5. CASE goroutinesLimit = 0 /\ ~(Len(ch) < BufferChannelSize)
  <2>1. /\ phase' = [phase EXCEPT ![r] = "done"]
        /\ RemoveContainerBuffer(r)
        /\ UNCHANGED <<pod, goroutinesLimit, ch>>
    BY <1>5 DEF Dispatch
  <2>2. TypeOK'
    BY <2>1 DEF TypeOK, Phase, RemoveContainerBuffer
  <2>3. Busy' = Busy
    BY <2>1 DEF TypeOK, Busy, Dispatch
  <2>4. \A q \in Requests : phase'[q] = "queued" <=> phase[q] = "queued"
    BY <2>1 DEF TypeOK, Dispatch
  <2>5. QED BY <1>1, <2>1, <2>2, <2>3, <2>4, QuietStep
<1>6. QED BY <1>3, <1>4, <1>5

\* A goroutine that goes on with the next request, or ends, keeps it: a slot is
\* given back only when the channel is empty.
LEMMA HandleNextInv ==
  ASSUME IInv, NEW r \in Requests, HandleNext(r)
  PROVE  IInv'
<1> USE DEF IInv
<1>1. r \in Busy
  BY DEF HandleNext, Busy
<1>2. CASE ch = <<>>
  <2>1. /\ phase' = [phase EXCEPT ![r] = "done"]
        /\ goroutinesLimit' = goroutinesLimit + 1
        /\ UNCHANGED <<pod, ch, containerBuffers>>
    BY <1>2 DEF HandleNext
  <2>2. TypeOK' /\ PendingIsListed'
    BY <2>1 DEF TypeOK, Phase, PendingIsListed, HandleNext
  <2>3. Busy' = Busy \ {r}
    BY <2>1 DEF TypeOK, Busy
  <2>4. Cardinality(Busy') = Cardinality(Busy) - 1
    BY <1>1, <2>3, BusyFinite, FS_RemoveElement
  <2>5. SlotsConserved'
    BY <2>1, <2>4, BusyFinite, FS_CardinalityType DEF TypeOK, SlotsConserved
  <2>6. NoStrandedRequest' /\ QueueIsExact'
    BY <1>2, <2>1 DEF TypeOK, NoStrandedRequest, QueueIsExact, HandleNext
  <2>7. QED BY <2>2, <2>5, <2>6
<1>3. CASE ch # <<>>
  <2> DEFINE h == Head(ch)
  <2>1. /\ phase' = [phase EXCEPT ![r] = "done", ![h] = "handling"]
        /\ ch' = Tail(ch)
        /\ UNCHANGED <<pod, goroutinesLimit, containerBuffers>>
    BY <1>3 DEF HandleNext
  <2>2. /\ Len(ch) \in Nat /\ Len(ch) # 0
        /\ h = ch[1] /\ h \in Requests
        /\ Len(ch') = Len(ch) - 1
        /\ \A i \in 1..Len(ch') : ch'[i] = ch[i + 1]
        /\ ch' \in Seq(Requests)
    BY <1>3, <2>1 DEF TypeOK
  <2>3. phase[h] = "queued"
    BY <2>2 DEF QueueIsExact
  <2>4. r # h
    BY <2>3 DEF HandleNext
  <2> HIDE DEF h
  <2>5. /\ phase'[r] = "done" /\ phase'[h] = "handling"
        /\ \A q \in Requests \ {r, h} : phase'[q] = phase[q]
        /\ phase' \in [Requests -> Phase]
    BY <2>1, <2>2, <2>4 DEF TypeOK, Phase
  <2>6. TypeOK'
    BY <2>1, <2>2, <2>5 DEF TypeOK
  <2>7. PendingIsListed'
    BY <2>1, <2>2, <2>3, <2>5 DEF PendingIsListed, HandleNext
  <2>8. Busy' = (Busy \ {r}) \cup {h}
    BY <2>2, <2>5 DEF Busy
  <2>9. Cardinality(Busy') = Cardinality(Busy)
    <3>1. h \notin Busy \ {r}
      BY <2>3 DEF Busy
    <3>2. IsFiniteSet(Busy \ {r}) /\ Cardinality(Busy \ {r}) = Cardinality(Busy) - 1
      BY <1>1, BusyFinite, FS_RemoveElement
    <3>3. Cardinality(Busy') = Cardinality(Busy \ {r}) + 1
      BY <2>8, <3>1, <3>2, FS_AddElement
    <3>4. QED BY <3>2, <3>3, BusyFinite, FS_CardinalityType
  <2>10. SlotsConserved' /\ NoStrandedRequest'
    BY <1>3, <2>1, <2>9 DEF SlotsConserved, NoStrandedRequest
  <2>11. ASSUME NEW q \in Requests
         PROVE  phase'[q] = "queued" <=> \E i \in 1..Len(ch') : ch'[i] = q
    <3>1. CASE q = h
      <4>1. \A i \in 1..Len(ch') : ch'[i] # h
        BY <2>2 DEF QueueIsExact
      <4>2. QED BY <2>5, <3>1, <4>1
    <3>2. CASE q = r
      <4>1. phase[r] # "queued"
        BY DEF HandleNext
      <4>2. \A i \in 1..Len(ch) : ch[i] # r
        BY <4>1 DEF QueueIsExact
      <4>3. QED BY <2>2, <2>5, <3>2, <4>2
    <3>3. CASE q \notin {r, h}
      <4>1. (\E i \in 1..Len(ch') : ch'[i] = q) => (\E i \in 1..Len(ch) : ch[i] = q)
        BY <2>2
      <4>2. ASSUME NEW i \in 1..Len(ch), ch[i] = q
            PROVE  i - 1 \in 1..Len(ch') /\ ch'[i - 1] = q
        BY <2>2, <3>3, <4>2
      <4>3. QED BY <2>5, <3>3, <4>1, <4>2 DEF QueueIsExact
    <3>4. QED BY <3>1, <3>2, <3>3
  <2>12. \A i, j \in 1..Len(ch') : ch'[i] = ch'[j] => i = j
    BY <2>2 DEF QueueIsExact
  <2>13. QED BY <2>6, <2>7, <2>10, <2>11, <2>12 DEF QueueIsExact
<1>4. QED BY <1>2, <1>3

\* The invariant holds in every state of the buffer.
THEOREM Invariance == Spec => []IInv
<1>1. Init => IInv
  BY InitInv
<1>2. IInv /\ [Next]_vars => IInv'
  <2> SUFFICES ASSUME IInv, [Next]_vars
               PROVE  IInv'
    OBVIOUS
  <2>1. CASE PodChanges
    <3>1. pod' \in SUBSET {"alive", "listed"}
      BY <2>1 DEF PodChanges
    <3>2. TypeOK' /\ PendingIsListed'
      BY <2>1, <3>1 DEF IInv, TypeOK, PendingIsListed, PodChanges
    <3>3. Busy' = Busy
      BY <2>1 DEF Busy, PodChanges
    <3>4. QED BY <2>1, <3>2, <3>3, QuietStep DEF IInv, PodChanges
  <2>2. CASE \E r \in Requests : ReserveContainerName(r) \/ Step(r)
    BY <2>2, ReserveInv, AddInv, DispatchInv, HandleInv, HandleNextInv DEF Step
  <2>3. CASE UNCHANGED vars
    <3>1. TypeOK' /\ PendingIsListed' /\ NoStrandedRequest'
      BY <2>3 DEF vars, IInv, TypeOK, PendingIsListed, NoStrandedRequest
    <3>2. Busy' = Busy
      BY <2>3 DEF vars, Busy
    <3>3. QED BY <2>3, <3>1, <3>2, QuietStep DEF vars, IInv
  <2>4. QED BY <2>1, <2>2, <2>3 DEF Next
<1>3. QED BY <1>1, <1>2, PTL DEF Spec

\* goroutinesLimit always counts the goroutines that may still be started.
THEOREM LimitIsExact == Spec => []SlotsConserved
<1>1. IInv => SlotsConserved
  BY DEF IInv
<1>2. QED BY <1>1, Invariance, PTL

\* A request is left in the channel only while all goroutines are busy.
THEOREM NoneStranded == Spec => []NoStrandedRequest
<1>1. IInv => NoStrandedRequest
  BY DEF IInv
<1>2. QED BY <1>1, Invariance, PTL

\* No accepted request is lost or handled twice.
THEOREM NoneLost == Spec => []QueueIsExact
<1>1. IInv => QueueIsExact
  BY DEF IInv
<1>2. QED BY <1>1, Invariance, PTL

\* The pod lists a container as pending exactly from the moment its creation is accepted until
\* it has succeeded or failed (AddContainerBuffer and RemoveContainerBufferAll).
THEOREM PendingListed == Spec => []PendingIsListed
<1>1. IInv => PendingIsListed
  BY DEF IInv
<1>2. QED BY <1>1, Invariance, PTL

\* A request that is neither queued, handled nor over is one that the pool has
\* not seen.
LEMMA ArrivingRequest ==
  ASSUME IInv, NEW r \in Requests, phase[r] \in {"new", "named", "buffered"}
  PROVE  Pool!Arriving(r)
<1>1. r \notin Busy /\ r \notin {q \in Requests : phase[q] = "done"}
  BY DEF Busy
<1>2. \A i \in 1 .. Len(ch) : ch[i] # r
  BY DEF IInv, QueueIsExact
<1>3. QED BY <1>1, <1>2 DEF Pool!Arriving

\* A step that changes neither the channel, the busy goroutines nor the requests
\* that are over does not exist for the pool.
LEMMA StutterStep ==
  ASSUME IInv, UNCHANGED ch, Busy' = Busy, \A r \in Requests : phase'[r] = "done" <=> phase[r] = "done"
  PROVE  UNCHANGED Pool!poolVars
BY DEF Pool!poolVars

\* A request that ends before it was accepted is one that the pool refuses.
LEMMA RefuseStep ==
  ASSUME IInv, NEW r \in Requests, phase[r] \in {"new", "named", "buffered"}, UNCHANGED ch,
         phase' = [phase EXCEPT ![r] = "done"]
  PROVE  Pool!Refuse(r)
<1>1. Busy' = Busy
  BY DEF IInv, TypeOK, Busy
<1>2. {q \in Requests : phase'[q] = "done"} = {q \in Requests : phase[q] = "done"} \cup {r}
  BY DEF IInv, TypeOK
<1>3. QED BY <1>1, <1>2, ArrivingRequest DEF Pool!Refuse

\* The section under goroutinesLock runs, queues or refuses the request: the
\* counter is zero exactly when all the workers of the pool are busy.
LEMMA DispatchRefines ==
  ASSUME IInv, NEW r \in Requests, Dispatch(r)
  PROVE  Pool!Run(r) \/ Pool!Wait(r) \/ Pool!Refuse(r)
<1> USE DEF IInv
<1>1. Pool!Arriving(r)
  BY ArrivingRequest DEF Dispatch
<1>2. Cardinality(Busy) \in Nat
  BY BusyFinite, FS_CardinalityType
<1>3. Cardinality(Busy) = BufferGoroutinesMax - goroutinesLimit
  BY <1>2 DEF SlotsConserved, TypeOK
<1>4. CASE goroutinesLimit # 0
  <2>1. phase' = [phase EXCEPT ![r] = "handling"] /\ UNCHANGED ch
    BY <1>4 DEF Dispatch
  <2>2. Busy' = Busy \cup {r}
    BY <2>1 DEF TypeOK, Busy
  <2>3. {q \in Requests : phase'[q] = "done"} = {q \in Requests : phase[q] = "done"}
    BY <2>1 DEF TypeOK, Dispatch
  <2>4. ch = <<>> /\ Cardinality(Busy) < BufferGoroutinesMax
    BY <1>3, <1>4 DEF NoStrandedRequest, TypeOK
  <2>5. Pool!Run(r)
    BY <1>1, <2>1, <2>2, <2>3, <2>4 DEF Pool!Run, Pool!Cardinality, Cardinality
  <2>6. QED BY <2>5
<1>5. CASE goroutinesLimit = 0 /\ Len(ch) < BufferChannelSize
  <2>1. ch' = Append(ch, r) /\ phase' = [phase EXCEPT ![r] = "queued"]
    BY <1>5 DEF Dispatch, TypeOK
  <2>2. Busy' = Busy
    BY <2>1 DEF TypeOK, Busy, Dispatch
  <2>3. {q \in Requests : phase'[q] = "done"} = {q \in Requests : phase[q] = "done"}
    BY <2>1 DEF TypeOK, Dispatch
  <2>4. Cardinality(Busy) = BufferGoroutinesMax
    BY <1>3, <1>5
  <2>5. Pool!Wait(r)
    BY <1>1, <1>5, <2>1, <2>2, <2>3, <2>4 DEF Pool!Wait, Pool!Cardinality, Cardinality
  <2>6. QED BY <2>5
<1>6. CASE goroutinesLimit = 0 /\ ~(Len(ch) < BufferChannelSize)
  <2>1. phase' = [phase EXCEPT ![r] = "done"] /\ UNCHANGED ch
    BY <1>6 DEF Dispatch
  <2>2. QED BY <2>1, RefuseStep DEF Dispatch
<1>7. QED BY <1>4, <1>5, <1>6

\* A goroutine that goes on or ends is a worker of the pool that finishes.
LEMMA HandleNextRefines ==
  ASSUME IInv, NEW r \in Requests, HandleNext(r)
  PROVE  Pool!Finish(r)
<1> USE DEF IInv
<1>1. r \in Busy
  BY DEF HandleNext, Busy
<1>2. CASE ch = <<>>
  <2>1. phase' = [phase EXCEPT ![r] = "done"] /\ UNCHANGED ch
    BY <1>2 DEF HandleNext
  <2>2. Busy' = Busy \ {r}
    BY <2>1 DEF TypeOK, Busy
  <2>3. {q \in Requests : phase'[q] = "done"} = {q \in Requests : phase[q] = "done"} \cup {r}
    BY <2>1 DEF TypeOK
  <2>4. QED BY <1>1, <1>2, <2>1, <2>2, <2>3 DEF Pool!Finish
<1>3. CASE ch # <<>>
  <2> DEFINE h == Head(ch)
  <2>1. phase' = [phase EXCEPT ![r] = "done", ![h] = "handling"] /\ ch' = Tail(ch)
    BY <1>3 DEF HandleNext
  <2>2. h = ch[1] /\ h \in Requests /\ 1 \in 1 .. Len(ch)
    BY <1>3 DEF TypeOK
  <2>3. phase[h] = "queued"
    BY <2>2 DEF QueueIsExact
  <2>4. r # h
    BY <2>3 DEF HandleNext
  <2> HIDE DEF h
  <2>5. /\ phase'[r] = "done" /\ phase'[h] = "handling"
        /\ \A q \in Requests \ {r, h} : phase'[q] = phase[q]
    BY <2>1, <2>2, <2>4 DEF TypeOK
  <2>6. Busy' = (Busy \ {r}) \cup {h}
    BY <2>2, <2>5 DEF Busy
  <2>7. {q \in Requests : phase'[q] = "done"} = {q \in Requests : phase[q] = "done"} \cup {r}
    BY <2>2, <2>3, <2>5
  <2>8. Busy' = (Busy \ {r}) \cup {Head(ch)}
    BY <2>6 DEF h
  <2>9. QED BY <1>1, <1>3, <2>1, <2>7, <2>8 DEF Pool!Finish
<1>4. QED BY <1>2, <1>3

\* The counter, the channel and the phases of daemon/buffer implement the pool of
\* workers of WorkerPool, for any number of goroutines and any size of the channel.
THEOREM Refinement == Spec => ImplementsPool
<1>1. Init => Pool!Init
  BY DEF Init, Pool!Init, Busy
<1>2. IInv /\ [Next]_vars => [Pool!Next]_Pool!poolVars
  <2> SUFFICES ASSUME IInv, [Next]_vars
               PROVE  [Pool!Next]_Pool!poolVars
    OBVIOUS
  <2>1. CASE PodChanges \/ UNCHANGED vars
    <3>1. Busy' = Busy /\ UNCHANGED <<ch, phase>>
      BY <2>1 DEF PodChanges, vars, Busy
    <3>2. QED BY <3>1, StutterStep
  <2>2. ASSUME NEW r \in Requests, ReserveContainerName(r) \/ AddContainerBuffer(r)
        PROVE  Pool!Refuse(r) \/ UNCHANGED Pool!poolVars
    <3>1. CASE phase' = [phase EXCEPT ![r] = "done"]
      BY <2>2, <3>1, RefuseStep DEF ReserveContainerName, AddContainerBuffer
    <3>2. CASE phase' # [phase EXCEPT ![r] = "done"]
      <4>1. /\ Busy' = Busy
            /\ \A q \in Requests : phase'[q] = "done" <=> phase[q] = "done"
        BY <2>2, <3>2 DEF IInv, TypeOK, Busy, ReserveContainerName, AddContainerBuffer
      <4>2. QED BY <2>2, <4>1, StutterStep DEF ReserveContainerName, AddContainerBuffer
    <3>3. QED BY <3>1, <3>2
  <2>3. ASSUME NEW r \in Requests, Handle(r)
        PROVE  UNCHANGED Pool!poolVars
    <3>1. /\ Busy' = Busy
          /\ \A q \in Requests : phase'[q] = "done" <=> phase[q] = "done"
      BY <2>3 DEF IInv, TypeOK, Busy, Handle
    <3>2. QED BY <2>3, <3>1, StutterStep DEF Handle
  <2>4. QED BY <2>1, <2>2, <2>3, DispatchRefines, HandleNextRefines DEF Next, Step, Pool!Next
<1>3. QED BY <1>1, <1>2, Invariance, PTL DEF Spec, ImplementsPool, Pool!Spec
=============================================================================
