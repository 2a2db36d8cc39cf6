-------------------------- MODULE ProvisionProofs --------------------------
(***************************************************************************)
(* The order in which a sandbox gets its resources and the return of the   *)
(* addresses, for any volumes, containers, interfaces and number of        *)
(* sandboxes, whatever fails.                                              *)
(***************************************************************************)
EXTENDS Provision, FiniteSetTheorems, TLAPS

-----------------------------------------------------------------------------
(* The thread that starts the pod, cleanup, and the addresses.             *)

\* The resourceLock is held while resources are prepared or added and by cleanup, and the
\* thread that holds it finds the pod alive.  The sandbox of a pod that is alive is the last.
PodInv ==
  /\ status \in {"stopped", "alive", "stopping"}
  /\ epoch \in 0..MaxSandbox
  /\ sandbox = IF status = "stopped" THEN None ELSE epoch
  /\ status # "stopped" => epoch \in Epochs
  /\ lock \in {None, "main", "cleanup"}
  /\ main \in {"idle", "new", "prepare", "undo", "add", "wait"}
  /\ lock = "main" <=> main \in {"prepare", "undo", "wait"}
  /\ lock = "cleanup" <=> status = "stopping"
  /\ lock = "main" => status = "alive"

\* An address that is allocated is the one in the description of its interface, and was
\* allocated for the last sandbox.
AddrInv ==
  /\ descript \in [Nics -> 0..MaxSandbox]
  /\ alloc \subseteq {<<n, epoch>> : n \in {m \in Nics : descript[m] = epoch}}
  /\ status = "stopped" => alloc = {}

\* A goroutine and WaitResult leave the pod and the addresses alone.
LEMMA GoroutineLeavesPod ==
  ASSUME NEW g \in Ops, Goroutine(g)
  PROVE  UNCHANGED <<faults, podVars, addrVars>>
<1>1. CASE SendResult(g)
  BY <1>1 DEF SendResult
<1>2. CASE addInterface(g)
  BY <1>2 DEF addInterface
<1>3. CASE add(g)
  BY <1>3 DEF add
<1>4. CASE insert(g)
  BY <1>4 DEF insert
<1>5. CASE umount(g)
  BY <1>5 DEF umount
<1>6. CASE setInsertFail(g)
  BY <1>6 DEF setInsertFail
<1>7. CASE setInserted(g)
  BY <1>7 DEF setInserted
<1>8. ASSUME NEW v \in Volumes, subscribeInsert(g, v) PROVE UNCHANGED <<faults, podVars, addrVars>>
  BY <1>8 DEF subscribeInsert
<1>9. CASE PrepareContainer(g)
  BY <1>9 DEF PrepareContainer
<1>10. CASE AddContainer(g)
  BY <1>10 DEF AddContainer
<1>11. QED BY <1>1, <1>2, <1>3, <1>4, <1>5, <1>6, <1>7, <1>8, <1>9, <1>10 DEF Goroutine

\* The pod begins stopped and without addresses.
LEMMA PodInit == ProvisionInit => PodInv /\ AddrInv
BY ProvisionAssumption DEF ProvisionInit, PodInv, AddrInv, Epochs

\* Every step keeps the lock, the status and the sandbox together.
LEMMA PodStep ==
  ASSUME PodInv, ProvisionNext
  PROVE  PodInv'
<1> USE ProvisionAssumption DEF PodInv, Epochs
<1>1. CASE createSandbox
  BY <1>1 DEF createSandbox
<1>2. CASE prepareResources
  BY <1>2 DEF prepareResources
<1>3. ASSUME NEW n \in Nics, prepare(n) PROVE PodInv'
  BY <1>3 DEF prepare
<1>4. CASE prepareFails
  BY <1>4 DEF prepareFails
<1>5. CASE prepared
  BY <1>5 DEF prepared
<1>6. CASE addResourcesToSandbox
  BY <1>6 DEF addResourcesToSandbox
<1>7. CASE WaitResult
  BY <1>7 DEF WaitResult, podVars
<1>8. CASE WaitReturns
  BY <1>8 DEF WaitReturns
<1>9. CASE VmExit
  BY <1>9 DEF VmExit
<1>10. CASE cleanup
  BY <1>10 DEF cleanup
<1>11. CASE decommissionResources
  BY <1>11 DEF decommissionResources
<1>12. ASSUME NEW g \in Ops, Goroutine(g) PROVE PodInv'
  BY <1>12, GoroutineLeavesPod DEF podVars
<1>13. QED BY <1>1, <1>2, <1>3, <1>4, <1>5, <1>6, <1>7, <1>8, <1>9, <1>10, <1>11, <1>12
            DEF ProvisionNext, Main

\* Every step keeps the addresses those of the last sandbox: an interface is prepared once for
\* a sandbox, and what is released is what the descriptions say.
LEMMA AddrStep ==
  ASSUME PodInv, AddrInv, ProvisionNext
  PROVE  AddrInv'
<1> USE ProvisionAssumption
<1>1. CASE createSandbox
  BY <1>1 DEF createSandbox, addrVars, AddrInv, PodInv
<1>2. CASE prepareResources
  BY <1>2 DEF prepareResources, addrVars, AddrInv
<1>3. ASSUME NEW n \in Nics, prepare(n) PROVE AddrInv'
  <2>1. CASE UNCHANGED addrVars
    BY <1>3, <2>1 DEF prepare, addrVars, AddrInv
  <2>2. CASE descript' = [descript EXCEPT ![n] = epoch] /\ alloc' = alloc \cup {<<n, epoch>>}
    <3>1. status = "alive" /\ UNCHANGED <<status, epoch>> /\ epoch \in 0..MaxSandbox
      BY <1>3 DEF prepare, PodInv
    <3>2. descript' \in [Nics -> 0..MaxSandbox] /\ descript'[n] = epoch
      BY <2>2, <3>1 DEF AddrInv
    <3>3. \A m \in Nics : descript[m] = epoch => descript'[m] = epoch
      BY <2>2 DEF AddrInv
    <3>4. alloc' \subseteq {<<m, epoch>> : m \in {k \in Nics : descript'[k] = epoch}}
      BY <2>2, <3>2, <3>3 DEF AddrInv
    <3>5. QED BY <3>1, <3>2, <3>4 DEF AddrInv
  <2>3. QED BY <1>3, <2>1, <2>2 DEF prepare
<1>4. ASSUME AddrInv PROVE Released(Nics) = {}
  BY <1>4 DEF AddrInv, Released
<1>5. CASE prepareFails
  BY <1>4, <1>5 DEF prepareFails, AddrInv
<1>6. CASE prepared
  BY <1>6 DEF prepared, addrVars, AddrInv
<1>7. CASE addResourcesToSandbox
  BY <1>7 DEF addResourcesToSandbox, addrVars, AddrInv
<1>8. CASE WaitResult
  BY <1>8 DEF WaitResult, podVars, addrVars, AddrInv
<1>9. CASE WaitReturns
  BY <1>9 DEF WaitReturns, addrVars, AddrInv
<1>10. CASE VmExit
  BY <1>10 DEF VmExit, addrVars, AddrInv
<1>11. CASE cleanup
  BY <1>11 DEF cleanup, addrVars, AddrInv
<1>12. CASE decommissionResources
  BY <1>4, <1>12 DEF decommissionResources, AddrInv
<1>13. ASSUME NEW g \in Ops, Goroutine(g) PROVE AddrInv'
  BY <1>13, GoroutineLeavesPod DEF podVars, addrVars, AddrInv
<1>14. QED BY <1>1, <1>2, <1>3, <1>5, <1>6, <1>7, <1>8, <1>9, <1>10, <1>11, <1>12, <1>13
            DEF ProvisionNext, Main

\* The pod and its addresses are as PodInv and AddrInv say, in every state.
LEMMA PodInvariance == ProvisionSpec => [](PodInv /\ AddrInv)
<1>1. PodInv /\ AddrInv /\ UNCHANGED provisionVars => PodInv' /\ AddrInv'
  BY DEF PodInv, AddrInv, provisionVars
<1>2. PodInv /\ AddrInv /\ [ProvisionNext]_provisionVars => PodInv' /\ AddrInv'
  BY <1>1, PodStep, AddrStep
<1>3. QED BY <1>2, PodInit, PTL DEF ProvisionSpec

\* A pod that is stopped holds no address, however often it was started and whatever failed
\* (Interface.prepare and cleanup, decommissionResources).
THEOREM AddressesComeBack == ProvisionSpec => []AddressesReturned
<1>1. PodInv /\ AddrInv => AddressesReturned
  BY DEF AddrInv, AddressesReturned
<1>2. QED BY <1>1, PodInvariance, PTL

-----------------------------------------------------------------------------
(* The goroutines and their WaitGroups.                                    *)

Steps == {"none", "begin", "insert", "umount", "insertFail", "inserted", "wait", "ok", "error", "done"}
Reports == [id : Resources, ok : BOOLEAN]

GoTypes ==
  /\ vol \in [Volumes -> {"CREATED", "INSERTING", "INSERTED", "ERROR"}]
  /\ subs \in [Volumes -> SUBSET CtrOps]
  /\ op \in [Ops -> Steps]
  /\ failed \subseteq CtrOps
  /\ subscribing \in [CtrOps -> SUBSET Volumes]
  /\ waitList \in [Epochs -> SUBSET Resources]
  /\ resultChan \in [Epochs -> {<<>>} \cup {<<r>> : r \in Reports}]
  /\ \A g \in Ops : /\ op[g] \in {"insert", "umount", "insertFail", "inserted"} => g[2] \in Volumes
                    /\ op[g] = "wait" => g \in CtrOps

\* The volumes that will tell the container of their insertion.
Holders(g) == {v \in Volumes : g \in subs[v]}

\* The counters are right because a container subscribes to a volume once.
WaitInv ==
  /\ wg \in [CtrOps -> Nat]
  /\ \A g \in CtrOps : wg[g] = Cardinality(Holders(g)) /\ subscribing[g] \cap Holders(g) = {}

goVars == <<vol, subs, op, wg, failed, subscribing, waitList, resultChan>>

\* The steps that are no concern of the goroutines.
Quiet ==
  \/ createSandbox \/ prepareResources \/ (\E n \in Nics : prepare(n)) \/ prepareFails \/ prepared
  \/ WaitReturns \/ VmExit \/ cleanup

LEMMA QuietLeaves ==
  ASSUME Quiet
  PROVE  UNCHANGED <<goVars, faults, inVm, misuse>>
<1> USE DEF goVars
<1>1. CASE createSandbox
  BY <1>1 DEF createSandbox
<1>2. CASE prepareResources
  BY <1>2 DEF prepareResources
<1>3. ASSUME NEW n \in Nics, prepare(n) PROVE UNCHANGED <<goVars, faults, inVm, misuse>>
  BY <1>3 DEF prepare
<1>4. CASE prepareFails
  BY <1>4 DEF prepareFails
<1>5. CASE prepared
  BY <1>5 DEF prepared
<1>6. CASE WaitReturns
  BY <1>6 DEF WaitReturns
<1>7. CASE VmExit
  BY <1>7 DEF VmExit
<1>8. CASE cleanup
  BY <1>8 DEF cleanup
<1>9. QED BY <1>1, <1>2, <1>3, <1>4, <1>5, <1>6, <1>7, <1>8 DEF Quiet

\* A goroutine is a pair.
LEMMA Pairs ==
  /\ \A g \in Ops : g = <<g[1], g[2]>> /\ g[1] \in Epochs /\ g[2] \in Resources
  /\ \A g \in CtrOps : g \in Ops /\ g[2] \in Containers
  /\ \A g \in Ops : g[2] \in Containers => g \in CtrOps
  /\ \A e \in Epochs, r \in Resources : <<e, r>> \in Ops
BY DEF Ops, CtrOps, Resources

\* The volumes that a container waits for can be counted.
LEMMA HoldersFinite ==
  ASSUME NEW g
  PROVE  /\ IsFiniteSet(Holders(g)) /\ Cardinality(Holders(g)) \in Nat
         /\ Cardinality(Holders(g)) = 0 <=> Holders(g) = {}
         /\ Cardinality(Holders(g)) <= Cardinality(Volumes)
<1>1. Holders(g) \subseteq Volumes /\ IsFiniteSet(Volumes)
  BY ProvisionAssumption DEF Holders
<1>2. QED BY <1>1, FS_Subset, FS_CardinalityType, FS_EmptySet

\* Each goroutine moves on by one step at a time, and only while it is under way.
LEMMA Moves ==
  ASSUME GoTypes, NEW g \in Ops, Goroutine(g)
  PROVE  /\ op[g] \notin {"none", "done"}
         /\ UNCHANGED waitList
         /\ UNCHANGED op \/ \E s \in Steps \ {"none"} : op' = [op EXCEPT ![g] = s]
         /\ UNCHANGED resultChan \/ SendResult(g)
<1> USE DEF At, Go, Steps
<1> DEFINE Goal ==
      /\ op[g] \notin {"none", "done"}
      /\ UNCHANGED waitList
      /\ UNCHANGED op \/ \E s \in Steps \ {"none"} : op' = [op EXCEPT ![g] = s]
      /\ UNCHANGED resultChan \/ SendResult(g)
<1>1. CASE SendResult(g)
  BY Zenon, <1>1 DEF SendResult
<1>2. CASE addInterface(g)
  BY <1>2 DEF addInterface, Call
<1>3. CASE add(g)
  BY <1>3 DEF add
<1>4. CASE insert(g)
  BY <1>4 DEF insert, Call
<1>5. CASE umount(g)
  BY Zenon, <1>5 DEF umount
<1>6. CASE setInsertFail(g)
  BY Zenon, <1>6 DEF setInsertFail
<1>7. CASE setInserted(g)
  BY Zenon, <1>7 DEF setInserted
<1>8. ASSUME NEW v \in Volumes, subscribeInsert(g, v) PROVE Goal
  BY Zenon, <1>8 DEF subscribeInsert
<1>9. CASE PrepareContainer(g)
  BY <1>9 DEF PrepareContainer
<1>10. CASE AddContainer(g)
  BY <1>10 DEF AddContainer, Call
<1>11. QED BY <1>1, <1>2, <1>3, <1>4, <1>5, <1>6, <1>7, <1>8, <1>9, <1>10 DEF Goroutine

\* At the beginning no goroutine has been started and nobody waits.
LEMMA GoInit == ProvisionInit => GoTypes /\ WaitInv
<1> SUFFICES ASSUME ProvisionInit PROVE GoTypes /\ WaitInv
  OBVIOUS
<1>1. GoTypes
  BY ProvisionAssumption DEF ProvisionInit, GoTypes, Steps, CtrOps
<1>2. ASSUME NEW g \in CtrOps PROVE Holders(g) = {}
  BY DEF ProvisionInit, Holders
<1>3. QED BY <1>1, <1>2, HoldersFinite DEF ProvisionInit, WaitInv

\* The types of a goroutine's step: what it may become depends on its resource.
LEMMA GoroutineTypes ==
  ASSUME GoTypes, NEW g \in Ops, Goroutine(g)
  PROVE  GoTypes'
<1> USE Pairs DEF At, Go, Steps, GoTypes
<1>1. CASE SendResult(g)
  BY Zenon, <1>1 DEF SendResult, Reports
<1>2. CASE addInterface(g)
  BY <1>2 DEF addInterface, Call
<1>3. CASE add(g)
  <2>1. g[2] \in Volumes /\ UNCHANGED <<subs, failed, subscribing, waitList, resultChan>>
    BY <1>3 DEF add
  <2>2. PICK s \in {"insert", "insertFail", "error", "ok"} : op' = [op EXCEPT ![g] = s]
    BY <1>3 DEF add
  <2>3. vol' \in [Volumes -> {"CREATED", "INSERTING", "INSERTED", "ERROR"}]
    BY <1>3 DEF add
  <2>4. op' \in [Ops -> Steps]
    BY <2>2
  <2>5. QED BY <2>1, <2>2, <2>3, <2>4
<1>4. CASE insert(g)
  BY <1>4 DEF insert, Call
<1>5. CASE umount(g)
  BY <1>5 DEF umount
<1>6. CASE setInsertFail(g)
  BY <1>6 DEF setInsertFail, Notify
<1>7. CASE setInserted(g)
  BY <1>7 DEF setInserted, Notify
<1>8. ASSUME NEW v \in Volumes, subscribeInsert(g, v) PROVE GoTypes'
  BY <1>8 DEF subscribeInsert
<1>9. CASE PrepareContainer(g)
  BY <1>9 DEF PrepareContainer
<1>10. CASE AddContainer(g)
  BY <1>10 DEF AddContainer, Call
<1>11. QED BY <1>1, <1>2, <1>3, <1>4, <1>5, <1>6, <1>7, <1>8, <1>9, <1>10 DEF Goroutine

\* Every step keeps the types.
LEMMA TypesStep ==
  ASSUME PodInv, GoTypes, ProvisionNext
  PROVE  GoTypes'
<1>1. CASE Quiet
  BY <1>1, QuietLeaves DEF goVars, GoTypes
<1>2. CASE addResourcesToSandbox
  <2>1. epoch \in Epochs \/ status # "alive"
    BY DEF PodInv
  <2>2. QED BY <1>2, <2>1, Pairs DEF addResourcesToSandbox, GoTypes, Steps
<1>3. CASE WaitResult
  <2>1. epoch \in Epochs
    BY <1>3 DEF WaitResult, PodInv
  <2>2. PICK r \in Reports : resultChan[epoch] = <<r>>
    BY <1>3, <2>1 DEF WaitResult, GoTypes
  <2>3. Tail(resultChan[epoch]) = <<>>
    BY <2>2
  <2>4. QED BY <1>3, <2>1, <2>3 DEF WaitResult, GoTypes
<1>4. CASE decommissionResources
  BY <1>4 DEF decommissionResources, GoTypes
<1>5. ASSUME NEW g \in Ops, Goroutine(g) PROVE GoTypes'
  BY <1>5, GoroutineTypes
<1>6. QED BY <1>1, <1>2, <1>3, <1>4, <1>5 DEF ProvisionNext, Main, Quiet

\* When a volume tells its subscribers, each counts one less (WaitGroupWithFail.Done).
LEMMA Told ==
  ASSUME GoTypes, WaitInv, NEW v \in Volumes, NEW fail, Notify(v, fail), UNCHANGED subscribing
  PROVE  WaitInv'
<1>1. wg' \in [CtrOps -> Int]
  BY DEF Notify, WaitInv
<1>2. ASSUME NEW h \in CtrOps
      PROVE wg'[h] = Cardinality(Holders(h)') /\ subscribing'[h] \cap Holders(h)' = {} /\ wg'[h] \in Nat
  <2>1. Holders(h)' = Holders(h) \ {v}
    BY DEF Notify, Holders, GoTypes
  <2>2. IsFiniteSet(Holders(h)) /\ Cardinality(Holders(h)) \in Nat
    BY HoldersFinite
  <2>3. Cardinality(Holders(h) \ {v}) = IF v \in Holders(h) THEN Cardinality(Holders(h)) - 1
                                                           ELSE Cardinality(Holders(h))
    BY Zenon, <2>2, FS_RemoveElement
  <2>4. v \in Holders(h) <=> h \in subs[v]
    BY DEF Holders
  <2>5. wg'[h] = IF h \in subs[v] THEN wg[h] - 1 ELSE wg[h]
    BY DEF Notify
  <2>6. Cardinality(Holders(h) \ {v}) \in Nat
    BY <2>2, FS_RemoveElement, FS_CardinalityType
  <2>7. wg[h] = Cardinality(Holders(h)) /\ subscribing[h] \cap Holders(h) = {}
    BY DEF WaitInv
  <2>8. QED BY <2>1, <2>3, <2>4, <2>5, <2>6, <2>7
<1>3. QED BY <1>1, <1>2 DEF WaitInv

\* A container that subscribes to a volume that is still to be inserted counts it, and has not
\* counted it before (addToSandbox, subscribeInsert).
LEMMA Subscribed ==
  ASSUME GoTypes, WaitInv, NEW g \in CtrOps, NEW v \in Volumes, v \in subscribing[g],
         subscribing' = [subscribing EXCEPT ![g] = @ \ {v}],
         wg' = [wg EXCEPT ![g] = @ + 1], subs' = [subs EXCEPT ![v] = @ \cup {g}]
  PROVE  WaitInv'
<1>1. wg' \in [CtrOps -> Nat]
  BY DEF WaitInv
<1>2. ASSUME NEW h \in CtrOps
      PROVE wg'[h] = Cardinality(Holders(h)') /\ subscribing'[h] \cap Holders(h)' = {}
  <2>1. Holders(h)' = IF h = g THEN Holders(h) \cup {v} ELSE Holders(h)
    BY DEF Holders, GoTypes
  <2>2. wg[h] = Cardinality(Holders(h)) /\ subscribing[h] \cap Holders(h) = {}
    BY DEF WaitInv
  <2>3. IsFiniteSet(Holders(h))
    BY HoldersFinite
  <2>4. v \notin Holders(h) => Cardinality(Holders(h) \cup {v}) = Cardinality(Holders(h)) + 1
    BY Zenon, <2>3, FS_AddElement
  <2>5. wg'[h] = (IF h = g THEN wg[h] + 1 ELSE wg[h])
        /\ subscribing'[h] = (IF h = g THEN subscribing[h] \ {v} ELSE subscribing[h])
    BY Zenon DEF WaitInv, GoTypes
  <2>6. QED BY <2>1, <2>2, <2>4, <2>5
<1>3. QED BY <1>1, <1>2 DEF WaitInv

\* A step that leaves counters and subscribers alone, and makes no one subscribe again.
LEMMA WaitersSame ==
  ASSUME WaitInv, UNCHANGED <<wg, subs>>, \A h \in CtrOps : subscribing'[h] \subseteq subscribing[h]
  PROVE  WaitInv'
<1>1. ASSUME NEW h PROVE Holders(h)' = Holders(h)
  BY DEF Holders
<1>2. QED BY <1>1 DEF WaitInv

\* Every step keeps the counters right.
LEMMA WaitStep ==
  ASSUME GoTypes, WaitInv, ProvisionNext
  PROVE  WaitInv'
<1>1. CASE Quiet
  BY <1>1, QuietLeaves, WaitersSame DEF goVars
<1>2. CASE addResourcesToSandbox
  BY <1>2, WaitersSame DEF addResourcesToSandbox
<1>3. CASE WaitResult
  BY <1>3, WaitersSame DEF WaitResult
<1>4. CASE decommissionResources
  BY <1>4, WaitersSame DEF decommissionResources
<1>5. ASSUME NEW g \in Ops, Goroutine(g) PROVE WaitInv'
  <2>1. CASE SendResult(g)
    BY <2>1, WaitersSame DEF SendResult
  <2>2. CASE addInterface(g)
    BY <2>2, WaitersSame DEF addInterface
  <2>3. CASE add(g)
    BY <2>3, WaitersSame DEF add
  <2>4. CASE insert(g)
    BY <2>4, WaitersSame DEF insert
  <2>5. CASE umount(g)
    BY <2>5, WaitersSame DEF umount
  <2>6. CASE setInsertFail(g)
    <3>1. g[2] \in Volumes
      BY <2>6 DEF setInsertFail, At, GoTypes
    <3>2. QED BY Zenon, <2>6, <3>1, Told DEF setInsertFail
  <2>7. CASE setInserted(g)
    <3>1. g[2] \in Volumes
      BY <2>7 DEF setInserted, At, GoTypes
    <3>2. QED BY Zenon, <2>7, <3>1, Told DEF setInserted
  <2>8. ASSUME NEW v \in Volumes, subscribeInsert(g, v) PROVE WaitInv'
    <3>1. g \in CtrOps /\ v \in subscribing[g] /\ subscribing' = [subscribing EXCEPT ![g] = @ \ {v}]
      BY <2>8, Pairs DEF subscribeInsert
    <3>2. CASE UNCHANGED <<wg, subs>>
      BY <3>1, <3>2, WaitersSame DEF GoTypes
    <3>3. CASE wg' = [wg EXCEPT ![g] = @ + 1] /\ subs' = [subs EXCEPT ![v] = @ \cup {g}]
      BY Zenon, <3>1, <3>3, Subscribed
    <3>4. QED BY <2>8, <3>2, <3>3 DEF subscribeInsert
  <2>9. CASE PrepareContainer(g)
    BY <2>9, WaitersSame DEF PrepareContainer
  <2>10. CASE AddContainer(g)
    BY <2>10, WaitersSame DEF AddContainer
  <2>11. QED BY <1>5, <2>1, <2>2, <2>3, <2>4, <2>5, <2>6, <2>7, <2>8, <2>9, <2>10 DEF Goroutine
<1>6. QED BY <1>1, <1>2, <1>3, <1>4, <1>5 DEF ProvisionNext, Main, Quiet

-----------------------------------------------------------------------------
(* Without a timer that leaves goroutines behind: the order of insertion.  *)

\* A goroutine is under way only while addResourcesToSandbox waits for it; what is reported is
\* done; and no goroutine of a sandbox begins before addResourcesToSandbox.
RunInv ==
  /\ \A g \in Ops : op[g] \notin {"none", "done"} =>
       main = "wait" /\ g[1] = epoch /\ g[2] \in waitList[epoch]
  /\ \A e \in Epochs, r \in Reports : resultChan[e] = <<r>> => op[<<e, r.id>>] = "done"
  /\ \A g \in Ops : g[1] > epoch \/ (g[1] = epoch /\ main \in {"new", "prepare", "undo", "add"}) =>
       op[g] = "none"

\* A container has yet to subscribe to all its volumes before it begins, and to none when it
\* waits.
Subscriptions ==
  \A g \in CtrOps : /\ op[g] = "none" => subscribing[g] = VolsOf[g[2]]
                    /\ op[g] = "wait" => subscribing[g] = {}

\* What the sandbox was given was given by the goroutine of this resource, which is past it;
\* a volume that counts as INSERTED was given.
Given ==
  /\ inVm \subseteq Resources
  /\ status = "stopped" => inVm = {}
  /\ \A x \in inVm : op[<<epoch, x>>] \in {"inserted", "ok", "done"}
  /\ \A g \in Ops : op[g] = "inserted" => g[2] \in inVm
  /\ \A v \in Volumes : vol[v] = "INSERTED" => v \in inVm

\* A volume to which a container has subscribed was given to the sandbox, or failed, or will
\* still tell the container.
Heard ==
  \A g \in CtrOps : op[g] \in {"begin", "wait"} =>
    \A v \in VolsOf[g[2]] : v \in subscribing[g] \/ g \in subs[v] \/ g \in failed \/ v \in inVm

VolumesGiven == \A c \in Containers \cap inVm : VolsOf[c] \subseteq inVm

OrderInv == RunInv /\ Subscriptions /\ Given /\ Heard /\ VolumesGiven /\ misuse = None

NoTimer == "timeout" \notin faults

\* At the beginning nothing has begun.
LEMMA OrderInit == ProvisionInit => OrderInv
<1> SUFFICES ASSUME ProvisionInit PROVE OrderInv
  OBVIOUS
<1>1. RunInv
  BY Pairs DEF ProvisionInit, RunInv, Epochs
<1>2. Subscriptions /\ Heard
  BY Pairs DEF ProvisionInit, Subscriptions, Heard
<1>3. Given /\ VolumesGiven /\ misuse = None
  BY DEF ProvisionInit, Given, VolumesGiven
<1>4. QED BY <1>1, <1>2, <1>3 DEF OrderInv

\* The goroutines and the thread that waits for them.
LEMMA RunStep ==
  ASSUME PodInv, GoTypes, RunInv, NoTimer, ProvisionNext
  PROVE  RunInv'
<1> USE ProvisionAssumption
<1>1. CASE createSandbox
  <2>1. main = "idle" /\ main' = "new" /\ epoch' = epoch + 1 /\ epoch \in Nat
        /\ UNCHANGED <<op, waitList, resultChan>>
    BY <1>1 DEF createSandbox, PodInv
  <2>2. \A g \in Ops : g[1] \in Nat /\ g[1] \in Epochs
    BY Pairs DEF Epochs
  <2>3. QED BY <2>1, <2>2 DEF RunInv
<1>2. CASE prepareResources
  BY <1>2 DEF prepareResources, RunInv
<1>3. ASSUME NEW n \in Nics, prepare(n) PROVE RunInv'
  BY <1>3 DEF prepare, RunInv
<1>4. CASE prepareFails
  BY <1>4 DEF prepareFails, RunInv
<1>5. CASE prepared
  BY <1>5 DEF prepared, RunInv
<1>6. CASE addResourcesToSandbox
  <2>1. CASE status = "alive"
    <3>1. /\ main = "add" /\ main' = "wait" /\ epoch \in Epochs
          /\ UNCHANGED <<epoch, resultChan>>
          /\ op' = [g \in Ops |-> IF g[1] = epoch THEN "begin" ELSE op[g]]
          /\ waitList'[epoch] = Resources
      BY <1>6, <2>1 DEF addResourcesToSandbox, PodInv, GoTypes
    <3>2. \A g \in Ops : op[g] \in {"none", "done"}
      BY <3>1 DEF RunInv
    <3>3. \A g \in Ops : op'[g] \notin {"none", "done"} => g[1] = epoch /\ g[2] \in waitList'[epoch]
      BY <3>1, <3>2, Pairs
    <3>4. ASSUME NEW e \in Epochs, NEW r \in Reports, resultChan[e] = <<r>>
          PROVE  op'[<<e, r.id>>] = "done"
      <4>1. <<e, r.id>> \in Ops /\ op[<<e, r.id>>] = "done"
        BY <3>4, Pairs DEF RunInv, Reports
      <4>2. e # epoch
        BY <3>1, <4>1 DEF RunInv
      <4>3. QED BY <3>1, <4>1, <4>2
    <3>5. \A g \in Ops : g[1] > epoch => op'[g] = "none"
      BY <3>1 DEF RunInv, PodInv
    <3>6. QED BY <3>1, <3>3, <3>4, <3>5 DEF RunInv
  <2>2. CASE status # "alive"
    BY <1>6, <2>2 DEF addResourcesToSandbox, RunInv
  <2>3. QED BY <2>1, <2>2
<1>7. CASE WaitResult
  <2>1. /\ epoch \in Epochs /\ main = "wait" /\ UNCHANGED <<main, epoch, op>>
        /\ resultChan[epoch] # <<>>
        /\ waitList' = [waitList EXCEPT ![epoch] = @ \ {Head(resultChan[epoch]).id}]
        /\ resultChan' = [resultChan EXCEPT ![epoch] = Tail(@)]
    BY <1>7 DEF WaitResult, PodInv, podVars
  <2>2. PICK r \in Reports : resultChan[epoch] = <<r>>
    BY <2>1 DEF GoTypes
  <2>3. Tail(resultChan[epoch]) = <<>> /\ Head(resultChan[epoch]) = r
    BY <2>2
  <2>4. op[<<epoch, r.id>>] = "done" /\ waitList'[epoch] = waitList[epoch] \ {r.id}
    BY <2>1, <2>2, <2>3 DEF RunInv, GoTypes
  <2>5. \A g \in Ops : op[g] \notin {"none", "done"} => g[1] = epoch /\ g[2] \in waitList'[epoch]
    BY <2>1, <2>4, Pairs DEF RunInv
  <2>6. \A e \in Epochs, s \in Reports : resultChan'[e] = <<s>> => resultChan[e] = <<s>>
    BY <2>1, <2>3 DEF GoTypes
  <2>7. QED BY <2>1, <2>5, <2>6 DEF RunInv
<1>8. CASE WaitReturns
  <2>1. main = "wait" /\ main' = "idle" /\ waitList[epoch] = {} /\ UNCHANGED <<epoch, op, waitList, resultChan>>
    BY <1>8 DEF WaitReturns, NoTimer
  <2>2. QED BY <2>1 DEF RunInv
<1>9. CASE VmExit
  BY <1>9 DEF VmExit, RunInv
<1>10. CASE cleanup
  BY <1>10 DEF cleanup, RunInv
<1>11. CASE decommissionResources
  BY <1>11 DEF decommissionResources, RunInv
<1>12. ASSUME NEW g \in Ops, Goroutine(g) PROVE RunInv'
  <2>1. UNCHANGED <<main, epoch, waitList>> /\ op[g] \notin {"none", "done"}
    BY <1>12, Moves, GoroutineLeavesPod DEF podVars
  <2>2. main = "wait" /\ g[1] = epoch /\ g[2] \in waitList[epoch] /\ epoch \in Nat
    BY <2>1 DEF RunInv, PodInv
  <2>3. /\ \A h \in Ops : h # g => op'[h] = op[h]
        /\ op'[g] # "none"
    BY <1>12, <2>1, Moves DEF GoTypes
  <2>4. ASSUME NEW e \in Epochs, NEW r \in Reports, resultChan'[e] = <<r>>
        PROVE  op'[<<e, r.id>>] = "done"
    <3>1. <<e, r.id>> \in Ops
      BY Pairs DEF Reports
    <3>2. CASE UNCHANGED resultChan
      BY <2>1, <2>3, <2>4, <3>1, <3>2 DEF RunInv
    <3>3. CASE SendResult(g) /\ e # g[1]
      <4>1. resultChan[e] = <<r>>
        BY <2>4, <3>3 DEF SendResult, GoTypes
      <4>2. <<e, r.id>> # g
        BY <3>3
      <4>3. QED BY <2>3, <3>1, <4>1, <4>2 DEF RunInv
    <3>4. CASE SendResult(g) /\ e = g[1]
      <4>1. resultChan'[e] = <<[id |-> g[2], ok |-> op[g] = "ok"]>>
        BY <3>4, Pairs DEF SendResult, GoTypes
      <4>2. r.id = g[2]
        BY <2>4, <4>1
      <4>3. <<e, r.id>> = g
        BY <3>4, <4>2, Pairs
      <4>4. QED BY <3>4, <4>3 DEF SendResult, Go, GoTypes
    <3>5. QED BY <1>12, <3>2, <3>3, <3>4, Moves
  <2>5. QED BY <2>1, <2>2, <2>3, <2>4 DEF RunInv
<1>13. QED BY <1>1, <1>2, <1>3, <1>4, <1>5, <1>6, <1>7, <1>8, <1>9, <1>10, <1>11, <1>12
            DEF ProvisionNext, Main

\* A goroutine that is under way belongs to the sandbox that the pod has.
LEMMA UnderWay ==
  ASSUME PodInv, RunInv, NEW g \in Ops, op[g] \notin {"none", "done"}
  PROVE  g = <<epoch, g[2]>> /\ g[2] \in Resources /\ sandbox # None /\ status = "alive" /\ main = "wait"
<1>1. main = "wait" /\ g[1] = epoch
  BY DEF RunInv
<1>2. status = "alive" /\ sandbox = epoch /\ epoch \in Epochs
  BY <1>1 DEF PodInv
<1>3. QED BY <1>1, <1>2, Pairs, ProvisionAssumption DEF Epochs

\* A call of the sandbox gives it something that it did not have, or fails.
LEMMA CallGives ==
  ASSUME PodInv, RunInv, OrderInv, NEW g \in Ops, op[g] \in {"begin", "insert", "wait"},
         NEW f, NEW bad, NEW good, Call(g, f, bad, good)
  PROVE  /\ misuse' = None
         /\ \/ inVm' = inVm \cup {g[2]} /\ op' = [op EXCEPT ![g] = good]
            \/ inVm' = inVm /\ op' = [op EXCEPT ![g] = bad]
<1>1. g = <<epoch, g[2]>> /\ sandbox # None
  BY UnderWay
<1>2. g[2] \notin inVm
  BY <1>1 DEF OrderInv, Given
<1>3. QED BY <1>1, <1>2 DEF Call, Go, OrderInv

\* What a goroutine's step means for the sandbox: it is past a resource that it gave, others
\* stay where they are, and a volume becomes INSERTED after it was given.
LEMMA GivenKept ==
  ASSUME PodInv, GoTypes, RunInv, Given, NEW g \in Ops, op[g] \notin {"none", "done"},
         UNCHANGED <<status, epoch>>, NEW s \in Steps, op' = [op EXCEPT ![g] = s],
         \/ inVm' = inVm /\ (g[2] \in inVm => s \in {"inserted", "ok", "done"}) /\ s # "inserted"
         \/ inVm' = inVm \cup {g[2]} /\ s \in {"inserted", "ok", "done"},
         \A v \in Volumes : vol'[v] = "INSERTED" => vol[v] = "INSERTED" \/ v \in inVm'
  PROVE  Given'
<1>1. g = <<epoch, g[2]>> /\ g[2] \in Resources /\ status = "alive"
  BY UnderWay
<1>2. op'[g] = s /\ \A h \in Ops : h # g => op'[h] = op[h]
  BY DEF GoTypes
<1>3. ASSUME NEW x \in inVm' PROVE x \in Resources /\ op'[<<epoch, x>>] \in {"inserted", "ok", "done"}
  <2>1. x \in inVm \/ x = g[2]
    OBVIOUS
  <2>2. CASE x = g[2]
    BY <1>1, <1>2, <2>2
  <2>3. CASE x # g[2] /\ x \in inVm
    <3>1. <<epoch, x>> # g /\ x \in Resources /\ op[<<epoch, x>>] \in {"inserted", "ok", "done"}
      BY <1>1, <2>3 DEF Given
    <3>2. epoch \in Epochs
      BY <1>1 DEF PodInv
    <3>3. <<epoch, x>> \in Ops
      BY <3>1, <3>2, Pairs
    <3>4. QED BY <1>2, <3>1, <3>3
  <2>4. QED BY <2>1, <2>2, <2>3
<1>4. ASSUME NEW h \in Ops, op'[h] = "inserted" PROVE h[2] \in inVm'
  BY <1>2, <1>4 DEF Given
<1>5. \A v \in Volumes : vol'[v] = "INSERTED" => v \in inVm'
  BY DEF Given
<1>6. QED BY <1>1, <1>3, <1>4, <1>5 DEF Given

\* When nobody but the goroutine g moves, and it neither begins nor waits, the others hear of
\* the volumes as before.
LEMMA HeardKept ==
  ASSUME GoTypes, Subscriptions, Heard, NEW g \in Ops, op[g] \notin {"none", "done"},
         NEW s \in Steps \ {"none"}, op' = [op EXCEPT ![g] = s], inVm \subseteq inVm',
         s \notin {"begin", "wait"},
         \A h \in CtrOps : h # g => subscribing'[h] = subscribing[h] /\ (h \in failed => h \in failed'),
         \A h \in CtrOps, v \in Volumes : h \in subs[v] => h \in subs'[v] \/ h \in failed' \/ v \in inVm'
  PROVE  Subscriptions' /\ Heard'
<1>1. \A h \in CtrOps : h \in Ops /\ VolsOf[h[2]] \subseteq Volumes
  BY Pairs, ProvisionAssumption
<1>2. op'[g] = s /\ \A h \in Ops : h # g => op'[h] = op[h]
  BY DEF GoTypes
<1>3. Subscriptions'
  BY <1>1, <1>2 DEF Subscriptions
<1>4. ASSUME NEW h \in CtrOps, op'[h] \in {"begin", "wait"}, NEW v \in VolsOf[h[2]]
      PROVE  v \in subscribing'[h] \/ h \in subs'[v] \/ h \in failed' \/ v \in inVm'
  <2>1. h # g /\ op[h] \in {"begin", "wait"} /\ v \in Volumes
    BY <1>1, <1>2, <1>4
  <2>2. v \in subscribing[h] \/ h \in subs[v] \/ h \in failed \/ v \in inVm
    BY <2>1 DEF Heard
  <2>3. QED BY <2>1, <2>2
<1>5. QED BY <1>3, <1>4 DEF Heard

\* The order of insertion through the steps of a goroutine.
LEMMA GoroutineOrder ==
  ASSUME PodInv, GoTypes, WaitInv, OrderInv, NEW g \in Ops, Goroutine(g)
  PROVE  Subscriptions' /\ Given' /\ Heard' /\ VolumesGiven' /\ misuse' = None
<1> DEFINE Goal == Subscriptions' /\ Given' /\ Heard' /\ VolumesGiven' /\ misuse' = None
<1>0. /\ RunInv /\ Given /\ Subscriptions /\ Heard /\ VolumesGiven /\ misuse = None
      /\ UNCHANGED <<status, epoch>> /\ op[g] \notin {"none", "done"}
      /\ g[2] \in inVm => op[g] \in {"inserted", "ok", "done"}
  <2>1. RunInv /\ Given /\ Subscriptions /\ Heard /\ VolumesGiven /\ misuse = None
    BY DEF OrderInv
  <2>2. UNCHANGED <<status, epoch>> /\ op[g] \notin {"none", "done"}
    BY Moves, GoroutineLeavesPod DEF podVars
  <2>3. g = <<epoch, g[2]>>
    BY <2>1, <2>2, UnderWay
  <2>4. QED BY <2>1, <2>2, <2>3 DEF Given
<1>1. CASE SendResult(g)
  <2>1. /\ op' = [op EXCEPT ![g] = "done"] /\ failed' = failed \ {g}
        /\ subscribing' = [h \in CtrOps |-> IF h = g THEN {} ELSE subscribing[h]]
        /\ UNCHANGED <<vol, subs, inVm, misuse>>
    BY <1>1 DEF SendResult, Go
  <2>2. Given'
    BY Zenon, <1>0, <2>1, GivenKept DEF Steps
  <2>3. Subscriptions' /\ Heard'
    BY Zenon, <1>0, <2>1, HeardKept DEF Steps
  <2>4. QED BY <1>0, <2>1, <2>2, <2>3 DEF VolumesGiven
<1>2. CASE addInterface(g)
  <2>1. op[g] = "begin" /\ g[2] = "nics" /\ Call(g, "nic", "error", "ok")
        /\ UNCHANGED <<vol, subs, failed, subscribing>>
    BY <1>2 DEF addInterface, At
  <2>2. PICK s \in {"error", "ok"} :
          /\ op' = [op EXCEPT ![g] = s] /\ misuse' = None
          /\ inVm' = inVm \/ (inVm' = inVm \cup {g[2]} /\ s = "ok")
    BY <1>0, <2>1, CallGives
  <2>3. Given'
    BY Zenon, <1>0, <2>1, <2>2, GivenKept DEF Steps
  <2>4. Subscriptions' /\ Heard'
    BY ZenonT(40), <1>0, <2>1, <2>2, HeardKept DEF Steps
  <2>5. VolumesGiven'
    BY <1>0, <2>1, <2>2, ProvisionAssumption DEF VolumesGiven
  <2>6. QED BY <2>2, <2>3, <2>4, <2>5
<1>3. CASE add(g)
  <2>1. op[g] = "begin" /\ g[2] \in Volumes /\ UNCHANGED <<subs, failed, subscribing, inVm, misuse>>
    BY <1>3 DEF add, At
  <2>2. PICK s \in {"insert", "insertFail", "error", "ok"} : op' = [op EXCEPT ![g] = s]
    BY <1>3 DEF add, Go
  <2>3. \A v \in Volumes : vol'[v] = "INSERTED" => vol[v] = "INSERTED"
    BY <1>3 DEF add, GoTypes
  <2>4. Given'
    BY Zenon, <1>0, <2>1, <2>2, <2>3, GivenKept DEF Steps
  <2>5. Subscriptions' /\ Heard'
    BY Zenon, <1>0, <2>1, <2>2, HeardKept DEF Steps
  <2>6. QED BY <1>0, <2>1, <2>4, <2>5 DEF VolumesGiven
<1>4. CASE insert(g)
  <2>1. op[g] = "insert" /\ g[2] \in Volumes /\ Call(g, "insert", "umount", "inserted")
        /\ UNCHANGED <<vol, subs, failed, subscribing>>
    BY <1>4 DEF insert, At, GoTypes
  <2>2. PICK s \in {"umount", "inserted"} :
          /\ op' = [op EXCEPT ![g] = s] /\ misuse' = None
          /\ (inVm' = inVm /\ s = "umount") \/ (inVm' = inVm \cup {g[2]} /\ s = "inserted")
    BY <1>0, <2>1, CallGives
  <2>3. Given'
    BY Zenon, <1>0, <2>1, <2>2, GivenKept DEF Steps
  <2>4. Subscriptions' /\ Heard'
    BY Zenon, <1>0, <2>1, <2>2, HeardKept DEF Steps
  <2>5. VolumesGiven'
    BY <1>0, <2>1, <2>2, ProvisionAssumption DEF VolumesGiven
  <2>6. QED BY <2>2, <2>3, <2>4, <2>5
<1>5. CASE umount(g)
  <2>1. op[g] = "umount" /\ op' = [op EXCEPT ![g] = "insertFail"]
        /\ UNCHANGED <<subs, failed, subscribing, inVm, misuse>>
    BY <1>5 DEF umount, At, Go
  <2>2. \A v \in Volumes : vol'[v] = "INSERTED" => vol[v] = "INSERTED"
    BY <1>5 DEF umount, GoTypes
  <2>3. Given'
    BY Zenon, <1>0, <2>1, <2>2, GivenKept DEF Steps
  <2>4. Subscriptions' /\ Heard'
    BY Zenon, <1>0, <2>1, HeardKept DEF Steps
  <2>5. QED BY <1>0, <2>1, <2>3, <2>4 DEF VolumesGiven
<1>6. CASE setInsertFail(g)
  <2>1. op[g] = "insertFail" /\ op' = [op EXCEPT ![g] = "error"] /\ g[2] \in Volumes
        /\ UNCHANGED <<subscribing, inVm, misuse>>
    BY <1>6 DEF setInsertFail, At, Go, GoTypes
  <2>2. \A v \in Volumes : vol'[v] = "INSERTED" => vol[v] = "INSERTED"
    BY <1>6 DEF setInsertFail, GoTypes
  <2>3. failed' = failed \cup subs[g[2]] /\ subs' = [subs EXCEPT ![g[2]] = {}]
    BY <1>6 DEF setInsertFail, Notify
  <2>4. Given'
    BY Zenon, <1>0, <2>1, <2>2, GivenKept DEF Steps
  <2>5. \A h \in CtrOps, v \in Volumes : h \in subs[v] => h \in subs'[v] \/ h \in failed'
    BY <2>1, <2>3 DEF GoTypes
  <2>6. Subscriptions' /\ Heard'
    BY Zenon, <1>0, <2>1, <2>3, <2>5, HeardKept DEF Steps
  <2>7. QED BY <1>0, <2>1, <2>4, <2>6 DEF VolumesGiven
<1>7. CASE setInserted(g)
  <2>1. op[g] = "inserted" /\ op' = [op EXCEPT ![g] = "ok"] /\ g[2] \in Volumes /\ g[2] \in inVm
        /\ UNCHANGED <<subscribing, inVm, misuse>>
    BY <1>0, <1>7 DEF setInserted, At, Go, GoTypes, Given
  <2>2. \A v \in Volumes : vol'[v] = "INSERTED" => vol[v] = "INSERTED" \/ v \in inVm
    BY <1>7, <2>1 DEF setInserted, GoTypes
  <2>3. failed' = failed /\ subs' = [subs EXCEPT ![g[2]] = {}]
    BY <1>7 DEF setInserted, Notify
  <2>4. Given'
    BY Zenon, <1>0, <2>1, <2>2, GivenKept DEF Steps
  <2>5. \A h \in CtrOps, v \in Volumes : h \in subs[v] => h \in subs'[v] \/ v \in inVm'
    BY <2>1, <2>3 DEF GoTypes
  <2>6. Subscriptions' /\ Heard'
    BY Zenon, <1>0, <2>1, <2>3, <2>5, HeardKept DEF Steps
  <2>7. QED BY <1>0, <2>1, <2>4, <2>6 DEF VolumesGiven
<1>8. ASSUME NEW v \in Volumes, subscribeInsert(g, v) PROVE Goal
  <2>1. /\ op[g] = "begin" /\ g \in CtrOps /\ v \in subscribing[g]
        /\ subscribing' = [subscribing EXCEPT ![g] = @ \ {v}]
        /\ UNCHANGED <<vol, failed, inVm, misuse>>
    BY <1>8, Pairs DEF subscribeInsert, At
  <2>2. PICK s \in {"begin", "error"} : op' = [op EXCEPT ![g] = s] /\ (s = "error" <=> vol[v] = "ERROR")
    BY Zenon, <1>8 DEF subscribeInsert, Go
  <2>3. Given'
    BY Zenon, <1>0, <2>1, <2>2, GivenKept DEF Steps
  <2>4. op'[g] = s /\ \A h \in Ops : h # g => op'[h] = op[h]
    BY <2>2 DEF GoTypes
  <2>5. Subscriptions'
    BY <1>0, <2>1, <2>4, Pairs DEF Subscriptions, GoTypes
  <2>6. \/ UNCHANGED subs /\ (vol[v] = "INSERTED" \/ s = "error")
        \/ subs' = [subs EXCEPT ![v] = @ \cup {g}]
    BY <1>8, <2>2 DEF subscribeInsert
  <2>7. /\ \A h \in CtrOps, w \in Volumes : h \in subs[w] => h \in subs'[w]
        /\ g \in subs'[v] \/ v \in inVm \/ s = "error"
    BY <1>0, <2>6 DEF GoTypes, Given
  <2>8. ASSUME NEW h \in CtrOps, op'[h] \in {"begin", "wait"}, NEW w \in VolsOf[h[2]]
        PROVE  w \in subscribing'[h] \/ h \in subs'[w] \/ h \in failed' \/ w \in inVm'
    <3>1. h \in Ops /\ w \in Volumes
      BY <2>8, Pairs, ProvisionAssumption
    <3>2. op[h] \in {"begin", "wait"}
      BY <2>1, <2>4, <2>8, <3>1
    <3>3. w \in subscribing[h] \/ h \in subs[w] \/ h \in failed \/ w \in inVm
      BY <1>0, <3>2 DEF Heard
    <3>4. CASE h = g /\ w = v
      BY <2>1, <2>4, <2>7, <2>8, <3>4
    <3>5. CASE ~(h = g /\ w = v)
      <4>1. w \in subscribing[h] => w \in subscribing'[h]
        BY <2>1, <3>5 DEF GoTypes
      <4>2. QED BY <2>1, <2>7, <3>1, <3>3, <4>1
    <3>6. QED BY <3>4, <3>5
  <2>9. QED BY Zenon, <1>0, <2>1, <2>3, <2>5, <2>8 DEF Heard, VolumesGiven
<1>9. CASE PrepareContainer(g)
  <2>1. /\ op[g] = "begin" /\ g \in CtrOps /\ subscribing[g] = {}
        /\ UNCHANGED <<vol, subs, failed, subscribing, inVm, misuse>>
    BY <1>9, Pairs DEF PrepareContainer, At
  <2>2. PICK s \in {"wait", "error"} : op' = [op EXCEPT ![g] = s]
    BY <1>9 DEF PrepareContainer, Go
  <2>3. Given'
    BY Zenon, <1>0, <2>1, <2>2, GivenKept DEF Steps
  <2>4. op'[g] = s /\ \A h \in Ops : h # g => op'[h] = op[h]
    BY <2>2 DEF GoTypes
  <2>5. Subscriptions' /\ Heard'
    BY <1>0, <2>1, <2>4, Pairs DEF Subscriptions, Heard
  <2>6. QED BY <1>0, <2>1, <2>3, <2>5 DEF VolumesGiven
<1>10. CASE AddContainer(g)
  <2>1. op[g] = "wait" /\ wg[g] = 0 /\ g \in CtrOps /\ UNCHANGED <<vol, subs, failed, subscribing>>
    BY Zenon, <1>10 DEF AddContainer, At, GoTypes
  <2>2. PICK s \in {"error", "ok"} :
          /\ op' = [op EXCEPT ![g] = s] /\ misuse' = None
          /\ inVm' = inVm \/ (inVm' = inVm \cup {g[2]} /\ s = "ok" /\ g \notin failed)
    <3>1. CASE g \in failed
      BY <1>0, <1>10, <3>1 DEF AddContainer, Go
    <3>2. CASE g \notin failed
      <4>1. Call(g, "container", "error", "ok")
        BY <1>10, <3>2 DEF AddContainer
      <4>2. QED BY <1>0, <2>1, <3>2, <4>1, CallGives
    <3>3. QED BY <3>1, <3>2
  <2>3. Given'
    BY Zenon, <1>0, <2>1, <2>2, GivenKept DEF Steps
  <2>4. Subscriptions' /\ Heard'
    BY Zenon, <1>0, <2>1, <2>2, HeardKept DEF Steps
  <2>5. g \notin failed => VolsOf[g[2]] \subseteq inVm
    <3>1. Holders(g) = {}
      BY <2>1, HoldersFinite DEF WaitInv
    <3>2. VolsOf[g[2]] \subseteq Volumes /\ g[2] \in Containers
      BY <2>1, Pairs, ProvisionAssumption
    <3>3. subscribing[g] = {}
      BY <1>0, <2>1 DEF Subscriptions
    <3>4. QED BY <1>0, <2>1, <3>1, <3>2, <3>3 DEF Heard, Holders
  <2>6. VolumesGiven'
    BY <1>0, <2>2, <2>5 DEF VolumesGiven
  <2>7. QED BY <2>2, <2>3, <2>4, <2>6
<1>11. QED BY <1>1, <1>2, <1>3, <1>4, <1>5, <1>6, <1>7, <1>8, <1>9, <1>10 DEF Goroutine

\* The order of insertion through the steps of the other threads.
LEMMA OrderStep ==
  ASSUME PodInv, GoTypes, WaitInv, OrderInv, NoTimer, ProvisionNext
  PROVE  OrderInv'
<1>1. RunInv /\ Subscriptions /\ Given /\ Heard /\ VolumesGiven /\ misuse = None
  BY DEF OrderInv
<1>2. RunInv'
  BY <1>1, RunStep
<1> DEFINE Goal == Subscriptions' /\ Given' /\ Heard' /\ VolumesGiven' /\ misuse' = None
<1> SUFFICES Goal
  BY <1>2 DEF OrderInv
<1>3. CASE Quiet
  <2>1. UNCHANGED <<vol, subs, op, failed, subscribing, inVm, misuse>>
    BY <1>3, QuietLeaves DEF goVars
  <2>2. /\ epoch' = epoch \/ status = "stopped"
        /\ status' = "stopped" => status = "stopped"
    BY Zenon, <1>3 DEF Quiet, createSandbox, prepareResources, prepare, prepareFails, prepared, WaitReturns,
                VmExit, cleanup
  <2>3. Given'
    BY <1>1, <2>1, <2>2 DEF Given
  <2>4. QED BY <1>1, <2>1, <2>3 DEF Subscriptions, Heard, VolumesGiven
<1>4. CASE addResourcesToSandbox
  <2>1. CASE status # "alive"
    BY <1>1, <1>4, <2>1 DEF addResourcesToSandbox, Subscriptions, Given, Heard, VolumesGiven
  <2>2. CASE status = "alive"
    <3>1. /\ main = "add" /\ epoch \in Epochs
          /\ UNCHANGED <<vol, subs, failed, subscribing, inVm, misuse, epoch, status>>
          /\ op' = [g \in Ops |-> IF g[1] = epoch THEN "begin" ELSE op[g]]
      BY <1>4, <2>2 DEF addResourcesToSandbox, PodInv
    <3>2. /\ \A g \in Ops : op[g] \in {"none", "done"}
          /\ \A g \in Ops : g[1] = epoch => op[g] = "none"
      BY <1>1, <3>1 DEF RunInv
    <3>3. inVm = {}
      <4>1. \A x \in Resources : op[<<epoch, x>>] = "none"
        BY <3>1, <3>2, Pairs
      <4>2. QED BY Zenon, <1>1, <4>1 DEF Given
    <3>4. \A g \in Ops : op'[g] \in {"none", "begin", "done"} /\ (op'[g] = "begin" => op[g] = "none")
                         /\ (op'[g] = "none" => op[g] = "none")
      BY <3>1, <3>2
    <3>5. Given'
      BY <1>1, <3>1, <3>3, <3>4 DEF Given
    <3>6. Subscriptions' /\ Heard'
      BY <1>1, <3>1, <3>4, Pairs DEF Subscriptions, Heard
    <3>7. QED BY <1>1, <3>1, <3>5, <3>6 DEF VolumesGiven
  <2>3. QED BY <2>1, <2>2
<1>5. CASE WaitResult
  BY <1>1, <1>5 DEF WaitResult, podVars, Subscriptions, Given, Heard, VolumesGiven
<1>6. CASE decommissionResources
  <2>1. /\ inVm' = {} /\ UNCHANGED <<op, subs, failed, subscribing, misuse, epoch>>
        /\ \A v \in Volumes : vol'[v] # "INSERTED"
    BY <1>6 DEF decommissionResources
  <2>2. \A g \in Ops : op[g] \in {"none", "done"}
    BY <1>1, <1>6 DEF decommissionResources, RunInv, PodInv
  <2>3. QED BY <1>1, <2>1, <2>2, Pairs DEF Subscriptions, Given, Heard, VolumesGiven
<1>7. ASSUME NEW g \in Ops, Goroutine(g) PROVE Goal
  BY <1>7, GoroutineOrder
<1>8. QED BY <1>3, <1>4, <1>5, <1>6, <1>7 DEF ProvisionNext, Main, Quiet

\* The faults of a behaviour are those of its first state.
LEMMA FaultsStay ==
  ASSUME ProvisionNext
  PROVE  UNCHANGED faults
<1>1. CASE Quiet
  BY <1>1, QuietLeaves
<1>2. ASSUME NEW g \in Ops, Goroutine(g) PROVE UNCHANGED faults
  BY <1>2, GoroutineLeavesPod
<1>3. QED BY <1>1, <1>2 DEF ProvisionNext, Main, Quiet, addResourcesToSandbox, WaitResult,
                            decommissionResources

\* The inductive invariant: the order of insertion rests on the types, the counters and the pod.
ProvisionInv == PodInv /\ GoTypes /\ WaitInv /\ (NoTimer => OrderInv)

\* It holds in every state.
LEMMA ProvisionInvariance == ProvisionSpec => []ProvisionInv
<1>1. ProvisionInit => ProvisionInv
  BY PodInit, GoInit, OrderInit DEF ProvisionInv
<1>2. ProvisionInv /\ ProvisionNext => ProvisionInv'
  BY PodStep, TypesStep, WaitStep, OrderStep, FaultsStay DEF ProvisionInv, NoTimer
<1>3. ProvisionInv /\ UNCHANGED provisionVars => ProvisionInv'
  <2> SUFFICES ASSUME ProvisionInv, UNCHANGED provisionVars PROVE ProvisionInv'
    OBVIOUS
  <2>1. PodInv' /\ GoTypes'
    BY DEF ProvisionInv, provisionVars, PodInv, GoTypes
  <2>2. WaitInv'
    BY WaitersSame DEF ProvisionInv, provisionVars
  <2>3. (NoTimer => OrderInv)'
    BY DEF ProvisionInv, provisionVars, NoTimer, OrderInv, RunInv, Subscriptions, Given, Heard, VolumesGiven
  <2>4. QED BY <2>1, <2>2, <2>3 DEF ProvisionInv
<1>4. QED BY <1>1, <1>2, <1>3, PTL DEF ProvisionSpec

\* The sandbox gets each resource once and a container after its volumes, the counters of the
\* WaitGroups are those of the subscriptions, and no goroutine meets a nil sandbox, as long as
\* no FutureSet is left by its timer (addResourcesToSandbox, volume.go, container.go).
THEOREM InsertionIsOrdered == ProvisionSpec => []InsertedInOrder
<1>1. ProvisionInv => InsertedInOrder
  <2> SUFFICES ASSUME ProvisionInv PROVE InsertedInOrder
    OBVIOUS
  <2>1. WaitersAreCounted
    BY DEF ProvisionInv, WaitInv, WaitersAreCounted, Holders
  <2>2. wg \in [CtrOps -> 0..Cardinality(Volumes)]
    <3>1. Cardinality(Volumes) \in Nat
      BY ProvisionAssumption, FS_CardinalityType
    <3>2. \A g \in CtrOps : wg[g] \in 0..Cardinality(Volumes)
      BY <3>1, HoldersFinite DEF ProvisionInv, WaitInv
    <3>3. QED BY <3>2 DEF ProvisionInv, WaitInv
  <2>3. ASSUME NEW e \in Epochs PROVE waitList[e] \subseteq Resources /\ Len(resultChan[e]) <= 1
    <3>1. resultChan[e] = <<>> \/ \E r \in Reports : resultChan[e] = <<r>>
      BY DEF ProvisionInv, GoTypes
    <3>2. Len(<<>>) = 0 /\ \A r \in Reports : Len(<<r>>) = 1
      OBVIOUS
    <3>3. Len(resultChan[e]) <= 1
      <4>1. CASE resultChan[e] = <<>>
        BY <3>2, <4>1, 0 <= 1, Zenon
      <4>2. ASSUME NEW r \in Reports, resultChan[e] = <<r>> PROVE Len(resultChan[e]) <= 1
        BY <3>2, <4>2, 1 <= 1, Zenon
      <4>3. QED BY <3>1, <4>1, <4>2
    <3>4. QED BY <3>3 DEF ProvisionInv, GoTypes
  <2>4. sandbox \in Epochs \cup {None}
    BY DEF ProvisionInv, PodInv
  <2>5. ProvisionTypeOK
    BY <2>2, <2>3, <2>4 DEF ProvisionTypeOK, ProvisionInv, PodInv, GoTypes
  <2>6. VolumesFirst
    BY DEF VolumesFirst, ProvisionInv, NoTimer, OrderInv, VolumesGiven
  <2>7. QED BY <2>1, <2>5, <2>6 DEF InsertedInOrder
<1>2. QED BY <1>1, ProvisionInvariance, PTL
=============================================================================
