----------------------------- MODULE Provision -----------------------------
(***************************************************************************)
(* The resources of one pod and how they reach its sandbox: addresses are  *)
(* allocated for the interfaces, then a goroutine per volume, per          *)
(* container and for the interfaces inserts them, in parallel, and a       *)
(* FutureSet gathers the results (daemon/pod/provision.go, volume.go,      *)
(* networks.go, utils/sync.go).  A container waits for its volumes with a  *)
(* WaitGroupWithFail.  When the sandbox exits everything is released, and  *)
(* the pod may be started again in a new sandbox.                          *)
(***************************************************************************)
EXTENDS Integers, Sequences, FiniteSets

CONSTANTS
  Volumes, Containers, Nics,
  VolsOf,       \* the volumes of each container
  FaultSets,    \* sets of operations that fail, or time out, in a behaviour
  MaxSandbox,   \* how many sandboxes the pod has in its life
  MaxSlow,      \* how many goroutines a FutureSet is left with when its timer fires
  None

VARIABLES
  faults,     \* what may fail in this behaviour
  status,     \* "stopped", "alive" (STARTING or RUNNING) or "stopping"
  sandbox,    \* p.sandbox: the number of the sandbox, or None
  epoch,      \* how many sandboxes there have been
  vm,         \* whether the last of them runs
  lock,       \* who has the resourceLock: None, "main" or "cleanup"
  main,       \* the thread of Start or CreateXPod
  vol,        \* the status of each volume
  subs,       \* insertSubscribers of each volume
  op,         \* the goroutines: what each does next
  wg, failed, \* of each container's goroutine: the WaitGroupWithFail
  subscribing,       \* of each container's goroutine: the volumes it has yet to subscribe to
  waitList, resultChan,   \* of each FutureSet
  descript,   \* of each interface: the address that it has, or had
  alloc,      \* the addresses that are allocated
  inVm,       \* what the sandbox was given
  misuse      \* what went wrong in a use of the sandbox: it was "nil", or given something "twice"

provisionVars == <<faults, status, sandbox, epoch, vm, lock, main, vol, subs, op, wg, failed,
                   subscribing, waitList, resultChan, descript, alloc, inVm, misuse>>
podVars == <<status, sandbox, epoch, vm, lock, main>>
addrVars == <<descript, alloc>>

\* Volumes, containers and "nics" are different resources, the volumes of a container are
\* volumes of the pod, and None is no sandbox and no owner of the lock.
ASSUME ProvisionAssumption ==
  /\ MaxSandbox \in Nat
  /\ None \notin 1..MaxSandbox
  /\ None \notin {"main", "cleanup", "nil", "twice"}
  /\ IsFiniteSet(Volumes)
  /\ Volumes \cap Containers = {}
  /\ "nics" \notin Volumes \cup Containers
  /\ VolsOf \in [Containers -> SUBSET Volumes]

\* A goroutine is known by the sandbox that it was started for and its resource; "nics" is
\* the one that adds the interfaces.
Epochs == 1..MaxSandbox
Resources == Volumes \cup Containers \cup {"nics"}
Ops == Epochs \X Resources
CtrOps == Epochs \X Containers

\* Types; the resourceLock is held exactly while resources are prepared or added (and their
\* results waited for), and by cleanup.
ProvisionTypeOK ==
  /\ status \in {"stopped", "alive", "stopping"}
  /\ sandbox \in Epochs \cup {None}
  /\ main \in {"idle", "new", "prepare", "undo", "add", "wait"}
  /\ vol \in [Volumes -> {"CREATED", "INSERTING", "INSERTED", "ERROR"}]
  /\ subs \in [Volumes -> SUBSET CtrOps]
  /\ DOMAIN op = Ops
  /\ wg \in [CtrOps -> 0..Cardinality(Volumes)]
  /\ \A e \in Epochs : waitList[e] \subseteq Resources /\ Len(resultChan[e]) <= 1
  /\ lock = "main" <=> main \in {"prepare", "undo", "wait"}
  /\ lock = "cleanup" <=> status = "stopping"

ProvisionInit ==
  /\ faults \in FaultSets
  /\ status = "stopped" /\ sandbox = None /\ epoch = 0 /\ vm = FALSE
  /\ lock = None /\ main = "idle"
  /\ vol = [v \in Volumes |-> "CREATED"]
  /\ subs = [v \in Volumes |-> {}]
  /\ op = [g \in Ops |-> "none"]
  /\ wg = [g \in CtrOps |-> 0]
  /\ failed = {}
  /\ subscribing = [g \in CtrOps |-> VolsOf[g[2]]]
  /\ waitList = [e \in Epochs |-> {}]
  /\ resultChan = [e \in Epochs |-> <<>>]
  /\ descript = [n \in Nics |-> 0]
  /\ alloc = {}
  /\ inVm = {}
  /\ misuse = None

-----------------------------------------------------------------------------
(* The thread that starts the pod. *)

\* createSandbox: the pod has a new sandbox, which waitVMStop watches.
createSandbox ==
  /\ main = "idle" /\ status = "stopped" /\ epoch < MaxSandbox
  /\ epoch' = epoch + 1 /\ sandbox' = epoch + 1
  /\ status' = "alive" /\ vm' = TRUE
  /\ main' = "new"
  /\ UNCHANGED <<faults, lock, vol, subs, op, wg, failed, subscribing, waitList, resultChan, addrVars, inVm, misuse>>

\* prepareResources, under the resourceLock.
prepareResources ==
  /\ main = "new" /\ lock = None
  /\ IF status = "alive" THEN lock' = "main" /\ main' = "prepare" ELSE main' = "idle" /\ UNCHANGED lock
  /\ UNCHANGED <<faults, status, sandbox, epoch, vm, vol, subs, op, wg, failed, subscribing, waitList,
                 resultChan, addrVars, inVm, misuse>>

\* Interface.prepare of one interface; it has an address of its own from then on.
prepare(n) ==
  /\ main = "prepare" /\ descript[n] # epoch
  /\ \/ /\ descript' = [descript EXCEPT ![n] = epoch]
        /\ alloc' = alloc \cup {<<n, epoch>>}
        /\ UNCHANGED main
     \/ "alloc" \in faults /\ main' = "undo" /\ UNCHANGED addrVars
  /\ UNCHANGED <<faults, status, sandbox, epoch, vm, lock, vol, subs, op, wg, failed, subscribing, waitList,
                 resultChan, inVm, misuse>>

\* Interface.cleanup: the address of the description is released; the description stays.
Released(ns) == alloc \ {<<n, descript[n]>> : n \in ns}

\* An error in prepareResources: every interface is cleaned up, prepared by now or not.
prepareFails ==
  /\ main = "undo"
  /\ alloc' = Released(Nics)
  /\ lock' = None /\ main' = "idle"
  /\ UNCHANGED <<faults, status, sandbox, epoch, vm, vol, subs, op, wg, failed, subscribing, waitList,
                 resultChan, descript, inVm, misuse>>

\* The port mappings are set up, which may fail, and prepareResources gives the resourceLock
\* back.
prepared ==
  /\ main = "prepare" /\ \A n \in Nics : descript[n] = epoch
  /\ \/ main' = "add" /\ lock' = None
     \/ "alloc" \in faults /\ main' = "undo" /\ UNCHANGED lock
  /\ UNCHANGED <<faults, status, sandbox, epoch, vm, vol, subs, op, wg, failed, subscribing, waitList,
                 resultChan, addrVars, inVm, misuse>>

\* addResourcesToSandbox: a goroutine for each resource, and a FutureSet.
addResourcesToSandbox ==
  /\ main = "add" /\ lock = None
  /\ IF status = "alive"
     THEN /\ lock' = "main" /\ main' = "wait"
          /\ op' = [g \in Ops |-> IF g[1] = epoch THEN "begin" ELSE op[g]]
          /\ waitList' = [waitList EXCEPT ![epoch] = Resources]
     ELSE main' = "idle" /\ UNCHANGED <<lock, op, waitList>>
  /\ UNCHANGED <<faults, status, sandbox, epoch, vm, vol, subs, wg, failed, subscribing, resultChan,
                 addrVars, inVm, misuse>>

\* FutureSet.Wait takes a result, ...
WaitResult ==
  /\ main = "wait" /\ resultChan[epoch] # <<>>
  /\ LET r == Head(resultChan[epoch])
     IN  /\ waitList' = [waitList EXCEPT ![epoch] = @ \ {r.id}]
         /\ resultChan' = [resultChan EXCEPT ![epoch] = Tail(@)]
  /\ UNCHANGED <<faults, podVars, vol, subs, op, wg, failed, subscribing, addrVars, inVm, misuse>>

\* ... and returns when it has all of them, or when the time is over, with those left that wait
\* for a volume or for the sandbox to answer: they go on without the resourceLock.
Slow(g) == op[g] = "wait" \/ op[g] = "insert"
WaitReturns ==
  /\ main = "wait"
  /\ \/ waitList[epoch] = {}
     \/ /\ "timeout" \in faults /\ Cardinality(waitList[epoch]) <= MaxSlow
        /\ \A r \in waitList[epoch] : Slow(<<epoch, r>>)
  /\ main' = "idle" /\ lock' = None
  /\ UNCHANGED <<faults, status, sandbox, epoch, vm, vol, subs, op, wg, failed, subscribing, waitList,
                 resultChan, addrVars, inVm, misuse>>

-----------------------------------------------------------------------------
(* The goroutines. *)

At(g, step) == op[g] = step /\ misuse # "nil"
Go(g, step) == op' = [op EXCEPT ![g] = step]
Fault(f) == f \in faults

\* The result of an operation goes into resultChan, which has room for one.
SendResult(g) ==
  /\ op[g] \in {"ok", "error"} /\ misuse # "nil"
  /\ resultChan[g[1]] = <<>>
  /\ resultChan' = [resultChan EXCEPT ![g[1]] = <<[id |-> g[2], ok |-> op[g] = "ok"]>>]
  /\ Go(g, "done")
  /\ failed' = failed \ {g}
  /\ subscribing' = [h \in CtrOps |-> IF h = g THEN {} ELSE subscribing[h]]
  /\ UNCHANGED <<faults, podVars, vol, subs, wg, waitList, addrVars, inVm, misuse>>

\* A call of p.sandbox: a nil sandbox is a panic, and one that has exited fails every call.
Call(g, f, done, ok) ==
  \/ /\ sandbox = None /\ misuse' = "nil" /\ UNCHANGED <<op, inVm>>
  \/ /\ sandbox # None /\ vm
     /\ inVm' = inVm \cup {g[2]}
     /\ misuse' = IF g[2] \in inVm THEN "twice" ELSE misuse
     /\ Go(g, ok)
  \/ /\ sandbox # None /\ (Fault(f) \/ ~vm)
     /\ Go(g, done)
     /\ UNCHANGED <<inVm, misuse>>

\* The goroutine of the interfaces: Interface.add of each, and AddRoute.
addInterface(g) ==
  /\ g[2] = "nics" /\ At(g, "begin")
  /\ Call(g, "nic", "error", "ok")
  /\ UNCHANGED <<faults, podVars, vol, subs, wg, failed, subscribing, waitList, resultChan, addrVars>>

\* transit: only a volume that is CREATED is inserted; then mount.
add(g) ==
  /\ g[2] \in Volumes /\ At(g, "begin")
  /\ LET v == g[2]
     IN  \/ /\ vol[v] = "CREATED"
            /\ vol' = [vol EXCEPT ![v] = "INSERTING"]
            /\ Go(g, "insert") \/ (Fault("mount") /\ Go(g, "insertFail"))
         \/ vol[v] = "ERROR" /\ Go(g, "error") /\ UNCHANGED vol
         \/ vol[v] \in {"INSERTING", "INSERTED"} /\ Go(g, "ok") /\ UNCHANGED vol
  /\ UNCHANGED <<faults, podVars, subs, wg, failed, subscribing, waitList, resultChan, addrVars, inVm, misuse>>

\* The subscribers of a volume hear of it once, and are forgotten.
Notify(v, fail) ==
  /\ wg' = [h \in CtrOps |-> IF h \in subs[v] THEN wg[h] - 1 ELSE wg[h]]
  /\ failed' = IF fail THEN failed \cup subs[v] ELSE failed
  /\ subs' = [subs EXCEPT ![v] = {}]

insert(g) ==
  /\ At(g, "insert")
  /\ Call(g, "insert", "umount", "inserted")
  /\ UNCHANGED <<faults, podVars, vol, subs, wg, failed, subscribing, waitList, resultChan, addrVars>>

\* A volume that could not be inserted is unmounted, which makes it CREATED, before its
\* subscribers are told; one that could not be mounted, or unmounted, becomes ERROR.
umount(g) ==
  /\ At(g, "umount")
  /\ \E st \in {"CREATED"} \cup (IF Fault("umount") THEN {"ERROR"} ELSE {}) :
       vol' = [vol EXCEPT ![g[2]] = st]
  /\ Go(g, "insertFail")
  /\ UNCHANGED <<faults, podVars, subs, wg, failed, subscribing, waitList, resultChan, addrVars, inVm, misuse>>

setInsertFail(g) ==
  /\ At(g, "insertFail")
  /\ vol' = IF vol[g[2]] = "INSERTING" THEN [vol EXCEPT ![g[2]] = "ERROR"] ELSE vol
  /\ Notify(g[2], TRUE)
  /\ Go(g, "error")
  /\ UNCHANGED <<faults, podVars, subscribing, waitList, resultChan, addrVars, inVm, misuse>>

setInserted(g) ==
  /\ At(g, "inserted")
  /\ vol' = IF vol[g[2]] = "INSERTING" THEN [vol EXCEPT ![g[2]] = "INSERTED"] ELSE vol
  /\ Notify(g[2], FALSE)
  /\ Go(g, "ok")
  /\ UNCHANGED <<faults, podVars, subscribing, waitList, resultChan, addrVars, inVm, misuse>>

\* Mutant: the status of the volume is not looked at.
BugSubscribeInsert(g, v) ==
  /\ g[2] \in Containers /\ At(g, "begin") /\ v \in subscribing[g]
  /\ subscribing' = [subscribing EXCEPT ![g] = @ \ {v}]
  /\ wg' = [wg EXCEPT ![g] = @ + 1] /\ subs' = [subs EXCEPT ![v] = @ \cup {g}]
  /\ UNCHANGED <<faults, podVars, vol, op, failed, waitList, resultChan, addrVars, inVm, misuse>>

\* addToSandbox: the container subscribes to its volumes, one after the other; one that is
\* INSERTED needs no wait, one in ERROR ends the attempt.
subscribeInsert(g, v) ==
  /\ g[2] \in Containers /\ At(g, "begin") /\ v \in subscribing[g]
  /\ subscribing' = [subscribing EXCEPT ![g] = @ \ {v}]
  /\ Go(g, IF vol[v] = "ERROR" THEN "error" ELSE "begin")
  /\ IF vol[v] \in {"INSERTED", "ERROR"} THEN UNCHANGED <<wg, subs>>
     ELSE wg' = [wg EXCEPT ![g] = @ + 1] /\ subs' = [subs EXCEPT ![v] = @ \cup {g}]
  /\ UNCHANGED <<faults, podVars, vol, failed, waitList, resultChan, addrVars, inVm, misuse>>

\* The root file system is prepared; then the container waits for its volumes.
PrepareContainer(g) ==
  /\ g[2] \in Containers /\ At(g, "begin") /\ subscribing[g] = {}
  /\ Go(g, "wait") \/ (Fault("rootfs") /\ Go(g, "error"))
  /\ UNCHANGED <<faults, podVars, vol, subs, wg, failed, subscribing, waitList, resultChan, addrVars, inVm, misuse>>

\* Mutant: the failure of a volume is not looked at after the wait.
BugAddContainer(g) ==
  /\ At(g, "wait") /\ wg[g] = 0
  /\ Call(g, "container", "error", "ok")
  /\ UNCHANGED <<faults, podVars, vol, subs, wg, failed, subscribing, waitList, resultChan, addrVars>>

AddContainer(g) ==
  /\ At(g, "wait") /\ wg[g] = 0
  /\ IF g \in failed THEN Go(g, "error") /\ UNCHANGED <<inVm, misuse>>
     ELSE Call(g, "container", "error", "ok")
  /\ UNCHANGED <<faults, podVars, vol, subs, wg, failed, subscribing, waitList, resultChan, addrVars>>

-----------------------------------------------------------------------------
(* The end of the sandbox. *)

VmExit ==
  /\ vm /\ vm' = FALSE
  /\ UNCHANGED <<faults, status, sandbox, epoch, lock, main, vol, subs, op, wg, failed, subscribing,
                 waitList, resultChan, addrVars, inVm, misuse>>

\* cleanup, under the resourceLock; decommissionResources then unmounts the volumes, whoever
\* subscribed to them, releases the addresses and forgets the sandbox.
cleanup ==
  /\ ~vm /\ status = "alive" /\ lock = None
  /\ lock' = "cleanup" /\ status' = "stopping"
  /\ UNCHANGED <<faults, sandbox, epoch, vm, main, vol, subs, op, wg, failed, subscribing, waitList,
                 resultChan, addrVars, inVm, misuse>>

\* Mutant: a volume that cannot be unmounted ends the loop before the interfaces.
BugDecommissionResources ==
  /\ status = "stopping"
  /\ \E bad \in IF Fault("umount") THEN SUBSET Volumes ELSE {{}} :
       /\ vol' = [v \in Volumes |-> IF v \in bad THEN "ERROR" ELSE "CREATED"]
       /\ alloc' = IF bad = {} THEN Released(Nics) ELSE alloc
  /\ sandbox' = None /\ inVm' = {}
  /\ status' = "stopped" /\ lock' = None
  /\ UNCHANGED <<faults, epoch, vm, main, subs, op, wg, failed, subscribing, waitList, resultChan,
                 descript, misuse>>

decommissionResources ==
  /\ status = "stopping"
  /\ \E bad \in IF Fault("umount") THEN SUBSET Volumes ELSE {{}} :
       vol' = [v \in Volumes |-> IF v \in bad THEN "ERROR" ELSE "CREATED"]
  /\ alloc' = Released(Nics)
  /\ sandbox' = None /\ inVm' = {}
  /\ status' = "stopped" /\ lock' = None
  /\ UNCHANGED <<faults, epoch, vm, main, subs, op, wg, failed, subscribing, waitList, resultChan,
                 descript, misuse>>

Goroutine(g) ==
  \/ SendResult(g) \/ addInterface(g)
  \/ add(g) \/ insert(g) \/ umount(g) \/ setInsertFail(g) \/ setInserted(g)
  \/ \E v \in Volumes : subscribeInsert(g, v)
  \/ PrepareContainer(g) \/ AddContainer(g)

Main ==
  \/ prepareResources \/ (\E n \in Nics : prepare(n)) \/ prepareFails \/ prepared
  \/ addResourcesToSandbox \/ WaitResult \/ WaitReturns

ProvisionNext ==
  \/ createSandbox \/ Main \/ VmExit \/ cleanup \/ decommissionResources
  \/ \E g \in Ops : Goroutine(g)

\* The Go scheduler runs some goroutine that can run; the pod need not be started, and the
\* sandbox need not exit.
ProvisionSpec == ProvisionInit /\ [][ProvisionNext]_provisionVars
ProvisionFair == ProvisionSpec /\ WF_provisionVars(Main \/ cleanup \/ decommissionResources \/ \E g \in Ops : Goroutine(g))

-----------------------------------------------------------------------------
(* Properties. *)

\* A container's WaitGroup counts exactly the volumes that will still tell it of their
\* insertion: no insertion is waited for in vain, none is reported twice (a counter below zero
\* is a panic in Go).
WaitersAreCounted ==
  \A g \in CtrOps : wg[g] = Cardinality({v \in Volumes : g \in subs[v]})

\* As long as no FutureSet is left by its timer, a sandbox is given every resource at most
\* once and a container only after its volumes, and no goroutine finds the sandbox nil.
VolumesFirst ==
  "timeout" \notin faults =>
    /\ misuse = None
    /\ \A c \in Containers \cap inVm : VolsOf[c] \subseteq inVm

\* The sandbox is given its resources in order, nobody waits for an insertion that will not be
\* told, and the variables have their types (volume.go, container.go).
InsertedInOrder == ProvisionTypeOK /\ WaitersAreCounted /\ VolumesFirst

\* A pod that is stopped holds no address: prepareResources gives back what it took when it
\* fails, and cleanup the rest.
AddressesReturned == (status = "stopped" /\ main = "idle") => alloc = {}

\* While the sandbox runs, addResourcesToSandbox returns without the help of the timer, as
\* long as no volume is refused by the sandbox: a container that subscribes to a volume just
\* after that was told to nobody waits for it in vain.
AddingEnds ==
  faults \cap {"timeout", "insert"} = {} => (main = "wait" ~> (main = "idle" \/ ~vm))

=============================================================================
