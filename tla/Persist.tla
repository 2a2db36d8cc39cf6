------------------------------ MODULE Persist ------------------------------
(***************************************************************************)
(* The record of one pod in the daemon's leveldb (daemon/pod/persist.go,   *)
(* daemon/daemondb), written key by key while the pod changes, and read    *)
(* back by Restore when the daemon starts again.  The daemon may stop      *)
(* between any two writes; the sandbox of the pod lives on, and may exit   *)
(* while the daemon is down.  A database of an older daemon is migrated    *)
(* first (daemon/pod/migration.go).                                        *)
(***************************************************************************)
EXTENDS Integers, Sequences, FiniteSets

CONSTANTS
  Containers, Volumes,
  VolsOf,     \* the volumes of each container
  VMs,        \* ids of sandboxes
  Legacy,     \* the database may be one of an older daemon
  Faults,     \* operations outside of the database that may fail
  None

\* The keys of the pod: layout, spec, sandbox, meta, port mappings, interface, containers
\* and volumes; then the keys of an older daemon.
PL == <<"PL", None>>
PS == <<"PS", None>>
SB == <<"SB", None>>
PM == <<"PM", None>>
PP == <<"PP", None>>
IF_ == <<"IF", None>>
CX(c) == <<"CX", c>>
VX(v) == <<"VX", v>>
OldPod == <<"pod", None>>
OldP2C == <<"pod-container", None>>
OldP2V == <<"vm", None>>
OldVM == <<"vmdata", None>>
OldVol(v) == <<"vol", v>>   \* under the id of the old key
Vol(v) == <<"newvol", v>>   \* under the id in the spec
OldKeys == {OldPod, OldP2C, OldP2V, OldVM} \cup {OldVol(v) : v \in Volumes}
Keys == {PL, PS, SB, PM, PP, IF_} \cup {CX(c) : c \in Containers} \cup {VX(v) : v \in Volumes}
        \cup OldKeys \cup {Vol(v) : v \in Volumes}

VARIABLES
  db,       \* the content of leveldb
  vms,      \* sandboxes that run
  up,       \* the daemon: "new" (never restored), "migrating", "up", "down"
  mem,      \* the XPod that the registry lists, or None
  job,      \* the request under way: its name and the database operations it has left
  lock,     \* who has the resourceLock of the pod: None, "job" or "cleanup"
  watch,    \* of each sandbox: what its waitVMStop goroutine does
  ghosts,   \* what memory has and the database was never told of
  crashed   \* the request that was under way when the daemon stopped

vars == <<db, vms, up, mem, job, lock, watch, ghosts, crashed>>

NoJob == [op |-> None, ops |-> <<>>]
Idle == up = "up" /\ job = NoJob

\* Bound: no requests are made while an interrupted migration's old records are left over; they
\* are read by nothing else.
Ready == Idle /\ \A k \in OldKeys : db[k] = None

\* The requests that hold the resourceLock while they write.
Locking == {"addContainer", "removeContainer", "remove"}

\* Types; the resourceLock is held exactly during the requests that take it and by cleanup.
TypeOK ==
  /\ DOMAIN db = Keys
  /\ vms \in SUBSET VMs
  /\ up \in {"new", "migrating", "up", "down"}
  /\ mem # None => /\ mem.status \in {"running", "stopping", "stopped", "error", "none"}
                   /\ mem.inVm \subseteq mem.containers /\ mem.containers \subseteq Containers
                   /\ mem.inserted \subseteq mem.volumes /\ mem.volumes \subseteq Volumes
  /\ watch \in [VMs -> {"off", "watch", "locked"}]
  /\ ghosts \in SUBSET Keys
  /\ lock = "job" <=> job.op \in Locking
  /\ lock = "cleanup" <=> mem # None /\ \E m \in VMs : m = mem.vm /\ watch[m] = "locked"
  /\ up # "up" => mem = None /\ watch = [m \in VMs |-> "off"]

\* An empty database, or one that an older daemon left with a pod and perhaps its sandbox.
LegacyDb(cs, m) ==
  [k \in Keys |->
     CASE k \in {OldPod, OldP2C} -> cs
       [] k = OldP2V -> m
       [] k = OldVM /\ m # None -> m
       [] \E c \in cs, v \in Volumes : v \in VolsOf[c] /\ k = OldVol(v) -> "device"
       [] OTHER -> None]

Init ==
  /\ \/ db = [k \in Keys |-> None] /\ vms = {}
     \/ /\ Legacy
        /\ \E cs \in SUBSET Containers \ {{}}, m \in VMs \cup {None} :
             db = LegacyDb(cs, m) /\ vms = {m} \ {None}
  /\ up = "new"
  /\ mem = None
  /\ job = NoJob
  /\ lock = None
  /\ watch = [m \in VMs |-> "off"]
  /\ ghosts = {}
  /\ crashed = None

-----------------------------------------------------------------------------
(* The operations on the database, as the requests queue them. *)

\* An operation on each of a set of keys, in no order (Go's maps have none).
Each(do, ks, v) == IF ks = {} THEN <<>> ELSE <<[do |-> do, keys |-> ks, val |-> v]>>
Put(k, v) == Each("put", {k}, v)
Del(k) == Each("del", {k}, None)
CXs(cs) == {CX(c) : c \in cs}
VXs(vs) == {VX(v) : v \in vs}

saveSandbox == Each("sandbox", {SB}, None)
saveLayout(m) == Put(PL, [containers |-> m.containers, volumes |-> m.volumes])
saveContainers(cs) == Each("put", CXs(cs), "container")
saveVolumes(vs) == Each("put", VXs(vs), "volume")
savePodMeta(m) == Put(PM, m.meta)
savePortMapping(m) == Put(PP, m.ports)

\* Mutant: the layout is written before what it lists.
BugSavePod(m) ==
  Put(PS, "spec") \o saveSandbox \o saveLayout(m) \o savePodMeta(m) \o savePortMapping(m)
  \o saveContainers(m.containers) \o saveVolumes(m.volumes) \o Put(IF_, "nic")

savePod(m) ==
  Put(PS, "spec") \o saveSandbox \o savePodMeta(m) \o savePortMapping(m)
  \o saveContainers(m.containers) \o saveVolumes(m.volumes) \o Put(IF_, "nic") \o saveLayout(m)

removeFromDB(m) ==
  Del(PL) \o Del(IF_) \o Each("del", VXs(m.volumes), None) \o Each("del", CXs(m.containers), None)
  \o Del(PM) \o Del(PP) \o Del(SB) \o Del(PS)

\* What is left of the request when the key k is done with.
Do(what) == job.ops # <<>> /\ Head(job.ops).do = what
Rest(k) == LET o == Head(job.ops)
           IN  [job EXCEPT !.ops = Each(o.do, o.keys \ {k}, o.val) \o Tail(@)]

\* DaemonDB.Update: a value that is there is deleted first, in a write of its own.
Update ==
  /\ Do("put")
  /\ LET v == Head(job.ops).val
     IN  \E k \in Head(job.ops).keys :
           IF db[k] # None
           THEN /\ db' = [db EXCEPT ![k] = None]
                /\ job' = [job EXCEPT !.ops = Put(k, v) \o Rest(k).ops]
                /\ UNCHANGED ghosts
           ELSE /\ db' = [db EXCEPT ![k] = v]
                /\ job' = Rest(k)
                /\ ghosts' = ghosts \ {k}
  /\ UNCHANGED <<vms, up, mem, lock, watch, crashed>>

Delete ==
  /\ Do("del")
  /\ \E k \in Head(job.ops).keys : db' = [db EXCEPT ![k] = None] /\ job' = Rest(k)
  /\ UNCHANGED <<vms, up, mem, lock, watch, ghosts, crashed>>

\* saveSandbox writes nothing for a pod that stops or has stopped.  It keeps the statusLock
\* until the record is written (see Cleanup).
Saved(m) == [vm |-> m.vm, containers |-> m.inVm]
SaveSandbox ==
  /\ Do("sandbox")
  /\ job' = IF mem # None /\ mem.status = "running"
            THEN [job EXCEPT !.ops = Put(SB, Saved(mem)) \o Tail(@)] ELSE Rest(SB)
  /\ UNCHANGED <<db, vms, up, mem, lock, watch, ghosts, crashed>>

\* The dump of a sandbox that has exited may fail, and with it the request: CreateXPod gives
\* the pod up, RemoveContainer leaves it in status ERROR.
DumpFails ==
  /\ Do("sandbox")
  /\ mem # None /\ mem.status = "running" /\ mem.vm \notin vms
  /\ job' = [job EXCEPT !.ops = <<>>]
  /\ mem' = CASE job.op = "create" -> None
              [] job.op = "removeContainer" -> [mem EXCEPT !.status = "error"]
              [] OTHER -> mem
  /\ UNCHANGED <<db, vms, up, lock, watch, ghosts, crashed>>

\* The request returns, and gives the resourceLock back.
Return ==
  /\ up = "up" /\ job.op # None /\ job.ops = <<>>
  /\ job' = NoJob
  /\ lock' = IF lock = "job" THEN None ELSE lock
  /\ mem' = IF job.op = "remove" THEN None ELSE mem
  /\ ghosts' = IF job.op = "remove" THEN {} ELSE ghosts
  /\ UNCHANGED <<db, vms, up, watch, crashed>>

-----------------------------------------------------------------------------
(* The requests. *)

Running == Ready /\ mem # None /\ mem.status = "running"

Begin(op, ops) ==
  /\ op \in Locking => lock = None
  /\ job' = [op |-> op, ops |-> ops]
  /\ lock' = IF op \in Locking THEN "job" ELSE lock

\* A sandbox whose id is in no use.
FreshVm(m) == m \notin vms /\ watch[m] = "off" /\ (db[SB] # None => db[SB].vm # m)

\* CreateXPod, from its sandbox to savePod.  The id of the pod is new, or that of a pod whose
\* removal has ended, its sandbox included.
CreatePod(cs, m) ==
  /\ Ready /\ mem = None /\ FreshVm(m)
  /\ \A k \in Keys : db[k] # None => \E v \in Volumes : k = Vol(v)
  /\ \A w \in VMs : watch[w] = "off"
  /\ LET vs == UNION {VolsOf[c] : c \in cs}
         pod == [status |-> "running", vm |-> m, containers |-> cs, inVm |-> cs, volumes |-> vs,
                 inserted |-> vs, meta |-> 0, ports |-> 0]
     IN  mem' = pod /\ Begin("create", savePod(pod))
  /\ vms' = vms \cup {m}
  /\ watch' = [watch EXCEPT ![m] = "watch"]
  /\ UNCHANGED <<db, up, ghosts, crashed>>

\* doContainerCreate.  A volume that the pod lists already is not inserted again, even when it
\* was unplugged: the container then waits for it in vain.
AddContainer(c) ==
  /\ Running /\ mem.vm \in vms /\ c \notin mem.containers
  /\ LET new == VolsOf[c] \ mem.volumes
         pod == [mem EXCEPT !.containers = @ \cup {c}, !.inVm = @ \cup {c},
                            !.volumes = @ \cup new, !.inserted = @ \cup new]
     IN  /\ VolsOf[c] \subseteq pod.inserted
         /\ mem' = pod
         /\ Begin("addContainer", saveVolumes(new) \o saveContainers({c})
                                  \o saveLayout(pod) \o saveSandbox)
  /\ UNCHANGED <<db, vms, up, watch, ghosts, crashed>>

\* The container could not be added to the sandbox: it stays in p.containers all the same.
AddContainerFails(c) ==
  /\ Running /\ c \notin mem.containers
  /\ LET new == VolsOf[c] \ mem.volumes
     IN  /\ \/ "add" \in Faults \/ mem.vm \notin vms
            \/ ~(VolsOf[c] \subseteq mem.inserted \cup new)
         /\ lock = None
         /\ mem' = [mem EXCEPT !.containers = @ \cup {c}, !.volumes = @ \cup new]
         /\ ghosts' = ghosts \cup {CX(c)} \cup VXs(new)
  /\ UNCHANGED <<db, vms, up, job, lock, watch, crashed>>

\* RemoveContainer.  The volumes that it unplugs lose their record, and stay in p.volumes.
RemoveContainer(c) ==
  /\ Ready /\ mem # None /\ c \in mem.containers
  /\ mem.status = "running" => c \in mem.inVm /\ mem.vm \in vms
  /\ LET others == UNION {VolsOf[d] : d \in mem.inVm \ {c}}
         unplugged == IF mem.status = "running" THEN (VolsOf[c] \cap mem.inserted) \ others ELSE {}
         pod == [mem EXCEPT !.containers = @ \ {c}, !.inVm = @ \ {c}, !.inserted = @ \ unplugged]
     IN  /\ mem' = pod
         /\ ghosts' = (ghosts \ {CX(c)}) \cup VXs(unplugged)
         /\ Begin("removeContainer", Each("del", VXs(unplugged), None) \o Del(CX(c))
                                     \o saveLayout(pod) \o saveSandbox)
  /\ UNCHANGED <<db, vms, up, watch, crashed>>

\* A step of RemoveContainer in the sandbox or the engine fails.
RemoveContainerFails(c) ==
  /\ Running /\ c \in mem.containers
  /\ "remove" \in Faults \/ c \notin mem.inVm \/ mem.vm \notin vms
  /\ lock = None
  /\ mem' = [mem EXCEPT !.status = "error"]
  /\ UNCHANGED <<db, vms, up, job, lock, watch, ghosts, crashed>>

\* The pod's services or port mappings change, and are saved.
UpdateMeta(k) ==
  /\ Running /\ mem.vm \in vms
  /\ LET pod == IF k = PM THEN [mem EXCEPT !.meta = 1] ELSE [mem EXCEPT !.ports = 1]
     IN  /\ pod # mem
         /\ mem' = pod
         /\ Begin("update", IF k = PM THEN savePodMeta(pod) ELSE savePortMapping(pod))
  /\ UNCHANGED <<db, vms, up, watch, ghosts, crashed>>

\* SetPodLabels: nothing is saved.
SetPodLabels ==
  /\ Ready /\ mem # None /\ mem.meta = 0 /\ lock = None
  /\ mem' = [mem EXCEPT !.meta = 1]
  /\ ghosts' = ghosts \cup {PM}
  /\ UNCHANGED <<db, vms, up, job, lock, watch, crashed>>

\* ContainerStart saves the sandbox again.
ContainerStart ==
  /\ Running /\ mem.vm \in vms
  /\ Begin("start", saveSandbox)
  /\ UNCHANGED <<db, vms, up, mem, watch, ghosts, crashed>>

\* Start of a stopped pod; when a resource cannot be added the sandbox runs without a record.
Start(m) ==
  /\ Ready /\ mem # None /\ mem.status = "stopped" /\ FreshVm(m)
  /\ mem' = [mem EXCEPT !.status = "running", !.vm = m, !.inVm = mem.containers,
                        !.inserted = mem.volumes]
  /\ \/ Begin("start", saveSandbox) /\ UNCHANGED ghosts
     \/ "start" \in Faults /\ ghosts' = ghosts \cup {SB} /\ UNCHANGED <<job, lock>>
  /\ vms' = vms \cup {m}
  /\ watch' = [watch EXCEPT ![m] = "watch"]
  /\ UNCHANGED <<db, up, crashed>>

\* doStopPod, which asks the sandbox to exit.
Stop ==
  /\ Running
  /\ mem' = [mem EXCEPT !.status = "stopping"]
  /\ UNCHANGED <<db, vms, up, job, lock, watch, ghosts, crashed>>

\* Remove; of a running pod only after a stop, for which it does not wait for ever.
Remove ==
  /\ Ready /\ mem # None /\ mem.status # "running"
  /\ mem' = [mem EXCEPT !.status = "none"]
  /\ Begin("remove", removeFromDB(mem))
  /\ UNCHANGED <<db, vms, up, watch, ghosts, crashed>>

-----------------------------------------------------------------------------
(* The end of a sandbox, and of the daemon. *)

\* A sandbox exits: it was asked to, or it broke.
VmExit(m) ==
  /\ m \in vms
  /\ vms' = vms \ {m}
  /\ UNCHANGED <<db, up, mem, job, lock, watch, ghosts, crashed>>

SavingSandbox == Do("put") /\ Head(job.ops).keys = {SB}

\* Mutant: cleanup does not take the statusLock to change the status.
BugCleanup(m) ==
  /\ watch[m] = "watch" /\ m \notin vms
  /\ IF mem # None /\ mem.vm = m
     THEN /\ lock = None
          /\ lock' = "cleanup"
          /\ mem' = [mem EXCEPT !.status = "stopping", !.inVm = {}]
     ELSE UNCHANGED <<mem, lock>>
  /\ watch' = [watch EXCEPT ![m] = "locked"]
  /\ UNCHANGED <<db, vms, up, job, ghosts, crashed>>

\* cleanup takes the resourceLock and then the statusLock, releases the resources, ...
Cleanup(m) ==
  /\ watch[m] = "watch" /\ m \notin vms
  /\ IF mem # None /\ mem.vm = m
     THEN /\ lock = None /\ ~SavingSandbox
          /\ lock' = "cleanup"
          /\ mem' = [mem EXCEPT !.status = "stopping", !.inVm = {}]
     ELSE UNCHANGED <<mem, lock>>
  /\ watch' = [watch EXCEPT ![m] = "locked"]
  /\ UNCHANGED <<db, vms, up, job, ghosts, crashed>>

\* ... removes the record of the sandbox, and tags the pod as stopped.
CleanupDone(m) ==
  /\ watch[m] = "locked"
  /\ db' = [db EXCEPT ![SB] = None]
  /\ IF mem # None /\ mem.vm = m
     THEN /\ lock' = None
          /\ mem' = [mem EXCEPT !.status = "stopped", !.inserted = {}]
          /\ ghosts' = ghosts \ {SB}
     ELSE UNCHANGED <<mem, lock, ghosts>>
  /\ watch' = [watch EXCEPT ![m] = "off"]
  /\ UNCHANGED <<vms, up, job, crashed>>

Down ==
  /\ up' = IF job.op = "migrate" THEN "new" ELSE "down"
  /\ mem' = None
  /\ job' = NoJob
  /\ lock' = None
  /\ watch' = [w \in VMs |-> "off"]
  /\ crashed' = IF job.op = None THEN crashed ELSE job.op
  /\ UNCHANGED <<db, ghosts>>

\* The daemon stops between any two writes.
Crash ==
  /\ up \in {"migrating", "up"}
  /\ UNCHANGED vms
  /\ Down

\* SIGHUP: ReleaseAllVms dissociates the pod, under its resourceLock, and kills a sandbox
\* that cannot be released; then Shutdown closes the database.
ReleaseAllVms ==
  /\ up = "up" /\ mem # None /\ lock = None
  /\ \/ UNCHANGED vms
     \/ "release" \in Faults /\ vms' = vms \ {mem.vm}
  /\ Down

\* SIGINT or SIGTERM: DestroyAllVm stops the pod, unless it cannot be stopped, then Shutdown.
DestroyAllVm ==
  /\ Idle /\ mem # None
  /\ vms' = vms \ {mem.vm}
  /\ db' \in {db, [db EXCEPT ![SB] = None]}
  /\ up' = "down" /\ mem' = None /\ lock' = None
  /\ watch' = [w \in VMs |-> "off"]
  /\ UNCHANGED <<job, ghosts, crashed>>

-----------------------------------------------------------------------------
(* The start of the daemon. *)

\* Mutant: the list of containers goes before the pod that needs it.
BugPurge ==
  (IF db[OldP2V] = None THEN <<>> ELSE Del(OldP2V) \o Del(OldVM))
  \o Del(OldP2C) \o Del(OldPod) \o Each("del", {OldVol(v) : v \in Volumes}, None)

purgeLagecyPersistPod ==
  (IF db[OldP2V] = None THEN <<>> ELSE Del(OldP2V) \o Del(OldVM))
  \o Del(OldPod) \o Del(OldP2C) \o Each("del", {OldVol(v) : v \in Volumes}, None)

\* MigrateLagecyPersistentData: the volumes are copied, the pod is saved in the current layout
\* without its sandbox, then the sandbox, and at last the old records are purged.
Migration ==
  LET cs == db[OldP2C]
      vs == UNION {VolsOf[c] : c \in cs}
      pod == [status |-> "none", containers |-> cs, volumes |-> vs,
              meta |-> 0, ports |-> 0]
      sandbox == Put(SB, [vm |-> db[OldP2V], containers |-> cs])
  IN  Each("put", {Vol(v) : v \in {w \in vs : db[OldVol(w)] # None}}, "device") \o savePod(pod)
      \o (IF db[OldP2V] = None THEN <<>> ELSE sandbox)
      \o purgeLagecyPersistPod

\* The daemon does not start when the records of an old pod cannot be read.
Restart ==
  /\ up \in {"new", "down"}
  /\ db[OldPod] # None => db[OldP2C] # None /\ (db[OldP2V] # None => db[OldVM] # None)
  /\ up' = "migrating"
  /\ job' = IF db[OldPod] = None THEN NoJob ELSE [op |-> "migrate", ops |-> Migration]
  /\ UNCHANGED <<db, vms, mem, lock, watch, ghosts, crashed>>

\* What a layout lists, and what of it cannot be found.
Listed(d) ==
  IF d[PL] = None THEN {}
  ELSE {PS, PM, PP, IF_} \cup CXs(d[PL].containers) \cup VXs(d[PL].volumes)
Missing(d) == {k \in Listed(d) : d[k] = None}

\* Whether the sandbox of the pod is there, and knows the containers.
Reconnects(d) == d[SB] # None /\ d[SB].vm \in vms
Knows(d) == d[PL].containers \subseteq d[SB].containers

\* The pod that LoadXPod makes of a database.
Loaded(d) ==
  LET live == Reconnects(d)
  IN  [status |-> IF live THEN "running" ELSE "stopped", vm |-> IF live THEN d[SB].vm ELSE None,
       containers |-> d[PL].containers, inVm |-> IF live THEN d[PL].containers ELSE {},
       volumes |-> d[PL].volumes, inserted |-> IF live THEN d[PL].volumes ELSE {},
       meta |-> d[PM], ports |-> d[PP]]
Loads(d) == Missing(d) = {} /\ (Reconnects(d) => Knows(d))

\* Restore, with LoadXPod: the record of a sandbox that cannot be reached is removed, and the
\* pod is left out this time; once reconnected, a sandbox is watched whatever follows.
Restore ==
  /\ up = "migrating" /\ job.ops = <<>>
  /\ up' = "up"
  /\ job' = NoJob
  /\ LET found == db[PL] # None /\ Missing(db) \subseteq {PM, PP}
         lost == found /\ db[SB] # None /\ db[SB].vm \notin vms
         ok == found /\ ~lost /\ Loads(db)
     IN  /\ db' = [db EXCEPT ![SB] = IF lost THEN None ELSE @]
         /\ mem' = IF ok THEN Loaded(db) ELSE None
         /\ watch' = [w \in VMs |-> IF found /\ Reconnects(db) /\ w = db[SB].vm
                                    THEN "watch" ELSE "off"]
         /\ ghosts' = IF ok \/ db[PL] = None THEN {} ELSE ghosts
         /\ crashed' = IF ok \/ db[PL] = None THEN None ELSE crashed
  /\ UNCHANGED <<vms, lock>>

Next ==
  \/ Update \/ Delete \/ SaveSandbox \/ DumpFails \/ Return
  \/ \E cs \in SUBSET Containers, m \in VMs : CreatePod(cs, m)
  \/ \E c \in Containers : \/ AddContainer(c) \/ AddContainerFails(c)
                           \/ RemoveContainer(c) \/ RemoveContainerFails(c)
  \/ \E k \in {PM, PP} : UpdateMeta(k)
  \/ SetPodLabels \/ ContainerStart \/ Stop \/ Remove
  \/ \E m \in VMs : Start(m) \/ VmExit(m) \/ Cleanup(m) \/ CleanupDone(m)
  \/ Crash \/ ReleaseAllVms \/ DestroyAllVm \/ Restart \/ Restore

Spec == Init /\ [][Next]_vars

-----------------------------------------------------------------------------
(* Properties. *)

Current == IF job.op = None THEN crashed ELSE job.op

\* Wherever savePod or removeFromDB is interrupted, and whenever no request is under way, a
\* layout in the database lists records that are there and containers that the record of the
\* sandbox knows: what is half written or half removed is never loaded (persist.go writes the
\* layout last and removes it first).  What the database was never told of is left out.  The
\* resourceLock is held by those who take it.
HalfDoneIsInvisible ==
  /\ TypeOK
  /\ (db[PL] # None /\ Current \notin {"addContainer", "removeContainer", "update", "migrate"}) =>
       /\ Missing(db) \subseteq ghosts
       /\ Reconnects(db) =>
            \A c \in db[PL].containers \ db[SB].containers : CX(c) \in ghosts

\* When no request is under way the database says what memory says of the pod: LoadXPod would
\* restore the containers, volumes, meta data, port mappings and the sandbox that the pod has.
SavedImageIsCurrent ==
  LET differ(S, T) == (S \ T) \cup (T \ S)
  IN  (/\ Idle /\ mem # None /\ lock = None
       /\ mem.status = "running" => mem.vm \in vms
       /\ mem.status \in {"running", "stopped"}) =>
        /\ db[PL] # None
        /\ \A c \in differ(db[PL].containers, mem.containers) : CX(c) \in ghosts
        /\ \A v \in differ(db[PL].volumes, mem.volumes) : VX(v) \in ghosts
        /\ db[PM] # mem.meta => PM \in ghosts
        /\ db[PP] = mem.ports
        /\ SB \notin ghosts =>
             IF mem.status = "stopped" THEN db[SB] = None
             ELSE db[SB] # None /\ db[SB].vm = mem.vm /\ mem.inVm \subseteq db[SB].containers

\* However often the migration of an old database is interrupted, the daemon can start again,
\* and the pod, its sandbox and the devices of its volumes are in the old records or in new
\* ones (purgeLagecyPersistPod runs after everything is saved, and removes the pod before
\* the list of its containers).
MigrationLosesNothing ==
  (Legacy /\ (job.op = "migrate" \/ (up = "new" /\ crashed = "migrate"))) =>
    /\ db[OldPod] # None => db[OldP2C] # None /\ (db[OldP2V] # None => db[OldVM] # None)
    /\ db[OldPod] = None => db[PL] # None /\ Missing(db) = {}
    /\ \A m \in vms : db[OldP2V] # m => db[SB] # None /\ db[SB].vm = m
    /\ \A v \in IF db[PL] = None THEN UNION {VolsOf[c] : c \in db[OldPod]} ELSE db[PL].volumes :
         db[OldVol(v)] # None \/ db[Vol(v)] # None
=============================================================================
