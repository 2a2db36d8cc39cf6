-------------------------------- MODULE XPod --------------------------------
(***************************************************************************)
(* The life of one pod (daemon/pod): the handlers that create, start,      *)
(* stop, pause, kill and remove it, run by concurrent API clients, and the *)
(* goroutine waitVMStop that watches the sandbox of the pod and cleans up  *)
(* when the virtual machine is gone.                                       *)
(*                                                                         *)
(* A step is the code between two points where another goroutine can be    *)
(* seen: a blocking call, an acquisition of resourceLock, or an access to  *)
(* the fields that createSandbox and waitVMStop touch without a lock.      *)
(* Sections under statusLock never block and are part of one step.         *)
(* Containers, volumes and interfaces appear only as the host resources    *)
(* the pod holds; the virtual machine (runV) is external.                  *)
(***************************************************************************)
EXTENDS Naturals, FiniteSets

CONSTANTS
  Clients,     \* goroutines that serve API requests
  Sandboxes,   \* virtual machines that can be launched: bounds the restarts
  MayCall,     \* MayCall[t]: the requests that client t issues
  Faults,      \* the failures the environment produces
  Nobody,      \* the holder of a free lock
  NoSandbox    \* the nil *hypervisor.Vm

FaultKinds == {"launch", "init", "provision", "stop", "crash", "timeout", "rm"}
Requests == {"create", "start", "stop", "remove", "kill", "pause", "unpause", "rmc"}

ASSUME XPodAssumption ==
  /\ Clients \cap Sandboxes = {}
  /\ Nobody \notin Clients \cup Sandboxes
  /\ NoSandbox \notin Sandboxes
  /\ MayCall \in [Clients -> SUBSET Requests]
  /\ Faults \subseteq FaultKinds

VARIABLES
  registered,    \* the pod is in the PodList
  status,        \* p.status
  sandbox,       \* p.sandbox
  stoppedChan,   \* p.stoppedChan: empty, or the sandbox whose cleanup filled it
  resourceLock,  \* the goroutine that holds p.resourceLock
  resources,     \* IPs, port mappings and mounts are held on the host
  vm,            \* state of each virtual machine
  paused,        \* the virtual machines that are paused
  pending,       \* operations on a sandbox that a goroutine has still to carry out
  monitor,       \* progress of the waitVMStop goroutine started with a sandbox
  watched,       \* the sandbox whose exit that goroutine waits for
  pc,            \* progress of the request of each client
  op,            \* the request of each client
  mine           \* the sandbox in a local variable of the request

podVars == <<status, sandbox, stoppedChan, resourceLock, resources>>
vmVars  == <<vm, paused, pending>>
monVars == <<monitor, watched>>
cliVars == <<pc, op, mine>>
vars    == <<registered, podVars, vmVars, monVars, cliVars>>

PodState == {"NONE", "STARTING", "RUNNING", "PAUSED", "STOPPED", "STOPPING", "ERROR"}
VmState  == {"none", "running", "terminating", "exited"}
MonState == {"none", "spawned", "checked", "waiting", "cleanup", "cleaning", "done"}
Label    == {"idle", "reserve", "launch", "publish", "init", "initOk", "initErr",
             "initResources", "prepare", "add", "adding", "save", "killCreated",
             "releaseNames", "isStopped", "waitRun", "blocked", "doStop",
             "stopContainers", "shutdown", "shutWait", "waitStop", "forceQuit",
             "release", "remove", "removing", "pause", "issue", "answer",
             "rollback", "rmc"}
Op       == Requests \cup {"none", "removeStop"}

\* The sandbox operations handed to a goroutine; by is the client that waits
\* for the result of a pause or unpause.
SandboxOp(k, s, t) == [kind |-> k, sb |-> s, by |-> t]
OpType == [kind : {"shutdown", "kill", "pause", "unpause"},
             sb : Sandboxes, by : Clients \cup {Nobody}]

\* The types of the variables (the declarations of XPod and of its locals).
TypeOK ==
  /\ registered \in BOOLEAN
  /\ status \in PodState
  /\ sandbox \in Sandboxes \cup {NoSandbox}
  /\ stoppedChan \in Sandboxes \cup {NoSandbox}
  /\ resourceLock \in Clients \cup Sandboxes \cup {Nobody}
  /\ resources \in BOOLEAN
  /\ vm \in [Sandboxes -> VmState]
  /\ paused \in SUBSET Sandboxes
  /\ pending \in SUBSET OpType
  /\ monitor \in [Sandboxes -> MonState]
  /\ watched \in [Sandboxes -> Sandboxes \cup {NoSandbox}]
  /\ pc \in [Clients -> Label]
  /\ op \in [Clients -> Op]
  /\ mine \in [Clients -> Sandboxes \cup {NoSandbox}]

IsAlive == status \in {"RUNNING", "STARTING"}
IsStopped == status = "STOPPED"
IsRunning == status = "RUNNING"

-----------------------------------------------------------------------------
(* The control flow of a request. *)

Goto(t, label) ==
  pc' = [pc EXCEPT ![t] = label] /\ UNCHANGED <<op, mine>>

Return(t) ==
  /\ pc' = [pc EXCEPT ![t] = "idle"]
  /\ op' = [op EXCEPT ![t] = "none"]
  /\ mine' = [mine EXCEPT ![t] = NoSandbox]

\* Client t issues request r; every handler but that of create finds the pod in
\* the PodList first.
Begin(t, r, label) ==
  /\ pc[t] = "idle"
  /\ r \in MayCall[t]
  /\ r # "create" => registered
  /\ pc' = [pc EXCEPT ![t] = label]
  /\ op' = [op EXCEPT ![t] = r]
  /\ UNCHANGED <<mine, registered, podVars, vmVars, monVars>>

\* The pod object exists from CreateXPod on, so the first request is create.
BeginCreate(t) ==
  /\ ~registered
  /\ \A s \in Sandboxes : vm[s] = "none"
  /\ \A u \in Clients : pc[u] = "idle"
  /\ Begin(t, "create", "reserve")
BeginStart(t)  == Begin(t, "start", "isStopped")
BeginStop(t)   == Begin(t, "stop", "doStop")
BeginRemove(t) == Begin(t, "remove", "release")
BeginKill(t)   == Begin(t, "kill", "forceQuit")
BeginPause(t)  == Begin(t, "pause", "pause") \/ Begin(t, "unpause", "pause")
BeginRemoveContainer(t) == Begin(t, "rmc", "rmc")

-----------------------------------------------------------------------------
(* CreateXPod and Start. *)

ReserveNames(t) ==
  /\ pc[t] = "reserve"
  /\ registered' = TRUE
  /\ Goto(t, "launch")
  /\ UNCHANGED <<podVars, vmVars, monVars>>

\* Start: only a stopped pod gets a new sandbox, any other waits to be running.
StartPod(t) ==
  /\ pc[t] = "isStopped"
  /\ Goto(t, IF IsStopped THEN "launch" ELSE "waitRun")
  /\ UNCHANGED <<registered, podVars, vmVars, monVars>>

\* startSandbox in createSandbox.
StartSandbox(t) ==
  /\ pc[t] = "launch"
  /\ \/ \E s \in Sandboxes :
          /\ vm[s] = "none"
          /\ vm' = [vm EXCEPT ![s] = "running"]
          /\ mine' = [mine EXCEPT ![t] = s]
          /\ pc' = [pc EXCEPT ![t] = "publish"]
          /\ UNCHANGED op
     \/ /\ "launch" \in Faults \/ \A s \in Sandboxes : vm[s] # "none"
        /\ IF op[t] = "create" THEN Goto(t, "releaseNames") ELSE Return(t)
        /\ UNCHANGED vm
  /\ UNCHANGED <<registered, podVars, paused, pending, monVars>>

\* p.sandbox, p.status and the monitor, without any lock.
PublishSandbox(t) ==
  /\ pc[t] = "publish"
  /\ sandbox' = mine[t]
  /\ status' = "STARTING"
  /\ monitor' = [monitor EXCEPT ![mine[t]] = "spawned"]
  /\ Goto(t, "init")
  /\ UNCHANGED <<registered, stoppedChan, resourceLock, resources, vmVars, watched>>

\* InitSandbox fails when the virtual machine dies under it.
InitSandbox(t) ==
  /\ pc[t] = "init"
  /\ \/ /\ vm[mine[t]] # "exited"
        /\ Goto(t, "initOk")
        /\ UNCHANGED pending
     \/ /\ "init" \in Faults \/ vm[mine[t]] # "running"
        /\ pending' = pending \cup {SandboxOp("shutdown", mine[t], Nobody)}
        /\ Goto(t, "initErr")
  /\ UNCHANGED <<registered, podVars, vm, paused, monVars>>

\* initCond.Broadcast: every blocked request looks at the status again.
Awake(u) == IF pc[u] = "blocked" THEN "waitRun" ELSE pc[u]

\* Mutant: a failed initialisation marks the pod as stopped at once.
BugInitMarksStopped(t) ==
  /\ pc[t] \in {"initOk", "initErr"}
  /\ LET ok   == pc[t] = "initOk"
         next == IF ok THEN IF op[t] = "create" THEN "initResources" ELSE "prepare"
                       ELSE IF op[t] = "create" THEN "releaseNames" ELSE "idle"
     IN /\ status' = IF ok THEN IF status = "STARTING" THEN "RUNNING" ELSE status
                           ELSE "STOPPED"
        /\ pc' = [u \in Clients |-> IF u = t THEN next ELSE Awake(u)]
        /\ op' = IF next = "idle" THEN [op EXCEPT ![t] = "none"] ELSE op
        /\ mine' = [mine EXCEPT ![t] = NoSandbox]
  /\ UNCHANGED <<registered, sandbox, stoppedChan, resourceLock, resources, vmVars, monVars>>

\* Mutant: no Broadcast.
BugNoBroadcast(t) ==
  /\ pc[t] \in {"initOk", "initErr"}
  /\ LET ok   == pc[t] = "initOk"
         next == IF ok THEN IF op[t] = "create" THEN "initResources" ELSE "prepare"
                       ELSE IF op[t] = "create" THEN "releaseNames" ELSE "idle"
     IN /\ status' = IF ok THEN IF status = "STARTING" THEN "RUNNING" ELSE status
                           ELSE "STOPPING"
        /\ pc' = [pc EXCEPT ![t] = next]
        /\ op' = IF next = "idle" THEN [op EXCEPT ![t] = "none"] ELSE op
        /\ mine' = [mine EXCEPT ![t] = NoSandbox]
  /\ UNCHANGED <<registered, sandbox, stoppedChan, resourceLock, resources, vmVars, monVars>>

SetPodInitStatus(t) ==
  /\ pc[t] \in {"initOk", "initErr"}
  /\ LET ok   == pc[t] = "initOk"
         next == IF ok THEN IF op[t] = "create" THEN "initResources" ELSE "prepare"
                       ELSE IF op[t] = "create" THEN "releaseNames" ELSE "idle"
     IN /\ status' = IF ok THEN IF status = "STARTING" THEN "RUNNING" ELSE status
                           ELSE "STOPPING"
        /\ pc' = IF ok /\ IsRunning
                 THEN [pc EXCEPT ![t] = next]
                 ELSE [u \in Clients |-> IF u = t THEN next ELSE Awake(u)]
        /\ op' = IF next = "idle" THEN [op EXCEPT ![t] = "none"] ELSE op
        /\ mine' = [mine EXCEPT ![t] = NoSandbox]
  /\ UNCHANGED <<registered, sandbox, stoppedChan, resourceLock, resources, vmVars, monVars>>

\* A request that fails while it provisions the pod: CreateXPod kills the
\* sandbox and releases the names, Start only returns the error.
ProvisionFailed(t) ==
  IF op[t] = "create" THEN Goto(t, "killCreated") ELSE Return(t)

InitResources(t) ==
  /\ pc[t] = "initResources"
  /\ \/ Goto(t, "prepare")
     \/ "provision" \in Faults /\ ProvisionFailed(t)
  /\ UNCHANGED <<registered, podVars, vmVars, monVars>>

\* Mutant: the pod is not checked to be alive.
BugPrepareResources(t) ==
  /\ pc[t] = "prepare"
  /\ resourceLock = Nobody
  /\ resources' = TRUE
  /\ Goto(t, "add")
  /\ UNCHANGED <<registered, status, sandbox, stoppedChan, resourceLock, vmVars, monVars>>

PrepareResources(t) ==
  /\ pc[t] = "prepare"
  /\ resourceLock = Nobody
  /\ \/ ~IsAlive /\ ProvisionFailed(t) /\ UNCHANGED resources
     \/ IsAlive /\ resources' = TRUE /\ Goto(t, "add")
     \/ IsAlive /\ "provision" \in Faults /\ resources' = FALSE /\ ProvisionFailed(t)
  /\ UNCHANGED <<registered, status, sandbox, stoppedChan, resourceLock, vmVars, monVars>>

AddResourcesToSandbox(t) ==
  /\ pc[t] = "add"
  /\ resourceLock = Nobody
  /\ IF IsAlive THEN resourceLock' = t /\ Goto(t, "adding")
                ELSE ProvisionFailed(t) /\ UNCHANGED resourceLock
  /\ UNCHANGED <<registered, status, sandbox, stoppedChan, resources, vmVars, monVars>>

\* The sandbox of the pod answers requests.
SandboxWorks == sandbox # NoSandbox /\ vm[sandbox] = "running" /\ sandbox \notin paused

\* future.Wait in addResourcesToSandbox.
ResourcesAdded(t) ==
  /\ pc[t] = "adding"
  /\ resourceLock' = Nobody
  /\ resources' = TRUE
  /\ \/ SandboxWorks /\ Goto(t, IF op[t] = "create" THEN "save" ELSE "waitRun")
     \/ ("provision" \in Faults \/ ~SandboxWorks) /\ ProvisionFailed(t)
  /\ UNCHANGED <<registered, status, sandbox, stoppedChan, vmVars, monVars>>

\* CreateXPod reserves the names again and saves the pod.
SavePod(t) ==
  /\ pc[t] = "save"
  /\ registered' = TRUE
  /\ \/ Return(t)
     \/ "provision" \in Faults /\ ProvisionFailed(t)
  /\ UNCHANGED <<podVars, vmVars, monVars>>

\* A kill of the sandbox the pod has now; it takes effect later.
KillSandbox ==
  pending' = IF sandbox = NoSandbox THEN pending
             ELSE pending \cup {SandboxOp("kill", sandbox, Nobody)}

\* The deferred functions of CreateXPod.
KillCreated(t) ==
  /\ pc[t] = "killCreated"
  /\ KillSandbox
  /\ Goto(t, "releaseNames")
  /\ UNCHANGED <<registered, podVars, vm, paused, monVars>>

ReleaseNames(t) ==
  /\ pc[t] = "releaseNames"
  /\ registered' = FALSE
  /\ Return(t)
  /\ UNCHANGED <<podVars, vmVars, monVars>>

\* waitPodRun; startAll and saveSandbox, which follow it, leave this state alone.
WaitPodRun(t) ==
  /\ pc[t] = "waitRun"
  /\ IF status = "STARTING" THEN Goto(t, "blocked") ELSE Return(t)
  /\ UNCHANGED <<registered, podVars, vmVars, monVars>>

-----------------------------------------------------------------------------
(* Stop, ForceQuit and Remove. *)

\* Where a request goes on once the pod is stopped (done), or was not.  The
\* results of the stops inside RemovePod and Remove are ignored.
AfterStop(t, done) ==
  CASE op[t] = "stop" /\ done   -> Return(t)
    [] op[t] = "stop" /\ ~done  -> Goto(t, "forceQuit")
    [] op[t] = "remove"         -> Goto(t, "remove")
    [] op[t] = "removeStop"     -> Goto(t, "removing")

\* doStopPod failed: Stop returns the error, Remove waits for stoppedChan anyway.
DoStopFailed(t) ==
  IF op[t] = "removeStop" THEN Goto(t, "waitStop") ELSE AfterStop(t, FALSE)

DoStopPod(t) ==
  /\ pc[t] = "doStop"
  /\ resourceLock = Nobody
  /\ \/ /\ status = "STOPPING"
        /\ Goto(t, "waitStop")
        /\ UNCHANGED <<status, resourceLock>>
     \/ /\ ~IsAlive /\ status # "STOPPING"
        /\ DoStopFailed(t)
        /\ UNCHANGED <<status, resourceLock>>
     \/ /\ IsAlive
        /\ status' = "STOPPING"
        /\ resourceLock' = t
        /\ Goto(t, "stopContainers")
  /\ UNCHANGED <<registered, sandbox, stoppedChan, resources, vmVars, monVars>>

\* stopAllContainers: when it fails the sandbox is killed instead of shut down.
\* It succeeds whatever the sandbox does when no container is left to stop.
StopAllContainers(t) ==
  /\ pc[t] = "stopContainers"
  /\ \/ Goto(t, "shutdown") /\ UNCHANGED <<resourceLock, pending>>
     \/ /\ "stop" \in Faults \/ ~SandboxWorks
        /\ KillSandbox
        /\ resourceLock' = Nobody
        /\ Goto(t, "waitStop")
  /\ UNCHANGED <<registered, status, sandbox, stoppedChan, resources, vm, paused, monVars>>

\* p.sandbox.Shutdown(): refused at once unless the virtual machine is running.
ShutdownSandbox(t) ==
  /\ pc[t] = "shutdown"
  /\ sandbox # NoSandbox
  /\ IF vm[sandbox] = "running"
     THEN /\ vm' = [vm EXCEPT ![sandbox] = "terminating"]
          /\ mine' = [mine EXCEPT ![t] = sandbox]
          /\ pc' = [pc EXCEPT ![t] = "shutWait"]
          /\ UNCHANGED <<op, resourceLock>>
     ELSE /\ resourceLock' = Nobody
          /\ DoStopFailed(t)
          /\ UNCHANGED vm
  /\ UNCHANGED <<registered, status, sandbox, stoppedChan, resources, paused, pending, monVars>>

\* Its answer comes with the exit of the virtual machine.
ShutdownReturns(t) ==
  /\ pc[t] = "shutWait"
  /\ vm[mine[t]] = "exited"
  /\ resourceLock' = Nobody
  /\ \/ Goto(t, "waitStop")
     \/ "stop" \in Faults /\ DoStopFailed(t)
  /\ UNCHANGED <<registered, status, sandbox, stoppedChan, resources, vmVars, monVars>>

\* waitStopDone: the value taken from the channel is put back.
WaitStopDone(t) ==
  /\ pc[t] = "waitStop"
  /\ \/ stoppedChan # NoSandbox /\ AfterStop(t, TRUE)
     \/ "timeout" \in Faults /\ AfterStop(t, FALSE)
  /\ UNCHANGED <<registered, podVars, vmVars, monVars>>

\* ForceQuit, after a failed stop and for a request to kill the pod.
ForceQuit(t) ==
  /\ pc[t] = "forceQuit"
  /\ KillSandbox
  /\ Return(t)
  /\ UNCHANGED <<registered, podVars, vm, paused, monVars>>

\* RemovePod: the pod leaves the PodList before it is stopped.
ReleasePod(t) ==
  /\ pc[t] = "release"
  /\ registered' = FALSE
  /\ Goto(t, IF IsAlive THEN "doStop" ELSE "remove")
  /\ UNCHANGED <<podVars, vmVars, monVars>>

\* Remove stops the pod once more if it is still running ...
RemoveStops(t) ==
  /\ pc[t] = "remove"
  /\ IF IsRunning
     THEN /\ pc' = [pc EXCEPT ![t] = "doStop"]
          /\ op' = [op EXCEPT ![t] = "removeStop"]
     ELSE /\ pc' = [pc EXCEPT ![t] = "removing"]
          /\ UNCHANGED op
  /\ UNCHANGED <<mine, registered, podVars, vmVars, monVars>>

\* ... and discards it.
RemovePod(t) ==
  /\ pc[t] = "removing"
  /\ resourceLock = Nobody
  /\ status' = "NONE"
  /\ Return(t)
  /\ UNCHANGED <<registered, sandbox, stoppedChan, resourceLock, resources, vmVars, monVars>>

\* RemoveContainer leaves the pod in ERROR when one of its steps fails; in a
\* running pod the sandbox takes part in them.
RemoveContainer(t) ==
  /\ pc[t] = "rmc"
  /\ resourceLock = Nobody
  /\ \/ ("rm" \in Faults \/ (IsRunning /\ ~SandboxWorks)) /\ status' = "ERROR"
     \/ UNCHANGED status
  /\ Return(t)
  /\ UNCHANGED <<registered, sandbox, stoppedChan, resourceLock, resources, vmVars, monVars>>

-----------------------------------------------------------------------------
(* Pause and UnPause. *)

\* The status that a pause (unpause) requires, and the one that it sets.
Before(t) == IF op[t] = "pause" THEN "RUNNING" ELSE "PAUSED"
After(t)  == IF op[t] = "pause" THEN "PAUSED" ELSE "RUNNING"

\* Mutant: a pod that is stopped, or was paused before, is paused too.
BugPausePod(t) ==
  /\ pc[t] = "pause"
  /\ status' = After(t)
  /\ Goto(t, "issue")
  /\ UNCHANGED <<registered, sandbox, stoppedChan, resourceLock, resources, vmVars, monVars>>

PausePod(t) ==
  /\ pc[t] = "pause"
  /\ IF status = Before(t)
     THEN status' = After(t) /\ Goto(t, "issue")
     ELSE Return(t) /\ UNCHANGED status
  /\ UNCHANGED <<registered, sandbox, stoppedChan, resourceLock, resources, vmVars, monVars>>

\* protectedSandboxOperation starts a goroutine with the current sandbox.
IssuePause(t) ==
  /\ pc[t] = "issue"
  /\ IF sandbox = NoSandbox
     THEN Return(t) /\ UNCHANGED pending
     ELSE pending' = pending \cup {SandboxOp(op[t], sandbox, t)} /\ Goto(t, "answer")
  /\ UNCHANGED <<registered, podVars, vm, paused, monVars>>

\* After five seconds nobody waits for the answer any more.
PauseTimeout(t) ==
  /\ pc[t] = "answer"
  /\ "timeout" \in Faults
  /\ pending' = {[o EXCEPT !.by = IF o.by = t THEN Nobody ELSE o.by] : o \in pending}
  /\ Goto(t, "rollback")
  /\ UNCHANGED <<registered, podVars, vm, paused, monVars>>

RollbackPause(t) ==
  /\ pc[t] = "rollback"
  /\ status' = IF status = After(t) THEN Before(t) ELSE status
  /\ Return(t)
  /\ UNCHANGED <<registered, sandbox, stoppedChan, resourceLock, resources, vmVars, monVars>>

-----------------------------------------------------------------------------
(* The virtual machines (runV), and the operations issued to them. *)

\* A goroutine carries out an operation on its sandbox.  The client that waits
\* for a pause gets its result.
PerformSandboxOp(o) ==
  LET s       == o.sb
      running == vm[s] = "running"
  IN /\ o \in pending
     /\ pending' = pending \ {o}
     /\ vm' = CASE o.kind = "kill"                 -> [vm EXCEPT ![s] = "exited"]
                [] o.kind = "shutdown" /\ running  -> [vm EXCEPT ![s] = "terminating"]
                [] OTHER                           -> vm
     /\ paused' = CASE o.kind = "pause" /\ running   -> paused \cup {s}
                    [] o.kind = "unpause" /\ running -> paused \ {s}
                    [] OTHER                         -> paused
     /\ IF o.by = Nobody THEN UNCHANGED cliVars
        ELSE IF running THEN Return(o.by) ELSE Goto(o.by, "rollback")
     /\ UNCHANGED <<registered, podVars, monVars>>

\* A virtual machine that was told to shut down exits (or is powered off).
VmExits(s) ==
  /\ vm[s] = "terminating"
  /\ vm' = [vm EXCEPT ![s] = "exited"]
  /\ UNCHANGED <<registered, podVars, paused, pending, monVars, cliVars>>

VmCrashes(s) ==
  /\ "crash" \in Faults
  /\ vm[s] = "running"
  /\ vm' = [vm EXCEPT ![s] = "exited"]
  /\ UNCHANGED <<registered, podVars, paused, pending, monVars, cliVars>>

-----------------------------------------------------------------------------
(* waitVMStop and cleanup: the goroutine started with sandbox m. *)

\* Mutant: the monitor also leaves a pod that is stopping.
BugMonitorStarts(m) ==
  /\ monitor[m] = "spawned"
  /\ monitor' = [monitor EXCEPT ![m] =
                   IF status \in {"STOPPED", "STOPPING"} THEN "done" ELSE "checked"]
  /\ UNCHANGED <<registered, podVars, vmVars, watched, cliVars>>

MonitorStarts(m) ==
  /\ monitor[m] = "spawned"
  /\ monitor' = [monitor EXCEPT ![m] = IF IsStopped THEN "done" ELSE "checked"]
  /\ UNCHANGED <<registered, podVars, vmVars, watched, cliVars>>

\* p.sandbox.WaitVm(-1): the sandbox is the one the pod has now.  A nil sandbox
\* is a panic, no step.
MonitorWatches(m) ==
  /\ monitor[m] = "checked"
  /\ sandbox # NoSandbox
  /\ watched' = [watched EXCEPT ![m] = sandbox]
  /\ monitor' = [monitor EXCEPT ![m] = "waiting"]
  /\ UNCHANGED <<registered, podVars, vmVars, cliVars>>

MonitorWakes(m) ==
  /\ monitor[m] = "waiting"
  /\ vm[watched[m]] = "exited"
  /\ monitor' = [monitor EXCEPT ![m] = "cleanup"]
  /\ UNCHANGED <<registered, podVars, vmVars, watched, cliVars>>

\* Mutant: cleanup does not wait for resourceLock.
BugCleanupNoLock(m) ==
  /\ monitor[m] = "cleanup"
  /\ ~IsStopped
  /\ monitor' = [monitor EXCEPT ![m] = "cleaning"]
  /\ status' = IF status = "NONE" THEN "NONE" ELSE "STOPPING"
  /\ UNCHANGED <<registered, sandbox, stoppedChan, resourceLock, resources, vmVars, watched, cliVars>>

\* Mutant: cleanup announces its end before it has begun.
BugCleanupEarlyMessage(m) ==
  /\ monitor[m] = "cleanup"
  /\ resourceLock = Nobody
  /\ ~IsStopped
  /\ monitor' = [monitor EXCEPT ![m] = "cleaning"]
  /\ status' = IF status = "NONE" THEN "NONE" ELSE "STOPPING"
  /\ resourceLock' = m
  /\ stoppedChan' = m
  /\ UNCHANGED <<registered, sandbox, resources, vmVars, watched, cliVars>>

CleanupBegins(m) ==
  /\ monitor[m] = "cleanup"
  /\ resourceLock = Nobody
  /\ IF IsStopped
     THEN /\ monitor' = [monitor EXCEPT ![m] = "done"]
          /\ UNCHANGED <<status, resourceLock>>
     ELSE /\ monitor' = [monitor EXCEPT ![m] = "cleaning"]
          /\ status' = IF status = "NONE" THEN "NONE" ELSE "STOPPING"
          /\ resourceLock' = m
  /\ UNCHANGED <<registered, sandbox, stoppedChan, resources, vmVars, watched, cliVars>>

\* Mutant: the pod is not tagged as stopped.
BugCleanupEnds(m) ==
  /\ monitor[m] = "cleaning"
  /\ monitor' = [monitor EXCEPT ![m] = "done"]
  /\ resources' = FALSE
  /\ sandbox' = NoSandbox
  /\ stoppedChan' = IF stoppedChan = NoSandbox THEN m ELSE stoppedChan
  /\ resourceLock' = Nobody
  /\ UNCHANGED <<registered, status, vmVars, watched, cliVars>>

\* decommissionResources, removeSandboxFromDB, and the message to waitStopDone,
\* all under resourceLock.
CleanupEnds(m) ==
  /\ monitor[m] = "cleaning"
  /\ monitor' = [monitor EXCEPT ![m] = "done"]
  /\ resources' = FALSE
  /\ sandbox' = NoSandbox
  /\ status' = IF status = "NONE" THEN "NONE" ELSE "STOPPED"
  /\ stoppedChan' = IF stoppedChan = NoSandbox THEN m ELSE stoppedChan
  /\ resourceLock' = Nobody
  /\ UNCHANGED <<registered, vmVars, watched, cliVars>>

-----------------------------------------------------------------------------
AtRest ==
  /\ resourceLock = Nobody
  /\ stoppedChan = NoSandbox
  /\ paused = {}
  /\ pending = {}
  /\ watched = [m \in Sandboxes |-> NoSandbox]
  /\ pc = [t \in Clients |-> "idle"]
  /\ op = [t \in Clients |-> "none"]
  /\ mine = [t \in Clients |-> NoSandbox]

\* newXPod: a pod that is about to be created.
InitNew ==
  /\ registered = FALSE /\ status = "NONE" /\ sandbox = NoSandbox /\ resources = FALSE
  /\ vm = [s \in Sandboxes |-> "none"]
  /\ monitor = [s \in Sandboxes |-> "none"]

\* reconnectSandbox: a pod that was loaded without a sandbox, or with one.
InitStopped ==
  /\ registered = TRUE /\ status = "STOPPED" /\ sandbox = NoSandbox /\ resources = FALSE
  /\ vm = [s \in Sandboxes |-> "none"]
  /\ monitor = [s \in Sandboxes |-> "none"]

InitReconnected ==
  /\ registered = TRUE /\ status = "RUNNING" /\ resources = TRUE
  /\ sandbox \in Sandboxes
  /\ vm = [s \in Sandboxes |-> IF s = sandbox THEN "running" ELSE "none"]
  /\ monitor = [s \in Sandboxes |-> IF s = sandbox THEN "spawned" ELSE "none"]

Init == AtRest /\ (InitNew \/ InitStopped \/ InitReconnected)

Request(t) ==
  \/ BeginCreate(t) \/ BeginStart(t) \/ BeginStop(t) \/ BeginRemove(t)
  \/ BeginKill(t) \/ BeginPause(t) \/ BeginRemoveContainer(t)

\* The steps of a request that wait for resourceLock, and the others.
LockStep(t) ==
  \/ PrepareResources(t) \/ AddResourcesToSandbox(t) \/ DoStopPod(t)
  \/ RemovePod(t) \/ RemoveContainer(t)

PlainStep(t) ==
  \/ ReserveNames(t) \/ StartPod(t) \/ StartSandbox(t) \/ PublishSandbox(t)
  \/ InitSandbox(t) \/ SetPodInitStatus(t) \/ InitResources(t)
  \/ ResourcesAdded(t) \/ SavePod(t) \/ KillCreated(t) \/ ReleaseNames(t)
  \/ WaitPodRun(t) \/ StopAllContainers(t) \/ ShutdownSandbox(t)
  \/ ShutdownReturns(t) \/ WaitStopDone(t) \/ ForceQuit(t) \/ ReleasePod(t)
  \/ RemoveStops(t) \/ PausePod(t) \/ IssuePause(t) \/ PauseTimeout(t)
  \/ RollbackPause(t)

MonitorStep(m) ==
  MonitorStarts(m) \/ MonitorWatches(m) \/ MonitorWakes(m) \/ CleanupEnds(m)

SandboxOpStep(s) == \E o \in pending : o.sb = s /\ PerformSandboxOp(o)

Next ==
  \/ \E t \in Clients : Request(t) \/ LockStep(t) \/ PlainStep(t)
  \/ \E s \in Sandboxes : SandboxOpStep(s) \/ VmExits(s) \/ VmCrashes(s)
  \/ \E m \in Sandboxes : MonitorStep(m) \/ CleanupBegins(m)

Spec == Init /\ [][Next]_vars

\* A goroutine that can run eventually runs, one that keeps asking for a mutex
\* gets it in the end, and a virtual machine that shuts down exits.
Fairness ==
  /\ \A t \in Clients : WF_vars(PlainStep(t)) /\ SF_vars(LockStep(t))
  /\ \A s \in Sandboxes : WF_vars(VmExits(s)) /\ WF_vars(SandboxOpStep(s))
  /\ \A m \in Sandboxes : WF_vars(MonitorStep(m)) /\ SF_vars(CleanupBegins(m))

FairSpec == Spec /\ Fairness

-----------------------------------------------------------------------------
(* Properties. *)

\* The monitor of m may still clean up.
Active(m) == monitor[m] \notin {"none", "done"}
Live(s) == vm[s] \in {"running", "terminating"}
Published(s) == monitor[s] # "none"

\* Nothing is left to do but to serve new requests.
Quiescent ==
  /\ \A t \in Clients : pc[t] = "idle"
  /\ pending = {}
  /\ \A s \in Sandboxes : vm[s] # "terminating"
  /\ \A m \in Sandboxes : Active(m) => monitor[m] = "waiting" /\ vm[watched[m]] # "exited"

\* waitVMStop, doStopPod and addResourcesToSandbox never use a nil p.sandbox,
\* although cleanup sets it to nil without statusLock.
NoNilSandbox ==
  /\ \A m \in Sandboxes : monitor[m] = "checked" => sandbox # NoSandbox
  /\ \A t \in Clients : pc[t] \in {"adding", "stopContainers", "shutdown"} => sandbox # NoSandbox

\* A virtual machine of the pod that is not yet gone is watched by a
\* waitVMStop goroutine, which cleans up after it.
LiveVmIsWatched ==
  \A s \in Sandboxes : Live(s) /\ Published(s) =>
    \E m \in Sandboxes : \/ monitor[m] \in {"spawned", "checked"} /\ sandbox = s
                         \/ monitor[m] = "waiting" /\ watched[m] = s

\* S_POD_STOPPED: "vm stopped, no vm associated" (pod.go:37).
StoppedMeansNoVm ==
  status = "STOPPED" => \A s \in Sandboxes : Published(s) => ~Live(s)

\* Host resources (IPs, port mappings, mounts) are held only while some
\* goroutine will run decommissionResources.
HeldResourcesHaveCleaner ==
  resources => \E m \in Sandboxes : Active(m)

\* The transient states STARTING and STOPPING are left: the pod does not rest
\* in a status in which it can be neither started nor stopped.
StatusSettles ==
  Quiescent => status \notin {"STARTING", "STOPPING"}

\* A pod that is in no PodList, so that no request can reach it, has no virtual
\* machine that keeps running (RemovePod, the deferred functions of CreateXPod).
NoOrphanVm ==
  Quiescent /\ ~registered => \A s \in Sandboxes : vm[s] # "running"

\* When no pause or unpause is under way, the status RUNNING or PAUSED tells
\* whether the virtual machine executes (the roll back in Pause and UnPause).
PauseAgrees ==
  /\ Quiescent
  /\ status \in {"RUNNING", "PAUSED"}
  => (status = "PAUSED" <=> sandbox \in paused)

\* When a request to stop the pod returns, the pod is stopped and cleaned up
\* (TestStartAndStopPod, integration/hyper_test.go:386).
StopPodStops ==
  [][\A t \in Clients :
       pc[t] = "waitStop" /\ op[t] = "stop" /\ pc'[t] = "idle" => status = "STOPPED"]_vars

\* The same in the first life of the pod, before a message of an earlier one can
\* be in stoppedChan (waitStopDone).
FirstStopStep ==
  \A t \in Clients :
    /\ pc[t] = "waitStop" /\ op[t] = "stop" /\ pc'[t] = "idle"
    /\ \A s1, s2 \in Sandboxes : Published(s1) /\ Published(s2) => s1 = s2
    => status = "STOPPED"

\* "if get into cleanup() after remove, cleanup should exit"
\* (decommission.go:545): a removed pod is not decommissioned.
CleanupExitsAfterRemove ==
  status = "NONE" => \A m \in Sandboxes : monitor[m] # "cleaning"

\* Every request returns; in particular waitPodRun is always woken up.
RequestsReturn ==
  \A t \in Clients : pc[t] # "idle" ~> pc[t] = "idle"

\* The resources of a pod whose virtual machine is gone are released.
ExitIsCleanedUp ==
  \A s \in Sandboxes : vm[s] = "exited" /\ sandbox = s ~> sandbox # s
=============================================================================
