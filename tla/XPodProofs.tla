----------------------------- MODULE XPodProofs -----------------------------
(***************************************************************************)
(* The safety properties of XPod hold for any number of clients, sandboxes *)
(* and requests, provided that a single client starts the pod.             *)
(***************************************************************************)
EXTENDS XPod, TLAPS

IsStarter(t) == MayCall[t] \cap {"create", "start"} # {}

\* At most one client issues requests that create or start the pod.
SingleStarter == \A t, u \in Clients : IsStarter(t) /\ IsStarter(u) => t = u

-----------------------------------------------------------------------------
(* The inductive invariant. *)

StopLabels == {"release", "remove", "doStop", "stopContainers", "shutdown",
               "shutWait", "waitStop"}
LockLabels == {"adding", "stopContainers", "shutdown", "shutWait"}

\* What the label of a request says about its local state.
Locals ==
  \A t \in Clients :
    /\ pc[t] \in StopLabels => op[t] \in {"stop", "remove", "removeStop"}
    /\ pc[t] \in {"pause", "issue"} => op[t] \in {"pause", "unpause"}
    /\ pc[t] \in {"publish", "init"} => mine[t] \in Sandboxes
    /\ pc[t] \in {"reserve", "isStopped", "launch", "publish"} => IsStarter(t)

\* resourceLock is held by the request, or the cleanup, inside its section.
LockHeld ==
  /\ \A t \in Clients : pc[t] \in LockLabels => resourceLock = t
  /\ \A m \in Sandboxes : monitor[m] = "cleaning" => resourceLock = m

\* The pod has a sandbox exactly as long as the monitor of that sandbox is
\* active, and the monitor waits for no other sandbox.
OneMonitor ==
  /\ \A m \in Sandboxes : Active(m) <=> sandbox = m
  /\ \A m \in Sandboxes :
       monitor[m] \in {"waiting", "cleanup", "cleaning"} => watched[m] = m

\* What the progress of a monitor says about its virtual machine.
MonitorVm ==
  \A m \in Sandboxes :
    /\ monitor[m] # "none" => vm[m] # "none"
    /\ monitor[m] \in {"cleanup", "cleaning", "done"} => vm[m] = "exited"

\* When the pod has a sandbox.
SandboxStatus ==
  /\ status \in {"STARTING", "RUNNING", "PAUSED"} => sandbox # NoSandbox
  /\ status = "STOPPED" => sandbox = NoSandbox
  /\ resources => sandbox # NoSandbox

\* A client that is about to publish a new sandbox replaces none.
Starting ==
  \A t \in Clients :
    /\ pc[t] \in {"reserve", "launch", "publish"} => sandbox = NoSandbox
    /\ pc[t] = "publish" => monitor[mine[t]] = "none" /\ vm[mine[t]] # "none"
    /\ pc[t] \in {"adding", "stopContainers", "shutdown"} => sandbox # NoSandbox

IInv == /\ TypeOK /\ Locals /\ LockHeld /\ OneMonitor /\ MonitorVm
        /\ SandboxStatus /\ Starting
-----------------------------------------------------------------------------
(* Proofs.  The definitions below only name tuples of variables and sets of  *)
(* values; they are expanded everywhere.                                     *)

USE XPodAssumption DEF podVars, vmVars, monVars, cliVars, PodState, VmState,
    MonState, Label, Op, OpType, Requests, StopLabels, LockLabels, Active

\* The initial states satisfy the invariant: a new, a stopped or a reconnected
\* pod (newXPod, reconnectSandbox).
LEMMA InitInv == Init => IInv
<1> SUFFICES ASSUME Init PROVE IInv
  OBVIOUS
<1> USE DEF IInv, AtRest, TypeOK, Locals, LockHeld, OneMonitor, MonitorVm, SandboxStatus, Starting
<1>1. CASE AtRest /\ InitNew
  <2>1. registered \in BOOLEAN /\ resources \in BOOLEAN /\ ~resources
    BY Zenon, <1>1 DEF InitNew
  <2>2. QED BY <1>1, <2>1 DEF InitNew
<1>2. CASE AtRest /\ InitStopped
  <2>1. registered \in BOOLEAN /\ resources \in BOOLEAN /\ ~resources
    BY Zenon, <1>2 DEF InitStopped
  <2>2. QED BY <1>2, <2>1 DEF InitStopped
<1>3. CASE AtRest /\ InitReconnected
  <2>1. registered \in BOOLEAN /\ resources \in BOOLEAN
    BY <1>3 DEF InitReconnected
  <2>2. QED BY <1>3, <2>1 DEF InitReconnected
<1>4. QED BY <1>1, <1>2, <1>3 DEF Init

\* A client that issues a request keeps the invariant.
LEMMA RequestInv ==
  ASSUME IInv, SingleStarter, NEW t \in Clients, Request(t)
  PROVE  IInv'
<1> USE DEF IInv, TypeOK, Locals, LockHeld, OneMonitor, MonitorVm, SandboxStatus, Starting
<1>1. CASE BeginCreate(t)
  BY <1>1 DEF BeginCreate, Begin, IsStarter
<1>2. CASE BeginStart(t)
  BY <1>2 DEF BeginStart, Begin, IsStarter
<1>3. CASE BeginStop(t)
  BY <1>3 DEF BeginStop, Begin
<1>4. CASE BeginRemove(t)
  BY <1>4 DEF BeginRemove, Begin
<1>5. CASE BeginKill(t)
  BY <1>5 DEF BeginKill, Begin
<1>6. CASE BeginPause(t)
  BY <1>6 DEF BeginPause, Begin
<1>7. CASE BeginRemoveContainer(t)
  BY <1>7 DEF BeginRemoveContainer, Begin
<1>8. QED BY Zenon, <1>1, <1>2, <1>3, <1>4, <1>5, <1>6, <1>7 DEF Request

\* So do the sections that begin with the acquisition of resourceLock.
LEMMA LockStepInv ==
  ASSUME IInv, SingleStarter, NEW t \in Clients, LockStep(t)
  PROVE  IInv'
<1> USE DEF IInv, TypeOK, Locals, LockHeld, OneMonitor, MonitorVm, SandboxStatus, Starting
<1>1. CASE PrepareResources(t)
  <2>1. \E l \in {"add", "killCreated"} : Goto(t, l) \/ Return(t)
    BY <1>1 DEF PrepareResources, ProvisionFailed
  <2>2. UNCHANGED <<registered, status, sandbox, stoppedChan, resourceLock, vmVars, monVars>>
    BY <1>1 DEF PrepareResources
  <2>3. CASE ~IsAlive /\ UNCHANGED resources
    BY <2>3, <2>1, <2>2 DEF Goto, Return
  <2>4. CASE IsAlive /\ resources' = TRUE
    BY <2>4, <2>1, <2>2 DEF IsAlive, Goto, Return
  <2>5. CASE IsAlive /\ resources' = FALSE
    <3>1. resources' \in BOOLEAN
      BY Zenon, <2>5
    <3>2. QED BY <3>1, <2>5, <2>1, <2>2 DEF IsAlive, Goto, Return
  <2>6. QED BY Zenon, <1>1, <2>3, <2>4, <2>5 DEF PrepareResources
<1>2. CASE AddResourcesToSandbox(t)
  BY <1>2 DEF AddResourcesToSandbox, IsAlive, ProvisionFailed, Goto, Return
<1>3. CASE DoStopPod(t)
  <2>1. op[t] \in {"stop", "remove", "removeStop"}
    BY <1>3 DEF DoStopPod
  <2>2. CASE status = "STOPPING"
    BY <1>3, <2>2 DEF DoStopPod, IsAlive, Goto
  <2>3. CASE ~IsAlive /\ status # "STOPPING"
    <3>1. Return(t) \/ \E l \in {"forceQuit", "remove", "waitStop", "removing"} : Goto(t, l) /\ (l = "remove" => op[t] = "remove")
      BY Zenon, <1>3, <2>1, <2>3 DEF DoStopPod, DoStopFailed, AfterStop
    <3>2. UNCHANGED <<registered, podVars, vmVars, monVars>>
      BY <1>3, <2>3 DEF DoStopPod
    <3>3. QED BY <2>1, <3>1, <3>2 DEF Goto, Return
  <2>4. CASE IsAlive
    BY <1>3, <2>1, <2>4 DEF DoStopPod, IsAlive, Goto
  <2>5. QED BY <2>2, <2>3, <2>4
<1>4. CASE RemovePod(t)
  BY <1>4 DEF RemovePod, Return
<1>5. CASE RemoveContainer(t)
  BY <1>5 DEF RemoveContainer, Return
<1>6. QED BY <1>1, <1>2, <1>3, <1>4, <1>5 DEF LockStep

\* So do the other steps of a request.
LEMMA PlainStepInv ==
  ASSUME IInv, SingleStarter, NEW t \in Clients, PlainStep(t)
  PROVE  IInv'
<1> USE DEF IInv, TypeOK, Locals, LockHeld, OneMonitor, MonitorVm, SandboxStatus, Starting
<1>1. CASE ReserveNames(t)
  BY <1>1 DEF ReserveNames, Goto
<1>2. CASE StartPod(t)
  BY <1>2 DEF StartPod, IsStopped, Goto
<1>3. CASE StartSandbox(t)
  BY <1>3 DEF StartSandbox, Goto, Return
<1>4. CASE PublishSandbox(t)
  BY <1>4 DEF PublishSandbox, Goto, IsStarter, SingleStarter
<1>5. CASE InitSandbox(t)
  BY <1>5 DEF InitSandbox, Goto, SandboxOp
<1>6. CASE SetPodInitStatus(t)
  BY <1>6 DEF SetPodInitStatus, Awake, IsRunning
<1>7. CASE InitResources(t)
  BY <1>7 DEF InitResources, ProvisionFailed, Goto, Return
<1>8. CASE ResourcesAdded(t)
  BY <1>8 DEF ResourcesAdded, ProvisionFailed, Goto, Return
<1>9. CASE SavePod(t)
  BY <1>9 DEF SavePod, ProvisionFailed, Goto, Return
<1>10. CASE KillCreated(t)
  BY <1>10 DEF KillCreated, KillSandbox, SandboxOp, Goto
<1>11. CASE ReleaseNames(t)
  <2>1. registered' \in BOOLEAN
    BY Zenon, <1>11 DEF ReleaseNames
  <2>2. QED BY <1>11, <2>1 DEF ReleaseNames, Return
<1>12. CASE WaitPodRun(t)
  BY <1>12 DEF WaitPodRun, Goto, Return
<1>13. CASE StopAllContainers(t)
  BY <1>13 DEF StopAllContainers, KillSandbox, SandboxOp, Goto
<1>14. CASE ShutdownSandbox(t)
  <2>1. op[t] \in {"stop", "remove", "removeStop"}
    BY <1>14 DEF ShutdownSandbox
  <2>2. DoStopFailed(t) => Return(t) \/ \E l \in {"forceQuit", "remove", "waitStop", "removing"} : Goto(t, l)
    BY Zenon, <2>1 DEF DoStopFailed, AfterStop
  <2>3. QED BY <1>14, <2>1, <2>2 DEF ShutdownSandbox, Goto, Return
<1>15. CASE ShutdownReturns(t)
  <2>1. op[t] \in {"stop", "remove", "removeStop"}
    BY <1>15 DEF ShutdownReturns
  <2>2. DoStopFailed(t) => Return(t) \/ \E l \in {"forceQuit", "remove", "waitStop", "removing"} : Goto(t, l)
    BY Zenon, <2>1 DEF DoStopFailed, AfterStop
  <2>3. QED BY <1>15, <2>1, <2>2 DEF ShutdownReturns, Goto, Return
<1>16. CASE WaitStopDone(t)
  <2>1. op[t] \in {"stop", "remove", "removeStop"}
    BY <1>16 DEF WaitStopDone
  <2>2. \/ Return(t)
         \/ \E l \in {"forceQuit", "remove", "removing"} : Goto(t, l)
    BY Zenon, <1>16, <2>1 DEF WaitStopDone, AfterStop
  <2>3. QED BY <1>16, <2>2 DEF WaitStopDone, Goto, Return
<1>17. CASE ForceQuit(t)
  BY <1>17 DEF ForceQuit, KillSandbox, SandboxOp, Return
<1>18. CASE ReleasePod(t)
  <2>1. registered' \in BOOLEAN
    BY Zenon, <1>18 DEF ReleasePod
  <2>2. QED BY <1>18, <2>1 DEF ReleasePod, Goto
<1>19. CASE RemoveStops(t)
  BY <1>19 DEF RemoveStops
<1>20. CASE PausePod(t)
  BY <1>20 DEF PausePod, Before, After, Goto, Return
<1>21. CASE IssuePause(t)
  BY <1>21 DEF IssuePause, SandboxOp, Goto, Return
<1>22. CASE PauseTimeout(t)
  BY <1>22 DEF PauseTimeout, Goto
<1>23. CASE RollbackPause(t)
  BY <1>23 DEF RollbackPause, Before, After, Return
<1>24. QED BY Zenon, <1>1, <1>2, <1>3, <1>4, <1>5, <1>6, <1>7, <1>8, <1>9, <1>10, <1>11, <1>12, <1>13, <1>14, <1>15, <1>16, <1>17, <1>18, <1>19, <1>20, <1>21, <1>22, <1>23 DEF PlainStep

\* So do the steps of a monitor: in particular it never finds the pod STOPPED,
\* and the sandbox that its cleanup discards is its own.
LEMMA MonitorStepInv ==
  ASSUME IInv, SingleStarter, NEW m \in Sandboxes, MonitorStep(m)
  PROVE  IInv'
<1> USE DEF IInv, TypeOK, Locals, LockHeld, OneMonitor, MonitorVm, SandboxStatus, Starting
<1>1. CASE MonitorStarts(m)
  BY <1>1 DEF MonitorStarts, IsStopped
<1>2. CASE MonitorWatches(m)
  BY <1>2 DEF MonitorWatches
<1>3. CASE MonitorWakes(m)
  BY <1>3 DEF MonitorWakes
<1>4. CASE CleanupEnds(m)
  <2>1. resources' \in BOOLEAN /\ ~resources'
    BY Zenon, <1>4 DEF CleanupEnds
  <2>2. QED BY <1>4, <2>1 DEF CleanupEnds
<1>5. QED BY Zenon, <1>1, <1>2, <1>3, <1>4 DEF MonitorStep

\* So does a monitor that enters cleanup once it has resourceLock.
LEMMA CleanupBeginsInv ==
  ASSUME IInv, NEW m \in Sandboxes, CleanupBegins(m)
  PROVE  IInv'
BY DEF IInv, TypeOK, Locals, LockHeld, OneMonitor, MonitorVm, SandboxStatus, Starting, CleanupBegins, IsStopped

\* So do the virtual machines, and the operations carried out on them.
LEMMA VmInv ==
  ASSUME IInv, NEW s \in Sandboxes, VmExits(s) \/ VmCrashes(s)
  PROVE  IInv'
BY DEF IInv, TypeOK, Locals, LockHeld, OneMonitor, MonitorVm, SandboxStatus, Starting, VmExits, VmCrashes

\* So does a goroutine of protectedSandboxOperation that reaches its sandbox.
LEMMA SandboxOpInv ==
  ASSUME IInv, NEW o \in pending, PerformSandboxOp(o)
  PROVE  IInv'
BY DEF IInv, TypeOK, Locals, LockHeld, OneMonitor, MonitorVm, SandboxStatus, Starting, PerformSandboxOp, Goto, Return

\* The invariant holds in every state of the pod when one client starts it.
THEOREM Invariance ==
  ASSUME SingleStarter
  PROVE  Spec => []IInv
<1>1. Init => IInv
  BY InitInv
<1>2. IInv /\ [Next]_vars => IInv'
  <2> SUFFICES ASSUME IInv, [Next]_vars
               PROVE  IInv'
    OBVIOUS
  <2>1. CASE \E t \in Clients : Request(t) \/ LockStep(t) \/ PlainStep(t)
    BY <2>1, RequestInv, LockStepInv, PlainStepInv
  <2>2. CASE \E s \in Sandboxes : SandboxOpStep(s) \/ VmExits(s) \/ VmCrashes(s)
    BY <2>2, SandboxOpInv, VmInv DEF SandboxOpStep
  <2>3. CASE \E m \in Sandboxes : MonitorStep(m) \/ CleanupBegins(m)
    BY <2>3, MonitorStepInv, CleanupBeginsInv
  <2>4. CASE UNCHANGED vars
    BY <2>4 DEF vars, IInv, TypeOK, Locals, LockHeld, OneMonitor, MonitorVm, SandboxStatus, Starting
  <2>5. QED BY <2>1, <2>2, <2>3, <2>4 DEF Next
<1>3. QED BY <1>1, <1>2, PTL DEF Spec

\* The variables of the pod keep their types.
THEOREM TypeCorrect ==
  ASSUME SingleStarter
  PROVE  Spec => []TypeOK
<1>1. IInv => TypeOK
  BY DEF IInv
<1>2. QED BY <1>1, Invariance, PTL

\* waitVMStop, doStopPod and addResourcesToSandbox never use a nil p.sandbox.
THEOREM NilSafety ==
  ASSUME SingleStarter
  PROVE  Spec => []NoNilSandbox
<1>1. IInv => NoNilSandbox
  BY DEF IInv, TypeOK, OneMonitor, Starting, NoNilSandbox
<1>2. QED BY <1>1, Invariance, PTL

\* A live virtual machine of the pod is watched by waitVMStop.
THEOREM Watched ==
  ASSUME SingleStarter
  PROVE  Spec => []LiveVmIsWatched
<1>1. IInv => LiveVmIsWatched
  BY DEF IInv, TypeOK, OneMonitor, MonitorVm, LiveVmIsWatched, Live, Published
<1>2. QED BY <1>1, Invariance, PTL

\* A pod is STOPPED only when all its virtual machines are gone.
THEOREM StoppedIsDown ==
  ASSUME SingleStarter
  PROVE  Spec => []StoppedMeansNoVm
<1>1. IInv => StoppedMeansNoVm
  BY DEF IInv, TypeOK, OneMonitor, MonitorVm, SandboxStatus, StoppedMeansNoVm, Live, Published
<1>2. QED BY <1>1, Invariance, PTL

\* Whenever the pod holds host resources, a monitor is there to release them.
THEOREM ResourcesCleaned ==
  ASSUME SingleStarter
  PROVE  Spec => []HeldResourcesHaveCleaner
<1>1. IInv => HeldResourcesHaveCleaner
  BY DEF IInv, TypeOK, OneMonitor, SandboxStatus, HeldResourcesHaveCleaner
<1>2. QED BY <1>1, Invariance, PTL
-----------------------------------------------------------------------------
(* Pauses.  The roll back of Pause and UnPause can be trusted when one client *)
(* starts and pauses the pod and no answer of the sandbox comes too late:     *)
(* otherwise a pause may reach a sandbox that was started after it.           *)

IsOperator(t) == MayCall[t] \cap {"create", "start", "pause", "unpause"} # {}

\* At most one client issues requests that start, pause or resume the pod, and the sandbox
\* answers in time.
SingleOperator ==
  /\ \A t, u \in Clients : IsOperator(t) /\ IsOperator(u) => t = u
  /\ "timeout" \notin Faults

StartLabels == {"reserve", "isStopped", "launch", "publish", "init", "initOk", "initErr"}
PauseLabels == {"pause", "issue", "answer", "rollback"}
Switches(o) == o.kind \in {"pause", "unpause"}

\* Who starts and who pauses.
PauseLocals ==
  \A t \in Clients :
    /\ pc[t] \in StartLabels \cup PauseLabels => IsOperator(t)
    /\ pc[t] \in PauseLabels => op[t] \in {"pause", "unpause"}
    /\ pc[t] = "publish" => mine[t] \notin paused

\* A pause under way is the only one, is waited for, and is for the sandbox of the pod.
PauseOps ==
  /\ \A o \in pending :
       /\ Switches(o) => /\ o.by \in Clients /\ pc[o.by] = "answer" /\ op[o.by] = o.kind
                         /\ sandbox \in {o.sb, NoSandbox} /\ vm[o.sb] # "none"
       /\ o.by # Nobody => Switches(o)
  /\ \A o, q \in pending : Switches(o) /\ Switches(q) => o = q

\* What the status is while a pause is under way or must be rolled back.
PauseStatus ==
  /\ status = "STARTING" => sandbox \notin paused
  /\ \A s \in paused : vm[s] # "none"
  /\ \A t \in Clients :
       pc[t] \in {"issue", "answer", "rollback"} => status \notin {"STARTING", Before(t)}
  /\ \A t \in Clients :
       pc[t] = "rollback" => sandbox = NoSandbox \/ vm[sandbox] # "running"

Switching == \E t \in Clients : pc[t] \in {"issue", "answer"}

\* The status tells whether a sandbox that runs is paused, and is ahead of it while it is told.
PauseTells ==
  status \in {"RUNNING", "PAUSED"} /\ vm[sandbox] = "running" =>
    ((status = "PAUSED") <=> IF Switching THEN sandbox \notin paused ELSE sandbox \in paused)

PInv == PauseLocals /\ PauseOps /\ PauseStatus /\ PauseTells

\* Who starts and pauses alone also starts alone.
LEMMA OperatorStarts ==
  ASSUME SingleOperator
  PROVE  SingleStarter
BY DEF SingleOperator, SingleStarter, IsOperator, IsStarter

USE DEF StartLabels, PauseLabels, Switches

\* No pause is under way at first.
LEMMA PauseInit == Init => PInv
BY DEF Init, AtRest, InitNew, InitStopped, InitReconnected, PInv, PauseLocals, PauseOps,
       PauseStatus, PauseTells, Switching

\* A client that issues a request keeps the invariant.
LEMMA PauseRequest ==
  ASSUME IInv, PInv, SingleOperator, NEW t \in Clients, Request(t)
  PROVE  PInv'
<1> USE DEF IInv, TypeOK, PInv, PauseLocals, PauseOps, PauseStatus, PauseTells, Switching, Before, Begin
<1>1. CASE BeginCreate(t) \/ BeginStart(t) \/ BeginPause(t)
  BY <1>1 DEF BeginCreate, BeginStart, BeginPause, IsOperator
<1>2. CASE BeginStop(t) \/ BeginRemove(t) \/ BeginKill(t) \/ BeginRemoveContainer(t)
  BY <1>2 DEF BeginStop, BeginRemove, BeginKill, BeginRemoveContainer
<1>3. QED BY Zenon, <1>1, <1>2 DEF Request

\* A step of a client that is not about a pause, that starts no pod and touches no sandbox
\* keeps it.
LEMMA PauseAside ==
  ASSUME IInv, PInv, NEW t \in Clients, pc[t] \notin PauseLabels,
         UNCHANGED <<sandbox, vm, paused>>,
         status' = status \/ status' \notin {"STARTING", "RUNNING", "PAUSED"},
         pc' \in [Clients -> Label],
         \A u \in Clients \ {t} : pc'[u] = pc[u] /\ op'[u] = op[u] /\ mine'[u] = mine[u],
         pc'[t] \notin StartLabels \cup PauseLabels,
         \A o \in pending' : o \in pending \/ (o.by = Nobody /\ ~Switches(o))
  PROVE  PInv'
<1> USE DEF IInv, TypeOK, PInv, PauseLocals, PauseOps, PauseStatus, PauseTells, Switching, Before
<1>1. PauseLocals'
  OBVIOUS
<1>2. PauseOps'
  OBVIOUS
<1>3. PauseStatus'
  OBVIOUS
<1>4. Switching' = Switching
  OBVIOUS
<1>5. PauseTells'
  BY <1>4
<1>6. QED BY <1>1, <1>2, <1>3, <1>5

\* The sections that begin with the acquisition of resourceLock keep it.
LEMMA PauseLockStep ==
  ASSUME IInv, PInv, NEW t \in Clients, LockStep(t)
  PROVE  PInv'
<1> USE DEF IInv, TypeOK, Goto, Return
<1>1. CASE PrepareResources(t)
  BY <1>1, PauseAside DEF PrepareResources, ProvisionFailed
<1>2. CASE AddResourcesToSandbox(t)
  BY <1>2, PauseAside DEF AddResourcesToSandbox, ProvisionFailed
<1>3. CASE DoStopPod(t)
  <2>1. op[t] \in {"stop", "remove", "removeStop"}
    BY <1>3 DEF DoStopPod, Locals
  <2>2. DoStopFailed(t) => Return(t) \/ \E l \in {"forceQuit", "remove", "waitStop", "removing"} : Goto(t, l)
    BY Zenon, <2>1 DEF DoStopFailed, AfterStop
  <2>3. QED BY <1>3, <2>2, PauseAside DEF DoStopPod
<1>4. CASE RemovePod(t)
  BY <1>4, PauseAside DEF RemovePod
<1>5. CASE RemoveContainer(t)
  BY <1>5, PauseAside DEF RemoveContainer
<1>6. QED BY <1>1, <1>2, <1>3, <1>4, <1>5 DEF LockStep

\* The steps that launch a sandbox and make it the pod's: it is not paused.
LEMMA PauseStarts ==
  ASSUME IInv, PInv, SingleOperator, NEW t \in Clients,
         \/ ReserveNames(t) \/ StartPod(t) \/ StartSandbox(t) \/ PublishSandbox(t)
         \/ InitSandbox(t) \/ SetPodInitStatus(t)
  PROVE  PInv'
<1> USE DEF IInv, TypeOK, PInv, PauseLocals, PauseOps, PauseStatus, PauseTells, Switching, Before
<1>1. CASE ReserveNames(t) \/ StartPod(t)
  BY <1>1 DEF ReserveNames, StartPod, Goto
<1>2. CASE StartSandbox(t)
  BY <1>2 DEF StartSandbox, Goto, Return, Starting, Locals, SandboxStatus
<1>3. CASE PublishSandbox(t)
  BY <1>3 DEF PublishSandbox, Goto, SingleOperator, Locals
<1>4. CASE InitSandbox(t)
  BY <1>4 DEF InitSandbox, Goto, SandboxOp
<1>5. CASE SetPodInitStatus(t)
  BY <1>5 DEF SetPodInitStatus, Awake, IsRunning, SingleOperator
<1>6. QED BY Zenon, <1>1, <1>2, <1>3, <1>4, <1>5

\* The steps of Pause and UnPause.
LEMMA PauseSteps ==
  ASSUME IInv, PInv, SingleOperator, NEW t \in Clients,
         PausePod(t) \/ IssuePause(t) \/ PauseTimeout(t) \/ RollbackPause(t)
  PROVE  PInv'
<1> USE DEF IInv, TypeOK, PInv, PauseLocals, PauseOps, PauseStatus, PauseTells, Switching, Before, SingleOperator
<1>1. CASE PausePod(t)
  BY <1>1 DEF PausePod, After, Goto, Return
<1>2. CASE IssuePause(t)
  BY <1>2 DEF IssuePause, Goto, Return, SandboxOp, SandboxStatus, OneMonitor, MonitorVm
<1>3. CASE PauseTimeout(t)
  BY <1>3 DEF PauseTimeout
<1>4. CASE RollbackPause(t)
  BY <1>4 DEF RollbackPause, After, Return, SandboxStatus
<1>5. QED BY Zenon, <1>1, <1>2, <1>3, <1>4

\* The other steps of a request.
LEMMA PausePlainStep ==
  ASSUME IInv, PInv, SingleOperator, NEW t \in Clients, PlainStep(t)
  PROVE  PInv'
<1> USE DEF IInv, TypeOK, Goto, Return
<1>1. CASE InitResources(t) \/ ResourcesAdded(t) \/ SavePod(t) \/ ReleaseNames(t) \/ WaitPodRun(t)
  BY <1>1, PauseAside
     DEF InitResources, ResourcesAdded, SavePod, ReleaseNames, WaitPodRun, ProvisionFailed
<1>2. CASE KillCreated(t) \/ StopAllContainers(t) \/ ForceQuit(t)
  BY <1>2, PauseAside DEF KillCreated, StopAllContainers, ForceQuit, KillSandbox, SandboxOp
<1>3. CASE ReleasePod(t) \/ RemoveStops(t)
  BY <1>3, PauseAside DEF ReleasePod, RemoveStops
<1>4. CASE ShutdownSandbox(t) \/ ShutdownReturns(t) \/ WaitStopDone(t)
  <2>1. op[t] \in {"stop", "remove", "removeStop"}
    BY Zenon, <1>4 DEF ShutdownSandbox, ShutdownReturns, WaitStopDone, Locals
  <2>2. DoStopFailed(t) => Return(t) \/ \E l \in {"forceQuit", "remove", "waitStop", "removing"} : Goto(t, l)
    BY Zenon, <2>1 DEF DoStopFailed, AfterStop
  <2>3. CASE ShutdownReturns(t)
    BY <2>2, <2>3, PauseAside DEF ShutdownReturns
  <2>4. CASE WaitStopDone(t)
    <3>1. Return(t) \/ \E l \in {"forceQuit", "remove", "removing"} : Goto(t, l)
      BY ZenonT(40), <2>1, <2>4 DEF WaitStopDone, AfterStop
    <3>2. QED BY <2>4, <3>1, PauseAside DEF WaitStopDone
  <2>5. CASE ShutdownSandbox(t) /\ vm[sandbox] # "running"
    BY <2>2, <2>5, PauseAside DEF ShutdownSandbox
  <2>6. CASE ShutdownSandbox(t) /\ vm[sandbox] = "running"
    BY <2>6 DEF ShutdownSandbox, PInv, PauseLocals, PauseOps, PauseStatus, PauseTells, Switching, Before
  <2>7. QED BY <1>4, <2>3, <2>4, <2>5, <2>6
<1>5. QED BY <1>1, <1>2, <1>3, <1>4, PauseStarts, PauseSteps DEF PlainStep

\* The monitor, and the virtual machines.
LEMMA PauseMonitor ==
  ASSUME IInv, PInv, NEW m \in Sandboxes,
         MonitorStep(m) \/ CleanupBegins(m) \/ VmExits(m) \/ VmCrashes(m)
  PROVE  PInv'
<1> USE DEF IInv, TypeOK, PInv, PauseLocals, PauseOps, PauseStatus, PauseTells, Switching, Before
<1>1. CASE MonitorStarts(m) \/ MonitorWatches(m) \/ MonitorWakes(m)
  BY <1>1 DEF MonitorStarts, MonitorWatches, MonitorWakes
<1>2. CASE CleanupBegins(m)
  BY <1>2 DEF CleanupBegins
<1>3. CASE CleanupEnds(m)
  BY <1>3 DEF CleanupEnds
<1>4. CASE VmExits(m) \/ VmCrashes(m)
  BY <1>4 DEF VmExits, VmCrashes, SandboxStatus
<1>5. QED BY ZenonT(40), <1>1, <1>2, <1>3, <1>4 DEF MonitorStep

\* A goroutine of protectedSandboxOperation: a pause that is answered has been carried out on
\* the sandbox of the pod, and one that is refused finds that sandbox gone.
LEMMA PauseSandboxOp ==
  ASSUME IInv, PInv, SingleOperator, NEW o \in pending, PerformSandboxOp(o)
  PROVE  PInv'
<1> USE DEF IInv, TypeOK, PInv, PauseLocals, PauseOps, PauseStatus, PauseTells, Switching, Before
<1>1. CASE ~Switches(o)
  BY <1>1 DEF PerformSandboxOp, SandboxStatus
<1>2. CASE Switches(o) /\ vm[o.sb] # "running"
  BY <1>2 DEF PerformSandboxOp, Goto, SandboxStatus
<1>3. CASE Switches(o) /\ vm[o.sb] = "running"
  BY <1>3 DEF PerformSandboxOp, Return, SandboxStatus, SingleOperator
<1>4. QED BY Zenon, <1>1, <1>2, <1>3

\* With one client that starts and pauses the pod and a sandbox that answers in time, RUNNING
\* and PAUSED tell whether the virtual machine executes (Pause, UnPause).
THEOREM PauseTrue ==
  ASSUME SingleOperator
  PROVE  Spec => []PauseAgrees
<1>1. Init => PInv
  BY PauseInit
<1>2. IInv /\ PInv /\ [Next]_vars => PInv'
  <2> SUFFICES ASSUME IInv, PInv, [Next]_vars
               PROVE  PInv'
    OBVIOUS
  <2>1. CASE \E t \in Clients : Request(t) \/ LockStep(t) \/ PlainStep(t)
    BY <2>1, PauseRequest, PauseLockStep, PausePlainStep
  <2>2. CASE \E s \in Sandboxes : SandboxOpStep(s) \/ VmExits(s) \/ VmCrashes(s)
    BY <2>2, PauseSandboxOp, PauseMonitor DEF SandboxOpStep
  <2>3. CASE \E m \in Sandboxes : MonitorStep(m) \/ CleanupBegins(m)
    BY <2>3, PauseMonitor
  <2>4. CASE UNCHANGED vars
    BY <2>4 DEF vars, PInv, PauseLocals, PauseOps, PauseStatus, PauseTells, Switching, Before
  <2>5. QED BY <2>1, <2>2, <2>3, <2>4 DEF Next
<1>3. Spec => []IInv
  BY OperatorStarts, Invariance
<1>4. IInv /\ PInv => PauseAgrees
  <2> SUFFICES ASSUME IInv, PInv, Quiescent, status \in {"RUNNING", "PAUSED"}
               PROVE  status = "PAUSED" <=> sandbox \in paused
    BY DEF PauseAgrees
  <2>1. vm[sandbox] = "running"
    BY DEF IInv, TypeOK, Quiescent, SandboxStatus, OneMonitor, MonitorVm
  <2>2. ~Switching
    BY DEF Quiescent, Switching
  <2>3. QED BY <2>1, <2>2 DEF PInv, PauseTells
<1>5. QED BY <1>1, <1>2, <1>3, <1>4, PTL DEF Spec
=============================================================================
