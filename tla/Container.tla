----------------------------- MODULE Container -----------------------------
(***************************************************************************)
(* One container of a pod in one sandbox: its status, the requests that    *)
(* start, stop and kill it, attach to it and ask for its exit code, the    *)
(* waitFinish goroutine that follows each run, and its streams             *)
(* (daemon/pod/container.go, and the callers in pod.go, provision.go and   *)
(* decommission.go).                                                       *)
(***************************************************************************)
EXTENDS Integers, FiniteSets

CONSTANTS
  Starters, Stoppers, Killers, Askers, Attachers,   \* the requests, of each kind
  Scenarios,    \* records: the requests that are made, whether there is a log driver, and how the
                \* daemon finds the container when it starts ("new", "alive" or "stopped")
  MaxStreams    \* how many StreamConfigs it gets

VARIABLES
  logging,      \* whether the pod has a log driver
  restored,     \* how the daemon found the container when it started
  state, killed,            \* of ContainerStatus
  exitCode,     \* ExitCode, as the run that it is the code of; 0 when none has finished
  run,          \* how many runs there were
  streams, gens,            \* c.streams, 0 for nil; how many StreamConfigs were made
  alive, vm, added, proc, tty,  \* the pod is alive; the sandbox runs, knows the container,
                                \* runs its process (of which run), has its streams
  wpc, result, old,         \* waitFinish of each run: next step, what it heard, old streams
  pc, arg, forced,          \* of each request: next step, the run or streams it is about, forceKill
  crashed       \* the daemon panicked

podVars == <<alive, vm, added>>
statusVars == <<state, killed, exitCode, run>>
ioVars == <<streams, gens, tty>>
waitVars == <<wpc, result, old>>
reqVars == <<pc, arg, forced>>
vars == <<logging, restored, statusVars, ioVars, podVars, proc, waitVars, reqVars, crashed>>

Runs == 0..(1 + Cardinality(Starters))  \* 0 for the waitFinish of a container that was restored and does not run
LogOf(r) == <<"log", r>>    \* the goroutine that attaches the log driver in run r
Loggers == {LogOf(r) : r \in Runs}
Waiters == Runs \cup Stoppers    \* who waits for the process in the sandbox
Requests == Starters \cup Stoppers \cup Killers \cup Askers \cup Attachers \cup Loggers

\* A request is of one kind.
ASSUME ContainerAssumption ==
  /\ IsFiniteSet(Starters) /\ MaxStreams \in Nat
  /\ Starters \cap (Stoppers \cup Killers \cup Askers \cup Attachers \cup Loggers) = {}
  /\ Stoppers \cap (Killers \cup Askers \cup Attachers \cup Loggers) = {}
  /\ Stoppers \cap Runs = {}

\* waitFinish has been started and has not told the status yet that the container stopped.
Watching(w) == wpc[w] \in {"new", "wait", "exited", "broken"}

\* Types; a request that is between Start and the start of waitFinish is the only one.
TypeOK ==
  /\ state \in {"NONE", "CREATING", "CREATED", "RUNNING"}
  /\ {killed, alive, vm, added, crashed} \subseteq BOOLEAN
  /\ run \in Runs /\ exitCode \in Runs /\ proc \in Runs
  /\ streams \in 0..gens /\ gens \in 0..MaxStreams /\ tty \in 0..gens
  /\ \A w \in Runs : wpc[w] \in {"none", "new", "wait", "exited", "broken", "reset", "close", "done"}
  /\ \A t \in Starters : pc[t] \in {"idle", "start", "log", "vm", "done"}
  /\ \A t \in Stoppers : pc[t] \in {"idle", "wait", "term", "waiting", "ok", "done"}
  /\ restored # "stopped" => Cardinality({t \in Starters : pc[t] = "log"}) <= 1

\* A new container, or one that LoadXPod associates with a sandbox (associateToSandbox).
FirstState(made) ==
  /\ state = [new |-> "NONE", alive |-> "RUNNING", stopped |-> "CREATED"][restored]
  /\ run = (IF restored = "alive" THEN 1 ELSE 0) /\ proc = run
  /\ killed = FALSE /\ exitCode = 0
  /\ streams = 0 /\ gens = 0 /\ tty = 0
  /\ alive = TRUE /\ vm = TRUE /\ added = (restored # "new")
  /\ wpc = [w \in Waiters |-> IF w = run /\ restored # "new" THEN "new" ELSE "none"]
  /\ result = [w \in Waiters |-> 0]
  /\ old = [w \in Runs |-> 0]
  /\ pc = [t \in Requests |-> IF t = LogOf(run) /\ restored # "new" /\ logging THEN "attach"
                              ELSE IF t \in made \cup Loggers THEN "idle" ELSE "done"]
  /\ arg = [t \in Requests |-> 0]
  /\ forced = [t \in Stoppers |-> FALSE]
  /\ crashed = FALSE

Starts(sc) == logging = sc.logging /\ restored = sc.restored /\ FirstState(sc.made)
Init == \E sc \in Scenarios : Starts(sc)

\* The streams g are closed: whoever copies from them returns.
Returned(g) == [t \in Requests |-> IF pc[t] = "copy" /\ arg[t] = g THEN "done" ELSE pc[t]]
Unused(g) == [t \in Requests |-> IF pc[t] = "copy" /\ arg[t] = g THEN 0 ELSE arg[t]]
HangUp(g) == pc' = Returned(g) /\ arg' = Unused(g)
Go(t, step) == pc' = [pc EXCEPT ![t] = step]

-----------------------------------------------------------------------------
(* addToSandbox: Create, then Created, or UnexpectedStopped when AddContainer fails. *)

Create ==
  /\ state = "NONE" /\ state' = "CREATING"
  /\ UNCHANGED <<logging, restored, killed, exitCode, run, ioVars, podVars, proc, waitVars,
                 reqVars, crashed>>

Created ==
  /\ state = "CREATING" /\ state' = "CREATED"
  /\ added' \in {FALSE} \cup {vm}
  /\ UNCHANGED <<logging, restored, killed, exitCode, run, ioVars, alive, vm, proc, waitVars,
                 reqVars, crashed>>

-----------------------------------------------------------------------------
(* ContainerStart. *)

ContainerStart(t) ==
  /\ pc[t] = "idle" /\ alive /\ state = "CREATED"
  /\ Go(t, "start")
  /\ UNCHANGED <<logging, restored, statusVars, ioVars, podVars, proc, waitVars, arg, forced, crashed>>

\* ContainerStatus.Start: only a CREATED container becomes RUNNING.
Start(t) ==
  /\ pc[t] = "start"
  /\ \/ /\ state = "CREATED"
        /\ state' = "RUNNING" /\ killed' = FALSE
        /\ run' = run + 1 /\ arg' = [arg EXCEPT ![t] = run + 1]
        /\ Go(t, "log")
     \/ /\ state # "CREATED"
        /\ Go(t, "done") /\ UNCHANGED <<state, killed, run, arg>>
  /\ UNCHANGED <<logging, restored, exitCode, ioVars, podVars, proc, waitVars, forced, crashed>>

\* startLogging has a goroutine attach the log driver; another one is waitFinish.
startLogging(t) ==
  /\ pc[t] = "log"
  /\ LET r == arg[t]
     IN  /\ pc' = [pc EXCEPT ![t] = "vm", ![LogOf(r)] = IF logging THEN "attach" ELSE "idle"]
         /\ wpc' = [wpc EXCEPT ![r] = "new"]
  /\ UNCHANGED <<logging, restored, statusVars, ioVars, podVars, proc, result, old, arg, forced, crashed>>

\* Whoever waits for the process in the sandbox hears of its end; who asks later does not.
Tell(r) ==
  /\ wpc' = [w \in Waiters |-> IF wpc[w] = "wait" THEN "exited" ELSE wpc[w]]
  /\ result' = [w \in Waiters |-> IF wpc[w] = "wait" THEN r ELSE result[w]]

\* Mutant: a container that could not be started is CREATED again, and its watcher goes on.
BugStartContainer(t) ==
  /\ pc[t] = "vm"
  /\ \/ /\ vm /\ added /\ proc = 0 /\ proc' = arg[t] /\ UNCHANGED state
     \/ state' = "CREATED" /\ UNCHANGED proc
  /\ Go(t, "done")
  /\ UNCHANGED <<logging, restored, killed, exitCode, run, ioVars, podVars, waitVars, arg,
                 forced, crashed>>

\* StartContainer: when it fails the status stays RUNNING; the sandbox may report the end of a
\* process that never was.
StartContainer(t) ==
  /\ pc[t] = "vm"
  /\ \/ /\ vm /\ added /\ proc = 0 /\ proc' = arg[t] /\ UNCHANGED <<wpc, result>>
     \/ vm /\ added /\ Tell(arg[t]) /\ UNCHANGED proc
     \/ UNCHANGED <<proc, wpc, result>>
  /\ Go(t, "done")
  /\ UNCHANGED <<logging, restored, statusVars, ioVars, podVars, old, arg, forced, crashed>>

-----------------------------------------------------------------------------
(* waitFinish. *)

\* Mutant: the answer of a sandbox that is gone is not looked at.
BugWaitProcess(w) ==
  /\ w \in Runs /\ wpc[w] = "new"
  /\ wpc' = [wpc EXCEPT ![w] = "wait"]
  /\ UNCHANGED <<logging, restored, statusVars, ioVars, podVars, proc, result, old, reqVars, crashed>>

WaitProcess(w) ==
  /\ w \in Runs /\ wpc[w] = "new"
  /\ wpc' = [wpc EXCEPT ![w] = IF vm THEN "wait" ELSE "broken"]
  /\ UNCHANGED <<logging, restored, statusVars, ioVars, podVars, proc, result, old, reqVars, crashed>>

\* ContainerStatus.Stopped and UnexpectedStopped (the channel is broken): the first to see
\* that the container stopped sets the exit code.
Stopped(w) ==
  /\ w \in Runs /\ wpc[w] \in {"exited", "broken"}
  /\ state' = "CREATED"
  /\ IF state = "RUNNING"
     THEN /\ exitCode' = IF wpc[w] = "exited" THEN result[w] ELSE w
          /\ wpc' = [wpc EXCEPT ![w] = "reset"]
     ELSE wpc' = [wpc EXCEPT ![w] = "done"] /\ UNCHANGED exitCode
  /\ result' = [result EXCEPT ![w] = 0]
  /\ UNCHANGED <<logging, restored, killed, run, ioVars, podVars, proc, old, reqVars, crashed>>

\* The first one takes the streams away, without a lock, ...
ResetStreams(w) ==
  /\ wpc[w] = "reset"
  /\ old' = [old EXCEPT ![w] = streams] /\ streams' = 0
  /\ wpc' = [wpc EXCEPT ![w] = "close"]
  /\ UNCHANGED <<logging, restored, statusVars, gens, tty, podVars, proc, result, reqVars, crashed>>

\* ... and closes them three seconds later; CloseStreams of nil is a panic.
CloseStreams(w) ==
  /\ wpc[w] = "close"
  /\ wpc' = [wpc EXCEPT ![w] = "done"]
  /\ crashed' = (old[w] = 0)
  /\ HangUp(old[w])
  /\ old' = [old EXCEPT ![w] = 0]
  /\ UNCHANGED <<logging, restored, statusVars, ioVars, podVars, proc, result, forced>>

-----------------------------------------------------------------------------
(* StopContainer, under the resourceLock; KillContainer. *)

StopContainer(t) ==
  /\ pc[t] = "idle" /\ alive /\ state = "RUNNING"
  /\ arg' = [arg EXCEPT ![t] = run]
  /\ Go(t, "wait")
  /\ UNCHANGED <<logging, restored, statusVars, ioVars, podVars, proc, waitVars, forced, crashed>>

\* stopContainers registers for the end of the process before it sends the signal.
StopWaitProcess(t) ==
  /\ pc[t] = "wait"
  /\ \E force \in BOOLEAN : forced' = [forced EXCEPT ![t] = force]
  /\ wpc' = [wpc EXCEPT ![t] = IF vm THEN "wait" ELSE "broken"]
  /\ Go(t, "term")
  /\ UNCHANGED <<logging, restored, statusVars, ioVars, podVars, proc, result, old, arg, crashed>>

\* terminate: a failure to signal a container that is not RUNNING is ignored, another one is
\* followed by SIGKILL.
terminate(t) ==
  /\ pc[t] = "term"
  /\ killed' = TRUE
  /\ LET ok == (vm /\ proc # 0) \/ state # "RUNNING"
     IN  /\ Go(t, IF ok THEN "waiting" ELSE IF forced[t] THEN "done" ELSE "term")
         /\ forced' = [forced EXCEPT ![t] = @ \/ ~ok]
  /\ UNCHANGED <<logging, restored, state, exitCode, run, ioVars, podVars, proc, waitVars, arg, crashed>>

\* Mutant: a broken channel is taken for the end of the process.
BugStopReturns(t) ==
  /\ pc[t] = "waiting"
  /\ \/ wpc[t] \in {"exited", "broken"} /\ Go(t, "ok") /\ UNCHANGED forced
     \/ forced[t] /\ Go(t, "ok") /\ UNCHANGED forced
     \/ ~forced[t] /\ Go(t, "term") /\ forced' = [forced EXCEPT ![t] = TRUE]
  /\ UNCHANGED <<logging, restored, statusVars, ioVars, podVars, proc, waitVars, arg, crashed>>

\* The process ended, the channel broke, or the time is over: then SIGKILL, and then an error.
StopReturns(t) ==
  /\ pc[t] = "waiting"
  /\ \/ wpc[t] = "exited" /\ Go(t, "ok") /\ UNCHANGED forced
     \/ (wpc[t] = "broken" \/ forced[t]) /\ Go(t, "done") /\ UNCHANGED forced
     \/ ~forced[t] /\ Go(t, "term") /\ forced' = [forced EXCEPT ![t] = TRUE]
  /\ UNCHANGED <<logging, restored, statusVars, ioVars, podVars, proc, waitVars, arg, crashed>>

KillContainer(t) ==
  /\ pc[t] = "idle" /\ alive /\ state = "RUNNING"
  /\ Go(t, "kill")
  /\ UNCHANGED <<logging, restored, statusVars, ioVars, podVars, proc, waitVars, arg, forced, crashed>>

setKill(t) ==
  /\ pc[t] = "kill"
  /\ killed' = TRUE
  /\ Go(t, "done")
  /\ UNCHANGED <<logging, restored, state, exitCode, run, ioVars, podVars, proc, waitVars, arg,
                 forced, crashed>>

-----------------------------------------------------------------------------
(* Attach, and the goroutine of the log driver; GetExitCode. *)

Attach(t) ==
  /\ pc[t] = "idle" /\ alive /\ state # "NONE"
  /\ Go(t, "attach")
  /\ UNCHANGED <<logging, restored, statusVars, ioVars, podVars, proc, waitVars, arg, forced, crashed>>

\* AttachStreams with initStreams, under the lock of the status: the streams that there are, or
\* new ones; they stay when the sandbox refuses them.
AttachStreams(t) ==
  /\ pc[t] = "attach"
  /\ \/ /\ streams # 0
        /\ arg' = [arg EXCEPT ![t] = streams] /\ Go(t, "copy") /\ UNCHANGED <<streams, gens, tty>>
     \/ /\ streams = 0 /\ ~alive
        /\ Go(t, "done") /\ UNCHANGED <<arg, streams, gens, tty>>
     \/ /\ streams = 0 /\ alive /\ gens < MaxStreams
        /\ gens' = gens + 1 /\ streams' = gens + 1
        /\ IF vm /\ added /\ tty = 0
           THEN tty' = gens + 1 /\ arg' = [arg EXCEPT ![t] = gens + 1] /\ Go(t, "copy")
           ELSE Go(t, "done") /\ UNCHANGED <<tty, arg>>
  /\ UNCHANGED <<logging, restored, statusVars, podVars, proc, waitVars, forced, crashed>>

\* GetExitCode waits for stateChanged until the container is CREATED.
GetExitCode(t) ==
  /\ pc[t] = "idle" /\ state # "CREATED"
  /\ Go(t, "ask")
  /\ UNCHANGED <<logging, restored, statusVars, ioVars, podVars, proc, waitVars, arg, forced, crashed>>

ExitCodeIs(t) ==
  /\ pc[t] = "ask" /\ state = "CREATED"
  /\ Go(t, "done")
  /\ UNCHANGED <<logging, restored, statusVars, ioVars, podVars, proc, waitVars, arg, forced, crashed>>

-----------------------------------------------------------------------------
(* The sandbox. *)

ProcessExit ==
  /\ proc # 0 /\ proc' = 0
  /\ Tell(proc)
  /\ tty' = 0 /\ HangUp(tty)
  /\ UNCHANGED <<logging, restored, statusVars, streams, gens, podVars, old, forced, crashed>>

VmExit ==
  /\ vm /\ vm' = FALSE /\ proc' = 0
  /\ wpc' = [w \in Waiters |-> IF wpc[w] = "wait" THEN "broken" ELSE wpc[w]]
  /\ tty' = 0 /\ HangUp(tty)
  /\ UNCHANGED <<logging, restored, statusVars, streams, gens, alive, added, result, old, forced, crashed>>

\* The monitor of the pod makes it STOPPED.
Cleanup ==
  /\ ~vm /\ alive /\ alive' = FALSE
  /\ UNCHANGED <<logging, restored, statusVars, ioVars, vm, added, proc, waitVars, reqVars, crashed>>

WaitFinish(w) == WaitProcess(w) \/ Stopped(w) \/ ResetStreams(w) \/ CloseStreams(w)

Starting(t) == Start(t) \/ startLogging(t) \/ StartContainer(t)
Stopping(t) == StopWaitProcess(t) \/ terminate(t) \/ StopReturns(t)

\* Every step but the exit of the sandbox.
Steps ==
  \/ Create \/ Created \/ ProcessExit \/ Cleanup
  \/ \E w \in Runs : WaitFinish(w)
  \/ \E t \in Starters : ContainerStart(t) \/ Starting(t)
  \/ \E t \in Stoppers : StopContainer(t) \/ Stopping(t)
  \/ \E t \in Killers : KillContainer(t) \/ setKill(t)
  \/ \E t \in Attachers : Attach(t)
  \/ \E t \in Attachers \cup Loggers : AttachStreams(t)
  \/ \E t \in Askers : GetExitCode(t) \/ ExitCodeIs(t)

Next == ~crashed /\ (Steps \/ VmExit)

\* The Go scheduler runs every goroutine that can run: the one that adds the container, those
\* that start it, those that wait for its end and those that ask for its exit code.
Spec == Init /\ [][Next]_vars
Fairness ==
  /\ WF_vars(~crashed /\ Created)
  /\ WF_vars(~crashed /\ \E t \in Starters : Starting(t))
  /\ WF_vars(~crashed /\ \E w \in Runs : WaitFinish(w))
  /\ WF_vars(~crashed /\ \E t \in Askers : ExitCodeIs(t))

-----------------------------------------------------------------------------
(* Properties. *)

\* A container is RUNNING exactly while one thread will see its end: the request that has
\* started it, or its waitFinish.  (A container that the daemon found stopped has a waitFinish
\* too many.)
OneWatcher ==
  restored # "stopped" =>
    Cardinality({t \in Starters : pc[t] = "log"}) + Cardinality({w \in Runs : Watching(w)})
      = IF state = "RUNNING" THEN 1 ELSE 0

\* The exit code of a container that has stopped is that of its last run.
ExitCodeOfLastRun ==
  (restored # "stopped" /\ exitCode # 0 /\ state = "CREATED") => exitCode = run

\* When StopContainer returns without an error, the run that it was asked to stop is over.
StopMeansExited == \A t \in Stoppers : pc[t] = "ok" => proc # arg[t]

\* Each run of a container is watched once and its exit code is kept, and the variables have
\* their types (container.go).
RunsAreWatched == TypeOK /\ OneWatcher /\ ExitCodeOfLastRun

\* When the sandbox is gone, the container becomes CREATED and GetExitCode answers.
SandboxExitIsSeen ==
  ~vm ~> (crashed \/ (state \in {"NONE", "CREATED"} /\ \A t \in Askers : pc[t] # "ask" \/ state = "NONE"))

=============================================================================
