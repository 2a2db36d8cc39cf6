------------------------ MODULE ContainerInvariant ------------------------
(***************************************************************************)
(* The inductive invariant of a container, and the proof that the requests *)
(* to add and to start it keep it, for any number of requests of each      *)
(* kind, in a daemon that does not find the container stopped in a sandbox *)
(* that runs.                                                              *)
(***************************************************************************)
EXTENDS Exec, FiniteSetTheorems, TLAPS

\* The daemon starts with a container that is new or runs: associateToSandbox gives one that
\* it finds stopped a waitFinish that waits for a later run.
FoundRight == \A sc \in Scenarios : sc.restored \in {"new", "alive"}

WaitStep == {"none", "new", "wait", "exited", "broken", "reset", "close", "done"}
RequestStep == {"idle", "start", "log", "vm", "done", "wait", "term", "waiting", "ok", "kill",
                "attach", "copy", "ask"}

\* The starters that have called ContainerStatus.Start, or never will.
Begun == {t \in Starters : pc[t] \in {"log", "vm", "done"}}

-----------------------------------------------------------------------------
(* The inductive invariant. *)

\* The types, with those of the functions.
Types ==
  /\ state \in {"NONE", "CREATING", "CREATED", "RUNNING"}
  /\ killed \in BOOLEAN /\ alive \in BOOLEAN /\ vm \in BOOLEAN /\ added \in BOOLEAN
  /\ crashed \in BOOLEAN
  /\ run \in Nat /\ exitCode \in Nat /\ proc \in Nat
  /\ gens \in Nat /\ streams \in Nat /\ tty \in Nat
  /\ gens <= MaxStreams /\ streams <= gens /\ tty <= gens
  /\ wpc \in [Waiters -> WaitStep]
  /\ result \in [Waiters -> Nat]
  /\ arg \in [Requests -> Nat]
  /\ pc \in [Requests -> RequestStep]
  /\ \A t \in Starters : pc[t] \in {"idle", "start", "log", "vm", "done"}
  /\ \A t \in Stoppers : pc[t] \in {"idle", "wait", "term", "waiting", "ok", "done"}

\* Each run was begun by a request of its own.
RunsCounted == run <= 1 + Cardinality(Begun)

\* The end of a run is seen by the request that has begun it until it starts waitFinish, and
\* then by that; there is only one of the two, and only while the container is RUNNING.
Watched ==
  /\ \A t \in Starters : pc[t] = "log" =>
       /\ arg[t] = run /\ wpc[run] = "none"
       /\ \A w \in Runs : ~Watching(w)
       /\ \A u \in Starters : pc[u] = "log" => u = t
  /\ \A w \in Runs : /\ Watching(w) => w = run
                     /\ w > run => wpc[w] = "none"
                     /\ wpc[w] = "exited" => result[w] = run
  /\ state # "RUNNING" =>
       (\A t \in Starters : pc[t] # "log") /\ (\A w \in Runs : ~Watching(w))
  /\ state = "RUNNING" =>
       run >= 1 /\ (Watching(run) \/ \E t \in Starters : pc[t] = "log")

\* The process in the sandbox is that of the last run, and so is the one that is yet to be
\* started; while there is either, the container is RUNNING and its waitFinish still waits.
Processes ==
  /\ \A t \in Starters : pc[t] = "vm" /\ vm =>
       /\ arg[t] = run /\ state = "RUNNING" /\ wpc[run] \in {"new", "wait"} /\ proc = 0
       /\ \A u \in Starters : pc[u] = "vm" => u = t
  /\ proc # 0 => proc = run /\ vm /\ state = "RUNNING" /\ wpc[run] \in {"new", "wait"}

\* The exit code is that of the last run that ended.
Codes ==
  /\ exitCode <= run
  /\ state \in {"NONE", "CREATING"} => exitCode = 0
  /\ state = "CREATED" /\ exitCode # 0 => exitCode = run

\* A stopper that has heard of an end knows that its run is over: no process is of that run,
\* and no request will start one.
Stops ==
  \A t \in Stoppers :
    /\ pc[t] \in {"wait", "term", "waiting", "ok"} \/ wpc[t] # "none" => arg[t] \in 1..run
    /\ pc[t] \in {"idle", "wait"} => wpc[t] = "none"
    /\ pc[t] = "ok" => wpc[t] = "exited"
    /\ wpc[t] = "exited" =>
         /\ proc # arg[t]
         /\ \A u \in Starters : pc[u] \in {"log", "vm"} /\ vm => arg[u] # arg[t]

CInv == Types /\ RunsCounted /\ Watched /\ Processes /\ Codes /\ Stops

-----------------------------------------------------------------------------
\* Who a request is, and who waits for the end of a process.
LEMMA Kinds ==
  /\ \A t \in Starters : t \in Requests /\ t \notin Stoppers
  /\ \A t \in Stoppers : t \in Requests /\ t \notin Starters /\ t \in Waiters /\ t \notin Runs
  /\ \A t \in Killers \cup Askers \cup Attachers \cup Loggers :
       t \in Requests /\ t \notin Starters /\ t \notin Stoppers
  /\ \A w \in Runs : w \in Waiters /\ w \notin Stoppers /\ LogOf(w) \in Loggers
  /\ MaxStreams \in Nat
BY ContainerAssumption DEF Requests, Waiters, Loggers

USE Kinds DEF WaitStep, RequestStep, Watching

\* Runs are numbered from 0.
LEMMA RunsAre ==
  /\ Cardinality(Starters) \in Nat
  /\ \A r : r \in Runs <=> r \in Nat /\ r <= 1 + Cardinality(Starters)
<1>1. Cardinality(Starters) \in Nat
  BY ContainerAssumption, FS_CardinalityType
<1>2. QED BY <1>1 DEF Runs

\* The number of requests that have begun a run is at most that of all.
LEMMA BegunFinite ==
  /\ IsFiniteSet(Begun) /\ Cardinality(Begun) \in Nat
  /\ Cardinality(Begun) <= Cardinality(Starters)
<1>1. Begun \subseteq Starters
  BY DEF Begun
<1>2. QED BY <1>1, ContainerAssumption, FS_Subset, FS_CardinalityType

\* So the last run, and the next one that can begin, are in Runs.
LEMMA RunInRuns ==
  ASSUME Types, RunsCounted
  PROVE  run \in Runs
BY RunsAre, BegunFinite DEF Types, RunsCounted

\* A new container and one that runs.
LEMMA ContainerInit ==
  ASSUME FoundRight, PodInit
  PROVE  CInv
<1>1. PICK sc \in Scenarios : Starts(sc)
  BY DEF PodInit
<1>2. restored \in {"new", "alive"}
  BY <1>1 DEF Starts, FoundRight
<1>3. FirstState(sc.made)
  BY <1>1 DEF Starts
<1>4. run \in {0, 1} /\ proc = run /\ run \in Runs /\ 0 \in Runs
  BY <1>3, RunsAre DEF FirstState
<1>5. Types
  <2>1. /\ state \in {"NONE", "RUNNING"}
        /\ run \in Nat /\ exitCode \in Nat /\ proc \in Nat
        /\ gens = 0 /\ streams = 0 /\ tty = 0
    BY <1>2, <1>3, <1>4 DEF FirstState
  <2>2. killed \in BOOLEAN /\ alive \in BOOLEAN /\ vm \in BOOLEAN /\ crashed \in BOOLEAN
    BY Zenon, <1>3 DEF FirstState
  <2>3. added \in BOOLEAN
    BY <1>3 DEF FirstState
  <2>4. wpc \in [Waiters -> WaitStep] /\ result \in [Waiters -> Nat] /\ arg \in [Requests -> Nat]
    BY <1>3 DEF FirstState
  <2>5. pc \in [Requests -> RequestStep]
    BY <1>3 DEF FirstState
  <2>6. \A t \in Starters \cup Stoppers : t \notin Loggers /\ pc[t] \in {"idle", "done"}
    BY <1>3, <1>4 DEF FirstState
  <2>7. QED BY <2>1, <2>2, <2>3, <2>4, <2>5, <2>6 DEF Types
<1>6. RunsCounted
  BY <1>4, BegunFinite DEF RunsCounted
<1>7. Watched /\ Processes
  BY <1>2, <1>3, <1>4, RunsAre DEF FirstState, Watched, Processes
<1>8. Codes /\ Stops
  BY <1>2, <1>3, <1>4, RunsAre DEF FirstState, Codes, Stops
<1>9. QED BY <1>5, <1>6, <1>7, <1>8 DEF CInv

-----------------------------------------------------------------------------
(* Steps that the runs do not see. *)

\* A step that leaves the requests to start the container alone begins no run.
LEMMA NoRunBegins ==
  ASSUME RunsCounted, run' = run, \A t \in Starters : pc'[t] = pc[t]
  PROVE  RunsCounted'
<1>1. Begun' = Begun
  BY DEF Begun
<1>2. QED BY <1>1 DEF RunsCounted

\* When the copies of a stream return, nobody starts or stops the container.
LEMMA CopiesReturn ==
  ASSUME Types, NEW g, HangUp(g)
  PROVE  /\ pc' \in [Requests -> RequestStep] /\ arg' \in [Requests -> Nat]
         /\ \A t \in Starters \cup Stoppers : pc'[t] = pc[t] /\ arg'[t] = arg[t]
<1>1. \A t \in Starters \cup Stoppers : pc[t] # "copy"
  BY DEF Types
<1>2. QED BY <1>1 DEF Types, HangUp, Returned, Unused

\* What the requests to start and stop the container and those who wait for its end know.
Aside ==
  /\ UNCHANGED <<state, run, exitCode, proc, vm, wpc, result>>
  /\ \A t \in Starters \cup Stoppers : pc'[t] = pc[t] /\ arg'[t] = arg[t]

LEMMA AsideInv ==
  ASSUME CInv, Aside, Types'
  PROVE  CInv'
<1>1. RunsCounted'
  BY NoRunBegins DEF CInv, Aside
<1>2. Watched'
  BY DEF CInv, Aside, Watched
<1>3. Processes' /\ Codes'
  BY DEF CInv, Aside, Processes, Codes
<1>4. Stops'
  BY DEF CInv, Aside, Stops
<1>5. QED BY <1>1, <1>2, <1>3, <1>4 DEF CInv

\* KillContainer, Attach, GetExitCode and the log driver.
LEMMA OthersInv ==
  ASSUME CInv, NEW t \in Killers \cup Askers \cup Attachers \cup Loggers,
         \/ KillContainer(t) \/ setKill(t) \/ Attach(t) \/ AttachStreams(t)
         \/ GetExitCode(t) \/ ExitCodeIs(t)
  PROVE  CInv'
<1> USE DEF Go, statusVars, ioVars, podVars, waitVars, reqVars
<1>1. t \notin Starters /\ t \notin Stoppers /\ t \in Requests
  OBVIOUS
<1>2. Types
  BY DEF CInv
<1>3. CASE KillContainer(t)
  <2>1. Types' BY <1>1, <1>2, <1>3 DEF Types, KillContainer
  <2>2. Aside BY <1>1, <1>2, <1>3 DEF Types, KillContainer, Aside
  <2>3. QED BY <2>1, <2>2, AsideInv
<1>4. CASE setKill(t)
  <2>1. killed' \in BOOLEAN BY <1>4 DEF setKill
  <2>2. Types' BY <1>1, <1>2, <1>4, <2>1 DEF Types, setKill
  <2>3. Aside BY <1>1, <1>2, <1>4 DEF Types, setKill, Aside
  <2>4. QED BY <2>2, <2>3, AsideInv
<1>5. CASE Attach(t)
  <2>1. Types' BY <1>1, <1>2, <1>5 DEF Types, Attach
  <2>2. Aside BY <1>1, <1>2, <1>5 DEF Types, Attach, Aside
  <2>3. QED BY <2>1, <2>2, AsideInv
<1>6. CASE AttachStreams(t)
  <2>1. /\ gens' \in Nat /\ streams' \in Nat /\ tty' \in Nat
        /\ gens' <= MaxStreams /\ streams' <= gens' /\ tty' <= gens'
    BY <1>2, <1>6 DEF Types, AttachStreams
  <2>2. /\ pc' \in [Requests -> RequestStep] /\ arg' \in [Requests -> Nat]
        /\ \A u \in Starters \cup Stoppers : pc'[u] = pc[u] /\ arg'[u] = arg[u]
    BY <1>1, <1>2, <1>6 DEF Types, AttachStreams
  <2>3. Types' BY <1>2, <1>6, <2>1, <2>2 DEF Types, AttachStreams
  <2>4. Aside BY <1>6, <2>2 DEF AttachStreams, Aside
  <2>5. QED BY <2>3, <2>4, AsideInv
<1>7. CASE GetExitCode(t)
  <2>1. Types' BY <1>1, <1>2, <1>7 DEF Types, GetExitCode
  <2>2. Aside BY <1>1, <1>2, <1>7 DEF Types, GetExitCode, Aside
  <2>3. QED BY <2>1, <2>2, AsideInv
<1>8. CASE ExitCodeIs(t)
  <2>1. Types' BY <1>1, <1>2, <1>8 DEF Types, ExitCodeIs
  <2>2. Aside BY <1>1, <1>2, <1>8 DEF Types, ExitCodeIs, Aside
  <2>3. QED BY <2>1, <2>2, AsideInv
<1>9. QED BY <1>3, <1>4, <1>5, <1>6, <1>7, <1>8

\* The monitor of the pod, and a step that leaves the container alone.
LEMMA CleanupInv ==
  ASSUME CInv, Cleanup \/ UNCHANGED vars
  PROVE  CInv'
<1> USE DEF statusVars, ioVars, podVars, waitVars, reqVars
<1>1. CASE Cleanup
  <2>1. alive' \in BOOLEAN BY Zenon, <1>1 DEF Cleanup
  <2>2. Types' BY <1>1, <2>1 DEF CInv, Types, Cleanup
  <2>3. Aside BY <1>1 DEF Cleanup, Aside
  <2>4. QED BY <2>2, <2>3, AsideInv
<1>2. CASE UNCHANGED vars
  <2>1. Types' BY <1>2 DEF CInv, Types, vars
  <2>2. Aside BY <1>2 DEF vars, Aside
  <2>3. QED BY <2>1, <2>2, AsideInv
<1>3. QED BY <1>1, <1>2

\* addToSandbox.
LEMMA CreateInv ==
  ASSUME CInv, Create \/ Created
  PROVE  CInv'
<1> USE DEF statusVars, ioVars, podVars, waitVars, reqVars
<1>1. /\ state \in {"NONE", "CREATING"} /\ state' \in {"CREATING", "CREATED"}
      /\ UNCHANGED <<run, exitCode, proc, vm, wpc, result, pc, arg>>
  BY Zenon DEF Create, Created
<1>2. added' \in BOOLEAN
  BY Zenon DEF CInv, Types, Create, Created
<1>3. Types'
  BY Zenon, <1>1, <1>2 DEF CInv, Types, Create, Created
<1>4. RunsCounted'
  BY <1>1, NoRunBegins DEF CInv
<1>5. Watched' /\ Processes'
  BY <1>1 DEF CInv, Watched, Processes
<1>6. Codes' /\ Stops'
  BY <1>1 DEF CInv, Codes, Stops
<1>7. QED BY <1>3, <1>4, <1>5, <1>6 DEF CInv

-----------------------------------------------------------------------------
(* The requests to start the container. *)

\* ContainerStart, up to the change of the status.
LEMMA ContainerStartInv ==
  ASSUME CInv, NEW t \in Starters, ContainerStart(t)
  PROVE  CInv'
<1> USE DEF Go, statusVars, ioVars, podVars, waitVars, reqVars
<1>1. /\ UNCHANGED <<state, run, exitCode, proc, vm, wpc, result, arg>>
      /\ pc[t] = "idle" /\ pc' = [pc EXCEPT ![t] = "start"]
  BY DEF ContainerStart
<1>2. t \in Requests /\ t \notin Stoppers
  OBVIOUS
<1>3. Types'
  BY <1>1, <1>2 DEF CInv, Types, ContainerStart
<1>4. Begun' = Begun
  BY <1>1, <1>2 DEF CInv, Types, Begun
<1>5. RunsCounted'
  BY <1>1, <1>4 DEF CInv, RunsCounted
<1>6. Watched' /\ Processes'
  BY <1>1, <1>2 DEF CInv, Types, Watched, Processes
<1>7. Codes' /\ Stops'
  BY <1>1, <1>2 DEF CInv, Types, Codes, Stops
<1>8. QED BY <1>3, <1>5, <1>6, <1>7 DEF CInv

\* ContainerStatus.Start begins a run that nobody has heard of yet, or gives up.
LEMMA StartInv ==
  ASSUME CInv, NEW t \in Starters, Start(t)
  PROVE  CInv'
<1> USE DEF Go, statusVars, ioVars, podVars, waitVars, reqVars
<1>1. /\ UNCHANGED <<exitCode, proc, vm, wpc, result>>
      /\ pc[t] = "start" /\ t \in Requests /\ t \notin Stoppers
  BY DEF Start
<1>2. Types
  BY DEF CInv
<1>3. CASE /\ state = "CREATED" /\ state' = "RUNNING" /\ killed' = FALSE
           /\ run' = run + 1 /\ arg' = [arg EXCEPT ![t] = run + 1]
           /\ pc' = [pc EXCEPT ![t] = "log"]
  <2>1. killed' \in BOOLEAN
    BY Zenon, <1>3
  <2>2. Types'
    BY <1>1, <1>2, <1>3, <2>1 DEF Types, Start
  <2>3. RunsCounted'
    <3>1. Begun' = Begun \cup {t} /\ t \notin Begun
      BY <1>1, <1>2, <1>3 DEF Types, Begun
    <3>2. Cardinality(Begun') = Cardinality(Begun) + 1
      BY Zenon, <3>1, BegunFinite, FS_AddElement
    <3>3. QED BY <1>3, <3>2, BegunFinite DEF CInv, Types, RunsCounted
  <2>4. run' \in Runs
    <3>1. Begun' \subseteq Starters
      BY DEF Begun
    <3>2. Cardinality(Begun') \in Nat /\ Cardinality(Begun') <= Cardinality(Starters)
      BY <3>1, ContainerAssumption, FS_Subset, FS_CardinalityType
    <3>3. QED BY <2>2, <2>3, <3>2, RunsAre DEF Types, RunsCounted
  <2>5. \A u \in Starters : pc[u] # "log" /\ (u # t => pc'[u] = pc[u] /\ arg'[u] = arg[u])
    BY <1>2, <1>3 DEF CInv, Types, Watched
  <2>6. pc'[t] = "log" /\ arg'[t] = run'
    BY <1>1, <1>2, <1>3 DEF Types
  <2>7. \A w \in Runs : ~Watching(w) /\ ~Watching(w)'
    BY <1>1, <1>3 DEF CInv, Watched
  <2>8. Watched'
    <3>1. wpc'[run'] = "none"
      BY <1>1, <1>2, <1>3, <2>4 DEF CInv, Types, Watched
    <3>2. \A w \in Runs : w > run' => wpc'[w] = "none"
      BY <1>1, <1>2, <1>3, RunsAre DEF CInv, Types, Watched
    <3>3. \A w \in Runs : wpc'[w] # "exited"
      BY <2>7
    <3>4. run' >= 1
      BY <1>2, <1>3 DEF Types
    <3>5. QED BY <1>3, <2>5, <2>6, <2>7, <3>1, <3>2, <3>3, <3>4 DEF Watched
  <2>9. Processes'
    <3>1. proc = 0 /\ \A u \in Starters : pc[u] = "vm" => ~vm
      BY <1>3 DEF CInv, Processes
    <3>2. QED BY <1>1, <1>3, <2>5, <2>6, <3>1 DEF Processes
  <2>10. Codes'
    BY <1>1, <1>2, <1>3 DEF CInv, Types, Codes
  <2>11. Stops'
    <3>1. \A u \in Stoppers : pc'[u] = pc[u] /\ arg'[u] = arg[u] /\ arg[u] \in Nat
      BY <1>1, <1>2, <1>3 DEF Types
    <3>2. SUFFICES ASSUME NEW u \in Stoppers
                   PROVE  /\ pc'[u] \in {"wait", "term", "waiting", "ok"} \/ wpc'[u] # "none"
                             => arg'[u] \in 1..run'
                          /\ pc'[u] \in {"idle", "wait"} => wpc'[u] = "none"
                          /\ pc'[u] = "ok" => wpc'[u] = "exited"
                          /\ wpc'[u] = "exited" =>
                               /\ proc' # arg'[u]
                               /\ \A s \in Starters : pc'[s] \in {"log", "vm"} /\ vm'
                                                        => arg'[s] # arg'[u]
      BY DEF Stops
    <3>3. wpc[u] # "none" => arg[u] \in 1..run /\ arg[u] # run'
      BY <1>2, <1>3 DEF CInv, Types, Stops
    <3>4. QED BY <1>1, <1>2, <1>3, <2>5, <2>6, <3>1, <3>3 DEF CInv, Types, Stops
  <2>12. QED BY <2>2, <2>3, <2>8, <2>9, <2>10, <2>11 DEF CInv
<1>4. CASE UNCHANGED <<state, killed, run, arg>> /\ pc' = [pc EXCEPT ![t] = "done"]
  <2>1. Types'
    BY <1>1, <1>2, <1>4 DEF Types, Start
  <2>2. RunsCounted'
    <3>1. Begun' = Begun \cup {t} /\ t \notin Begun
      BY <1>1, <1>2, <1>4 DEF Types, Begun
    <3>2. Cardinality(Begun') = Cardinality(Begun) + 1
      BY Zenon, <3>1, BegunFinite, FS_AddElement
    <3>3. QED BY <1>4, <3>2, BegunFinite DEF CInv, Types, RunsCounted
  <2>3. \A u \in Starters : pc'[u] \in {"log", "vm"} => pc'[u] = pc[u]
    BY <1>2, <1>4 DEF Types
  <2>4. \A u \in Starters : pc[u] \in {"log", "vm"} => pc'[u] = pc[u]
    BY <1>1, <1>2, <1>4 DEF Types
  <2>5. Watched'
    BY <1>1, <1>4, <2>3, <2>4 DEF CInv, Watched
  <2>6. Processes' /\ Codes'
    BY <1>1, <1>4, <2>3 DEF CInv, Processes, Codes
  <2>7. Stops'
    <3>1. \A u \in Stoppers : pc'[u] = pc[u]
      BY <1>1, <1>2, <1>4 DEF Types
    <3>2. QED BY <1>1, <1>4, <2>3, <3>1 DEF CInv, Stops
  <2>8. QED BY <2>1, <2>2, <2>5, <2>6, <2>7 DEF CInv
<1>5. QED BY Zenon, <1>3, <1>4 DEF Start

\* startLogging hands the run over to its waitFinish.
LEMMA startLoggingInv ==
  ASSUME CInv, NEW t \in Starters, startLogging(t)
  PROVE  CInv'
<1> USE DEF Go, statusVars, ioVars, podVars, waitVars, reqVars
<1>1. /\ UNCHANGED <<state, run, exitCode, proc, vm, result, arg>>
      /\ pc[t] = "log" /\ t \in Requests /\ t \notin Stoppers
  BY DEF startLogging
<1>2. Types /\ run \in Runs
  BY RunInRuns DEF CInv
<1>3. /\ arg[t] = run /\ wpc[run] = "none" /\ state = "RUNNING"
      /\ \A w \in Runs : ~Watching(w)
      /\ \A u \in Starters : pc[u] = "log" => u = t
  BY <1>1, <1>2 DEF CInv, Types, Watched
<1>4. LogOf(run) \in Loggers /\ LogOf(run) \in Requests /\ LogOf(run) \notin Starters \cup Stoppers
  BY <1>2
<1>5. /\ wpc' = [wpc EXCEPT ![run] = "new"]
      /\ pc' = [pc EXCEPT ![t] = "vm", ![LogOf(run)] = IF logging THEN "attach" ELSE "idle"]
  BY <1>3 DEF startLogging
<1>6. /\ pc'[t] = "vm" /\ pc' \in [Requests -> RequestStep]
      /\ \A u \in Starters \cup Stoppers : u # t => pc'[u] = pc[u]
  BY <1>1, <1>2, <1>4, <1>5 DEF Types
<1>7. /\ wpc'[run] = "new" /\ wpc' \in [Waiters -> WaitStep]
      /\ \A w \in Waiters : w # run => wpc'[w] = wpc[w]
      /\ \A u \in Stoppers : wpc'[u] = wpc[u]
  BY <1>2, <1>5 DEF Types
<1>8. Types'
  BY <1>1, <1>2, <1>6, <1>7 DEF Types, startLogging
<1>9. RunsCounted'
  <2>1. Begun' = Begun
    BY <1>1, <1>6 DEF Begun
  <2>2. QED BY <1>1, <2>1 DEF CInv, RunsCounted
<1>10. Watched'
  <2>1. \A u \in Starters : pc'[u] # "log"
    BY <1>3, <1>6
  <2>2. \A w \in Runs : Watching(w)' <=> w = run
    BY <1>3, <1>7
  <2>3. \A w \in Runs : w > run => wpc'[w] = "none"
    BY <1>2, <1>7, RunsAre DEF CInv, Types, Watched
  <2>4. \A w \in Runs : wpc'[w] # "exited"
    BY <1>7, <2>2
  <2>5. run >= 1
    BY <1>3 DEF CInv, Watched
  <2>6. QED BY <1>1, <1>2, <1>3, <2>1, <2>2, <2>3, <2>4, <2>5 DEF Watched
<1>11. Processes'
  <2>1. proc = 0 /\ \A u \in Starters : pc[u] = "vm" => ~vm
    BY <1>2, <1>3 DEF CInv, Processes
  <2>2. QED BY <1>1, <1>3, <1>6, <1>7, <2>1 DEF Processes
<1>12. Codes'
  BY <1>1 DEF CInv, Codes
<1>13. Stops'
  BY <1>1, <1>6, <1>7 DEF CInv, Stops
<1>14. QED BY <1>8, <1>9, <1>10, <1>11, <1>12, <1>13 DEF CInv
=============================================================================
