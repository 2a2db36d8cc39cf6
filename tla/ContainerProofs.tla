-------------------------- MODULE ContainerProofs --------------------------
(***************************************************************************)
(* The safety properties of a container: StartContainer, waitFinish,       *)
(* StopContainer and the sandbox keep the invariant too.                   *)
(***************************************************************************)
EXTENDS ContainerInvariant

USE Kinds DEF WaitStep, RequestStep, Watching

\* StartContainer: the process runs, or its end is told though it never did, or nothing.
LEMMA StartContainerInv ==
  ASSUME CInv, NEW t \in Starters, StartContainer(t)
  PROVE  CInv'
<1> USE DEF Go, statusVars, ioVars, podVars, waitVars, reqVars
<1>1. /\ UNCHANGED <<state, run, exitCode, vm, arg>>
      /\ pc[t] = "vm" /\ pc' = [pc EXCEPT ![t] = "done"] /\ t \in Requests /\ t \notin Stoppers
  BY Zenon DEF StartContainer
<1>2. Types /\ run \in Runs
  BY RunInRuns DEF CInv
<1>3. /\ pc' \in [Requests -> RequestStep] /\ pc'[t] = "done"
      /\ \A u \in Starters \cup Stoppers : u # t => pc'[u] = pc[u]
  BY <1>1, <1>2 DEF Types
<1>4. RunsCounted'
  <2>1. Begun' = Begun
    BY <1>1, <1>3 DEF Begun
  <2>2. QED BY <1>1, <2>1 DEF CInv, RunsCounted
<1>5. Codes'
  BY <1>1 DEF CInv, Codes
<1>6. vm => /\ arg[t] = run /\ state = "RUNNING" /\ wpc[run] \in {"new", "wait"} /\ proc = 0
            /\ \A u \in Starters : pc'[u] # "vm"
            /\ \A u \in Starters : pc[u] # "log" /\ pc'[u] # "log"
  <2>1. vm => \A u \in Starters : pc[u] = "log" => FALSE
    BY <1>1, <1>2 DEF CInv, Processes, Watched
  <2>2. QED BY <1>1, <1>3, <2>1 DEF CInv, Processes
<1>7. CASE vm /\ proc' = arg[t] /\ UNCHANGED <<wpc, result>>
  <2>1. proc' = run
    BY <1>6, <1>7
  <2>2. Types'
    BY <1>1, <1>2, <1>3, <1>7, <2>1 DEF Types, StartContainer
  <2>3. Watched'
    BY <1>1, <1>3, <1>6, <1>7 DEF CInv, Watched
  <2>4. Processes'
    BY <1>1, <1>6, <1>7, <2>1 DEF Processes
  <2>5. Stops'
    <3>1. \A u \in Stoppers : wpc[u] = "exited" => arg[t] # arg[u]
      BY <1>1, <1>7 DEF CInv, Stops
    <3>2. QED BY <1>1, <1>3, <1>6, <1>7, <2>1, <3>1 DEF CInv, Stops
  <2>6. QED BY <1>4, <1>5, <2>2, <2>3, <2>4, <2>5 DEF CInv
<1>8. CASE vm /\ Tell(arg[t]) /\ UNCHANGED proc
  <2>1. /\ wpc' = [w \in Waiters |-> IF wpc[w] = "wait" THEN "exited" ELSE wpc[w]]
        /\ result' = [w \in Waiters |-> IF wpc[w] = "wait" THEN run ELSE result[w]]
    BY <1>6, <1>8 DEF Tell
  <2>2. wpc' \in [Waiters -> WaitStep] /\ result' \in [Waiters -> Nat]
    BY <1>2, <2>1 DEF Types
  <2>3. Types'
    BY <1>1, <1>2, <1>3, <1>8, <2>2 DEF Types, StartContainer
  <2>4. \A w \in Waiters : /\ wpc'[w] \in {"new", "exited", "broken"} \/ wpc'[w] = wpc[w]
                           /\ wpc'[w] = "none" <=> wpc[w] = "none"
                           /\ wpc'[w] = "exited" <=> wpc[w] \in {"exited", "wait"}
    BY Zenon, <2>1
  <2>5. \A w \in Runs : /\ Watching(w)' <=> Watching(w)
                        /\ wpc'[w] = "none" <=> wpc[w] = "none"
                        /\ wpc'[w] = "exited" => result'[w] = run
    BY <2>1 DEF CInv, Watched
  <2>6. Watched'
    BY <1>1, <1>2, <1>6, <2>5 DEF CInv, Watched
  <2>7. Processes'
    BY <1>6, <1>8 DEF Processes
  <2>8. Stops'
    <3>1. \A u \in Stoppers : wpc[u] # "none" => arg[u] \in 1..run
      BY DEF CInv, Stops
    <3>2. proc' = 0 /\ \A u \in Stoppers : u # t
      BY <1>1, <1>6, <1>8
    <3>3. QED BY <1>1, <1>3, <1>6, <2>4, <3>1, <3>2 DEF CInv, Stops
  <2>9. QED BY <1>4, <1>5, <2>3, <2>6, <2>7, <2>8 DEF CInv
<1>9. CASE UNCHANGED <<proc, wpc, result>>
  <2>1. Types'
    BY <1>1, <1>2, <1>3, <1>9 DEF Types, StartContainer
  <2>2. \A u \in Starters : /\ pc'[u] \in {"log", "vm"} => pc'[u] = pc[u]
                            /\ pc'[u] = "log" <=> pc[u] = "log"
    BY <1>1, <1>3
  <2>3. Watched'
    BY ZenonT(40), <1>1, <1>9, <2>2 DEF CInv, Watched
  <2>4. Processes'
    BY <1>1, <1>9, <2>2 DEF CInv, Processes
  <2>5. Stops'
    BY <1>1, <1>3, <1>9, <2>2 DEF CInv, Stops
  <2>6. QED BY <1>4, <1>5, <2>1, <2>3, <2>4, <2>5 DEF CInv
<1>10. QED BY <1>7, <1>8, <1>9 DEF StartContainer

-----------------------------------------------------------------------------
(* waitFinish. *)

\* waitFinish begins to wait, or takes away and closes the streams of a run that is over.
LEMMA WaitInv ==
  ASSUME CInv, NEW w \in Runs, WaitProcess(w) \/ ResetStreams(w) \/ CloseStreams(w)
  PROVE  CInv'
<1> USE DEF statusVars, ioVars, podVars, waitVars, reqVars
<1>1. /\ UNCHANGED <<state, run, exitCode, proc, vm, result>>
      /\ w \in Waiters /\ w \notin Stoppers
  BY DEF WaitProcess, ResetStreams, CloseStreams
<1>2. Types /\ run \in Runs
  BY RunInRuns DEF CInv
<1>3. /\ pc' \in [Requests -> RequestStep] /\ arg' \in [Requests -> Nat]
      /\ \A t \in Starters \cup Stoppers : pc'[t] = pc[t] /\ arg'[t] = arg[t]
  <2>1. CASE CloseStreams(w)
    BY Zenon, <1>2, <2>1, CopiesReturn DEF CloseStreams
  <2>2. CASE WaitProcess(w) \/ ResetStreams(w)
    BY <1>2, <2>2 DEF WaitProcess, ResetStreams, Types
  <2>3. QED BY ZenonT(40), <2>1, <2>2
<1>4. \/ /\ wpc[w] = "new" /\ wpc' = [wpc EXCEPT ![w] = IF vm THEN "wait" ELSE "broken"]
      \/ /\ wpc[w] \in {"reset", "close"}
         /\ \E s \in {"close", "done"} : wpc' = [wpc EXCEPT ![w] = s]
  BY DEF WaitProcess, ResetStreams, CloseStreams
<1>5. /\ wpc' \in [Waiters -> WaitStep]
      /\ \A u \in Waiters : u # w => wpc'[u] = wpc[u]
      /\ \/ wpc[w] = "new" /\ wpc'[w] = IF vm THEN "wait" ELSE "broken"
         \/ wpc[w] \in {"reset", "close"} /\ wpc'[w] \in {"close", "done"}
  BY <1>1, <1>2, <1>4 DEF Types
<1>6. Types'
  <2>1. streams' \in Nat /\ streams' <= gens /\ UNCHANGED <<gens, tty, killed, alive, added>>
    BY <1>2 DEF Types, WaitProcess, ResetStreams, CloseStreams
  <2>2. crashed' \in BOOLEAN
    BY Zenon, <1>2 DEF Types, WaitProcess, ResetStreams, CloseStreams
  <2>3. QED BY <1>1, <1>2, <1>3, <1>5, <2>1, <2>2 DEF Types
<1>7. RunsCounted'
  BY <1>1, <1>3, NoRunBegins DEF CInv
<1>8. \A u \in Runs : /\ Watching(u)' <=> Watching(u)
                      /\ wpc'[u] = "none" <=> wpc[u] = "none"
                      /\ wpc'[u] = "exited" <=> wpc[u] = "exited"
  BY <1>5
<1>9. Watched'
  BY <1>1, <1>2, <1>3, <1>8 DEF CInv, Watched
<1>10. Processes'
  <2>1. vm /\ wpc[run] \in {"new", "wait"} => wpc'[run] \in {"new", "wait"}
    BY <1>2, <1>5
  <2>2. QED BY <1>1, <1>3, <2>1 DEF CInv, Processes
<1>11. Codes'
  BY <1>1 DEF CInv, Codes
<1>12. Stops'
  <2>1. \A u \in Stoppers : wpc'[u] = wpc[u]
    BY <1>1, <1>5
  <2>2. QED BY <1>1, <1>3, <2>1 DEF CInv, Stops
<1>13. QED BY <1>6, <1>7, <1>9, <1>10, <1>11, <1>12 DEF CInv

\* Stopped: the run that is over is the last one, and nobody else watches it.
LEMMA StoppedInv ==
  ASSUME CInv, NEW w \in Runs, Stopped(w)
  PROVE  CInv'
<1> USE DEF statusVars, ioVars, podVars, waitVars, reqVars
<1>1. /\ UNCHANGED <<run, proc, vm, pc, arg>>
      /\ w \in Waiters /\ w \notin Stoppers /\ wpc[w] \in {"exited", "broken"}
  BY DEF Stopped
<1>2. Types /\ run \in Runs
  BY RunInRuns DEF CInv
<1>3. w = run /\ state = "RUNNING" /\ (wpc[w] = "exited" => result[w] = run)
  BY <1>1, <1>2 DEF CInv, Types, Watched
<1>4. /\ state' = "CREATED" /\ exitCode' = run /\ wpc' = [wpc EXCEPT ![run] = "reset"]
      /\ result' = [result EXCEPT ![run] = 0]
  BY <1>1, <1>3 DEF Stopped
<1>5. /\ wpc' \in [Waiters -> WaitStep] /\ result' \in [Waiters -> Nat] /\ wpc'[run] = "reset"
      /\ \A u \in Waiters : u # run => wpc'[u] = wpc[u] /\ result'[u] = result[u]
  BY <1>1, <1>2, <1>3, <1>4 DEF Types
<1>6. Types'
  BY <1>1, <1>2, <1>4, <1>5 DEF Types, Stopped
<1>7. RunsCounted'
  BY <1>1, NoRunBegins DEF CInv
<1>8. Watched'
  <2>1. \A t \in Starters : pc[t] # "log"
    BY <1>1 DEF CInv, Watched
  <2>2. \A u \in Runs : ~Watching(u)' /\ (u > run => wpc'[u] = "none")
    <3>1. \A u \in Runs : u # run => ~Watching(u) /\ wpc'[u] = wpc[u]
      BY <1>5 DEF CInv, Watched
    <3>2. \A u \in Runs : u > run => u # run /\ wpc[u] = "none"
      BY <1>2, RunsAre DEF CInv, Types, Watched
    <3>3. QED BY <1>5, <3>1, <3>2
  <2>3. QED BY <1>1, <1>4, <2>1, <2>2 DEF Watched
<1>9. Processes'
  <2>1. proc = 0 /\ \A t \in Starters : pc[t] = "vm" => ~vm
    BY <1>1, <1>3 DEF CInv, Processes
  <2>2. QED BY <1>1, <2>1 DEF Processes
<1>10. Codes'
  BY <1>1, <1>2, <1>4 DEF Types, Codes
<1>11. Stops'
  <2>1. \A u \in Stoppers : wpc'[u] = wpc[u]
    BY <1>1, <1>3, <1>5
  <2>2. QED BY <1>1, <2>1 DEF CInv, Stops
<1>12. QED BY <1>6, <1>7, <1>8, <1>9, <1>10, <1>11 DEF CInv

-----------------------------------------------------------------------------
(* StopContainer. *)

\* The steps of a stopper, which asks for the end of the run that there is.
LEMMA StoppingInv ==
  ASSUME CInv, NEW t \in Stoppers, StopContainer(t) \/ Stopping(t)
  PROVE  CInv'
<1> USE DEF Go, statusVars, ioVars, podVars, waitVars, reqVars
<1>1. /\ UNCHANGED <<state, run, exitCode, proc, vm, result, alive, added, crashed>>
      /\ UNCHANGED <<streams, gens, tty>>
  BY DEF Stopping, StopContainer, StopWaitProcess, terminate, StopReturns
<1>2. Types /\ run \in Runs /\ t \in Requests /\ t \notin Starters /\ t \in Waiters /\ t \notin Runs
  BY RunInRuns DEF CInv
<1>3. killed' \in BOOLEAN
  BY Zenon, <1>2 DEF Types, Stopping, StopContainer, StopWaitProcess, terminate, StopReturns
<1>4. \E s \in RequestStep :
        /\ pc' = [pc EXCEPT ![t] = s]
        /\ \/ /\ pc[t] = "idle" /\ state = "RUNNING" /\ s = "wait"
              /\ arg' = [arg EXCEPT ![t] = run] /\ wpc' = wpc
           \/ /\ pc[t] = "wait" /\ s = "term" /\ arg' = arg
              /\ \E q \in {"wait", "broken"} : wpc' = [wpc EXCEPT ![t] = q]
           \/ /\ pc[t] \in {"term", "waiting"} /\ s \in {"term", "waiting", "done"}
              /\ arg' = arg /\ wpc' = wpc
           \/ /\ pc[t] = "waiting" /\ wpc[t] = "exited" /\ s = "ok"
              /\ arg' = arg /\ wpc' = wpc
  <2>1. CASE StopContainer(t)
    BY <2>1 DEF StopContainer
  <2>2. CASE StopWaitProcess(t)
    BY Zenon, <2>2 DEF StopWaitProcess
  <2>3. CASE terminate(t)
    <3>1. PICK s \in {"waiting", "done", "term"} : pc' = [pc EXCEPT ![t] = s]
      BY Zenon, <2>3 DEF terminate
    <3>2. QED BY Zenon, <2>3, <3>1 DEF terminate
  <2>4. CASE StopReturns(t)
    BY <2>4 DEF StopReturns
  <2>5. QED BY <2>1, <2>2, <2>3, <2>4 DEF Stopping
<1>5. /\ wpc' \in [Waiters -> WaitStep] /\ pc' \in [Requests -> RequestStep]
      /\ arg' \in [Requests -> Nat]
      /\ \A u \in Waiters : u # t => wpc'[u] = wpc[u]
      /\ \A u \in Requests : u # t => pc'[u] = pc[u] /\ arg'[u] = arg[u]
      /\ \/ /\ pc[t] = "idle" /\ state = "RUNNING" /\ arg'[t] = run /\ pc'[t] = "wait"
            /\ wpc'[t] = wpc[t]
         \/ /\ pc[t] = "wait" /\ arg'[t] = arg[t] /\ pc'[t] = "term"
            /\ wpc'[t] \in {"wait", "broken"}
         \/ /\ pc[t] \in {"term", "waiting"} /\ arg'[t] = arg[t] /\ wpc'[t] = wpc[t]
            /\ pc'[t] \in {"term", "waiting", "done"}
         \/ /\ pc[t] = "waiting" /\ wpc[t] = "exited" /\ arg'[t] = arg[t] /\ wpc'[t] = wpc[t]
            /\ pc'[t] = "ok"
  <2>1. /\ wpc \in [Waiters -> WaitStep] /\ pc \in [Requests -> RequestStep]
        /\ arg \in [Requests -> Nat] /\ run \in Nat
    BY <1>2 DEF Types
  <2>2. QED BY <1>2, <1>4, <2>1
<1>6. Types'
  BY Zenon, <1>1, <1>2, <1>3, <1>5 DEF Types
<1>7. /\ \A u \in Starters : pc'[u] = pc[u] /\ arg'[u] = arg[u]
      /\ \A u \in Runs : wpc'[u] = wpc[u]
  BY <1>2, <1>5
<1>8. RunsCounted'
  BY ZenonT(40), <1>1, <1>7, NoRunBegins DEF CInv
<1>9. Watched'
  BY <1>1, <1>2, <1>7 DEF CInv, Watched
<1>10. Processes' /\ Codes'
  BY <1>1, <1>2, <1>7 DEF CInv, Processes, Codes
<1>11. Stops'
  <2>1. state = "RUNNING" => run \in 1..run
    BY <1>2 DEF CInv, Types, Watched
  <2>2. \A u \in Stoppers : u # t => pc'[u] = pc[u] /\ arg'[u] = arg[u] /\ wpc'[u] = wpc[u]
    BY Zenon, <1>5
  <2>3. QED BY <1>1, <1>5, <1>7, <2>1, <2>2 DEF CInv, Stops
<1>12. QED BY <1>6, <1>8, <1>9, <1>10, <1>11 DEF CInv

-----------------------------------------------------------------------------
(* The sandbox. *)

\* The process ends: everyone who waits hears of the last run.
LEMMA ProcessExitInv ==
  ASSUME CInv, ProcessExit
  PROVE  CInv'
<1> USE DEF statusVars, ioVars, podVars, waitVars, reqVars
<1>1. /\ UNCHANGED <<state, run, exitCode, vm>> /\ proc # 0 /\ proc' = 0
  BY DEF ProcessExit
<1>2. Types /\ run \in Runs
  BY RunInRuns DEF CInv
<1>3. /\ pc' \in [Requests -> RequestStep] /\ arg' \in [Requests -> Nat]
      /\ \A t \in Starters \cup Stoppers : pc'[t] = pc[t] /\ arg'[t] = arg[t]
  BY <1>2, CopiesReturn DEF ProcessExit
<1>4. /\ proc = run /\ vm /\ state = "RUNNING" /\ wpc[run] \in {"new", "wait"}
      /\ \A t \in Starters : pc[t] \notin {"log", "vm"}
  BY <1>1, <1>2 DEF CInv, Processes, Watched
<1>5. /\ wpc' = [w \in Waiters |-> IF wpc[w] = "wait" THEN "exited" ELSE wpc[w]]
      /\ result' = [w \in Waiters |-> IF wpc[w] = "wait" THEN run ELSE result[w]]
  BY <1>4 DEF ProcessExit, Tell
<1>6. wpc' \in [Waiters -> WaitStep] /\ result' \in [Waiters -> Nat]
  BY <1>2, <1>5 DEF Types
<1>7. Types'
  BY <1>1, <1>2, <1>3, <1>6 DEF Types, ProcessExit
<1>8. RunsCounted'
  BY <1>1, <1>3, NoRunBegins DEF CInv
<1>9. \A w \in Runs : /\ Watching(w)' <=> Watching(w)
                      /\ wpc'[w] = "none" <=> wpc[w] = "none"
                      /\ wpc'[w] = "exited" => result'[w] = run
  BY <1>5 DEF CInv, Watched
<1>10. Watched'
  BY <1>1, <1>2, <1>3, <1>9 DEF CInv, Watched
<1>11. Processes' /\ Codes'
  BY Zenon, <1>1, <1>3, <1>4 DEF CInv, Processes, Codes
<1>12. Stops'
  <2>1. \A w \in Waiters : /\ wpc'[w] = "none" <=> wpc[w] = "none"
                           /\ wpc'[w] = "exited" <=> wpc[w] \in {"exited", "wait"}
    BY <1>5
  <2>2. \A u \in Stoppers : wpc[u] # "none" => arg[u] \in 1..run
    BY DEF CInv, Stops
  <2>3. QED BY <1>1, <1>3, <1>4, <2>1, <2>2 DEF CInv, Stops
<1>13. QED BY <1>7, <1>8, <1>10, <1>11, <1>12 DEF CInv

\* The sandbox exits: nothing is started in it any more.
LEMMA VmExitInv ==
  ASSUME CInv, VmExit
  PROVE  CInv'
<1> USE DEF statusVars, ioVars, podVars, waitVars, reqVars
<1>1. /\ UNCHANGED <<state, run, exitCode, result>> /\ vm' = FALSE /\ proc' = 0
      /\ wpc' = [w \in Waiters |-> IF wpc[w] = "wait" THEN "broken" ELSE wpc[w]]
  BY DEF VmExit
<1>2. Types /\ run \in Runs
  BY RunInRuns DEF CInv
<1>3. /\ pc' \in [Requests -> RequestStep] /\ arg' \in [Requests -> Nat]
      /\ \A t \in Starters \cup Stoppers : pc'[t] = pc[t] /\ arg'[t] = arg[t]
  BY <1>2, CopiesReturn DEF VmExit
<1>4. wpc' \in [Waiters -> WaitStep]
  BY <1>1, <1>2 DEF Types
<1>5. vm' \in BOOLEAN /\ ~vm'
  BY Zenon, <1>1
<1>6. Types'
  BY <1>1, <1>2, <1>3, <1>4, <1>5 DEF Types, VmExit
<1>7. RunsCounted'
  BY <1>1, <1>3, NoRunBegins DEF CInv
<1>8. \A w \in Runs : /\ Watching(w)' <=> Watching(w)
                      /\ wpc'[w] = "none" <=> wpc[w] = "none"
                      /\ wpc'[w] = "exited" <=> wpc[w] = "exited"
  BY <1>1
<1>9. Watched'
  BY <1>1, <1>2, <1>3, <1>8 DEF CInv, Watched
<1>10. Processes'
  BY <1>1, <1>5 DEF Processes
<1>11. Codes'
  BY <1>1 DEF CInv, Codes
<1>12. Stops'
  <2>1. \A w \in Waiters : /\ wpc'[w] = "none" <=> wpc[w] = "none"
                           /\ wpc'[w] = "exited" <=> wpc[w] = "exited"
    BY <1>1
  <2>2. \A u \in Stoppers : wpc[u] # "none" => arg[u] \in 1..run
    BY DEF CInv, Stops
  <2>3. QED BY <1>1, <1>3, <1>5, <2>1, <2>2 DEF CInv, Stops
<1>13. QED BY <1>6, <1>7, <1>9, <1>10, <1>11, <1>12 DEF CInv

\* A step of an exec leaves the container as it is.
LEMMA ExecLeavesContainer ==
  ASSUME ExecNext
  PROVE  UNCHANGED vars
<1>1. CASE CreateExec \/ DeleteExec \/ ExecExit
  BY <1>1 DEF CreateExec, DeleteExec, ExecExit
<1>2. CASE ExecProgress
  BY <1>2 DEF ExecProgress, Drain, AddProcess, StartExecReturns, ExecGoroutine, WaitExec,
              SetExitCode, SendFin, TakeFin, GiveBack, AskTimeout
<1>3. CASE \E e \in ExecStarters : StartExec(e)
  BY <1>3 DEF StartExec
<1>4. CASE \E x \in ExecAskers : GetExecExitCode(x)
  BY <1>4 DEF GetExecExitCode
<1>5. QED BY <1>1, <1>2, <1>3, <1>4 DEF ExecNext

\* Each step of the container keeps the invariant.
LEMMA StepsInv ==
  ASSUME CInv, Steps
  PROVE  CInv'
<1>1. CASE Create \/ Created \/ ProcessExit \/ Cleanup
  BY <1>1, CreateInv, ProcessExitInv, CleanupInv
<1>2. CASE \E w \in Runs : WaitFinish(w)
  BY <1>2, WaitInv, StoppedInv DEF WaitFinish
<1>3. CASE \E t \in Starters : ContainerStart(t) \/ Starting(t)
  BY <1>3, ContainerStartInv, StartInv, startLoggingInv, StartContainerInv DEF Starting
<1>4. CASE \E t \in Stoppers : StopContainer(t) \/ Stopping(t)
  BY <1>4, StoppingInv
<1>5. CASE \/ \E t \in Killers : KillContainer(t) \/ setKill(t)
           \/ \E t \in Attachers : Attach(t)
           \/ \E t \in Attachers \cup Loggers : AttachStreams(t)
           \/ \E t \in Askers : GetExitCode(t) \/ ExitCodeIs(t)
  BY <1>5, OthersInv
<1>6. QED BY <1>1, <1>2, <1>3, <1>4, <1>5 DEF Steps

\* The inductive invariant of a container with an exec.
THEOREM ContainerInvariance == ASSUME FoundRight PROVE PodSpec => []CInv
<1>1. PodInit => CInv
  BY ContainerInit
<1>2. CInv /\ [PodNext]_<<vars, execVars>> => CInv'
  <2>1. SUFFICES ASSUME CInv, [PodNext]_<<vars, execVars>>
                 PROVE  CInv'
    OBVIOUS
  <2>2. CASE ExecNext \/ UNCHANGED <<vars, execVars>>
    BY <2>1, <2>2, ExecLeavesContainer, CleanupInv
  <2>3. CASE Steps
    BY <2>1, <2>3, StepsInv
  <2>4. CASE SandboxExit
    BY <2>1, <2>4, VmExitInv DEF SandboxExit
  <2>5. QED BY <2>1, <2>2, <2>3, <2>4 DEF PodNext
<1>3. QED BY <1>1, <1>2, PTL DEF PodSpec

-----------------------------------------------------------------------------
(* What the runs of the container promise. *)

\* The invariant gives the counts of those who watch a run.
LEMMA WatchersCounted ==
  ASSUME CInv
  PROVE  RunsAreWatched
<1> DEFINE L == {t \in Starters : pc[t] = "log"}
           W == {w \in Runs : Watching(w)}
<1>1. Types /\ Watched /\ run \in Runs
  BY RunInRuns DEF CInv
<1>2. /\ Cardinality(L) + Cardinality(W) = IF state = "RUNNING" THEN 1 ELSE 0
      /\ Cardinality(L) <= 1
  <2>1. CASE state # "RUNNING"
    <3>1. L = {} /\ W = {}
      BY <1>1, <2>1 DEF Watched
    <3>2. Cardinality(L) = 0 /\ Cardinality(W) = 0
      BY <3>1, FS_EmptySet
    <3>3. QED BY <2>1, <3>2
  <2>2. CASE state = "RUNNING" /\ \E t \in Starters : pc[t] = "log"
    <3>1. PICK t \in Starters : pc[t] = "log"
      BY <2>2
    <3>2. L = {t} /\ W = {}
      BY <1>1, <3>1 DEF Watched
    <3>3. Cardinality(L) = 1 /\ Cardinality(W) = 0
      BY Zenon, <3>2, FS_EmptySet, FS_Singleton
    <3>4. QED BY <2>2, <3>3
  <2>3. CASE state = "RUNNING" /\ \A t \in Starters : pc[t] # "log"
    <3>1. L = {} /\ W = {run}
      BY <1>1, <2>3 DEF Watched
    <3>2. Cardinality(L) = 0 /\ Cardinality(W) = 1
      BY Zenon, <3>1, FS_EmptySet, FS_Singleton
    <3>3. QED BY <2>3, <3>2
  <2>4. QED BY <2>1, <2>2, <2>3
<1>3. OneWatcher
  BY <1>2 DEF OneWatcher
<1>4. ExitCodeOfLastRun
  BY DEF CInv, Codes, ExitCodeOfLastRun
<1>5. TypeOK
  <2>1. run \in Runs /\ exitCode \in Runs /\ proc \in Runs
    BY <1>1, RunsAre DEF CInv, Types, Codes, Processes
  <2>2. {killed, alive, vm, added, crashed} \subseteq BOOLEAN
    BY <1>1 DEF Types
  <2>3. streams \in 0..gens /\ gens \in 0..MaxStreams /\ tty \in 0..gens
    BY <1>1 DEF Types
  <2>4. \A w \in Runs : wpc[w] \in WaitStep
    BY <1>1 DEF Types
  <2>5. QED BY <1>1, <1>2, <2>1, <2>2, <2>3, <2>4 DEF Types, TypeOK
<1>6. QED BY <1>3, <1>4, <1>5 DEF RunsAreWatched

\* However many requests start, stop, kill and ask for a container, it is RUNNING exactly while
\* one thread will see the end of its run, and its exit code is that of its last run
\* (ContainerStart, waitFinish, ContainerStatus.Stopped).
THEOREM EachRunIsWatched == ASSUME FoundRight PROVE PodSpec => []RunsAreWatched
<1>1. CInv => RunsAreWatched
  BY WatchersCounted
<1>2. QED BY <1>1, ContainerInvariance, PTL

\* A StopContainer that returns without an error has seen the end of the run that it was asked to
\* stop, and nothing starts that run again (stopContainers, StartContainer).
THEOREM StopIsTrue == ASSUME FoundRight PROVE PodSpec => []StopMeansExited
<1>1. CInv => StopMeansExited
  BY DEF CInv, Stops, StopMeansExited
<1>2. QED BY <1>1, ContainerInvariance, PTL
=============================================================================
