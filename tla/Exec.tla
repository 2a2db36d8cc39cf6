-------------------------------- MODULE Exec --------------------------------
(***************************************************************************)
(* An exec in the container: CreateExec, StartExec with the goroutine that *)
(* waits for the end of the process, and GetExecExitCode, which borrows    *)
(* the token of finChan (daemon/pod/exec.go).  The container and the       *)
(* sandbox are those of Container.                                         *)
(***************************************************************************)
EXTENDS Container

CONSTANTS
  ExecStarters,   \* calls of StartExec
  ExecAskers      \* calls of GetExecExitCode

VARIABLES
  exec,           \* the exec in p.execs: "none", "listed", "deleted"
  finChan,        \* how many tokens it holds, at most one
  execCode,       \* ExitCode, as the StartExec whose process it is of; "255" at first
  execProc,       \* the StartExec whose process runs, or "none"
  epc,            \* of each call: next step
  gpc, heard,     \* of each StartExec: the goroutine's next step, the process that it heard of
  answer          \* what each GetExecExitCode returned, "none" before or with an error

execVars == <<exec, finChan, execCode, execProc, epc, gpc, heard, answer>>
execRest == <<exec, execCode, execProc>>
ExecCalls == ExecStarters \cup ExecAskers

\* "255" and "none" are no calls, and a call is of one kind.
ASSUME ExecAssumption ==
  /\ IsFiniteSet(ExecStarters) /\ IsFiniteSet(ExecAskers)
  /\ ExecStarters \cap (ExecAskers \cup {"255", "none"}) = {}

\* Types; the goroutine of a StartExec is there exactly when that has drained finChan.
ExecTypeOK ==
  /\ exec \in {"none", "listed", "deleted"}
  /\ finChan \in {0, 1}
  /\ execProc \in ExecStarters \cup {"none"}
  /\ execCode \in ExecStarters \cup {"255"}
  /\ \A e \in ExecStarters : (epc[e] \in {"idle", "drain", "absent"}) <=> gpc[e] = "none"

ExecFirst(made) ==
  /\ exec = "none" /\ finChan = 0 /\ execCode = "255" /\ execProc = "none"
  /\ epc = [t \in ExecCalls |-> IF t \in made THEN "idle" ELSE "absent"]
  /\ gpc = [e \in ExecStarters |-> "none"]
  /\ heard = [e \in ExecStarters |-> "none"]
  /\ answer = [x \in ExecAskers |-> "none"]

ExecGo(t, step) == epc' = [epc EXCEPT ![t] = step]

\* CreateExec, in a container that IsAlive.
CreateExec ==
  /\ exec = "none" /\ state \in {"RUNNING", "CREATED", "CREATING"}
  /\ \E t \in ExecCalls : epc[t] # "absent"
  /\ exec' = "listed"
  /\ UNCHANGED <<vars, finChan, execCode, execProc, epc, gpc, heard, answer>>

\* DeleteExec, or CleanupExecs.
DeleteExec ==
  /\ exec = "listed" /\ exec' = "deleted"
  /\ UNCHANGED <<vars, finChan, execCode, execProc, epc, gpc, heard, answer>>

-----------------------------------------------------------------------------
(* StartExec. *)

StartExec(e) ==
  /\ epc[e] = "idle" /\ exec = "listed"
  /\ ExecGo(e, "drain")
  /\ UNCHANGED <<vars, execRest, finChan, gpc, heard, answer>>

\* The channel is drained; then the goroutine is started.
Drain(e) ==
  /\ epc[e] = "drain"
  /\ finChan' = 0
  /\ ExecGo(e, "add") /\ gpc' = [gpc EXCEPT ![e] = "new"]
  /\ UNCHANGED <<vars, execRest, heard, answer>>

\* AddProcess; when it fails nobody closes the input that StartExec waits for ("hang").
AddProcess(e) ==
  /\ epc[e] = "add"
  /\ \/ vm /\ execProc = "none" /\ execProc' = e /\ ExecGo(e, "copy")
     \/ ExecGo(e, "hang") /\ UNCHANGED execProc
  /\ UNCHANGED <<vars, exec, execCode, finChan, gpc, heard, answer>>

StartExecReturns(e) ==
  /\ epc[e] = "copy" /\ execProc # e
  /\ ExecGo(e, "done")
  /\ UNCHANGED <<vars, execRest, finChan, gpc, heard, answer>>

\* The goroutine: WaitProcess, the exit code, and then the token, unless there is one.
WaitExec(e) ==
  /\ gpc[e] = "new"
  /\ gpc' = [gpc EXCEPT ![e] = IF vm THEN "wait" ELSE "done"]
  /\ UNCHANGED <<vars, execRest, finChan, epc, heard, answer>>

\* Mutant: the exit code is not recorded.
BugSetExitCode(e) ==
  /\ gpc[e] = "exited"
  /\ gpc' = [gpc EXCEPT ![e] = "send"]
  /\ UNCHANGED <<vars, execRest, finChan, epc, heard, answer>>

SetExitCode(e) ==
  /\ gpc[e] = "exited"
  /\ execCode' = heard[e]
  /\ gpc' = [gpc EXCEPT ![e] = "send"]
  /\ UNCHANGED <<vars, exec, execProc, finChan, epc, heard, answer>>

SendFin(e) ==
  /\ gpc[e] = "send"
  /\ finChan' = 1
  /\ gpc' = [gpc EXCEPT ![e] = "done"]
  /\ UNCHANGED <<vars, execRest, epc, heard, answer>>

-----------------------------------------------------------------------------
(* GetExecExitCode takes the token and gives it back; it waits ten seconds for it. *)

GetExecExitCode(x) ==
  /\ epc[x] = "idle" /\ exec = "listed"
  /\ ExecGo(x, "ask")
  /\ UNCHANGED <<vars, execRest, finChan, gpc, heard, answer>>

TakeFin(x) ==
  /\ epc[x] = "ask" /\ finChan = 1
  /\ finChan' = 0
  /\ ExecGo(x, "giveback")
  /\ UNCHANGED <<vars, execRest, gpc, heard, answer>>

GiveBack(x) ==
  /\ epc[x] = "giveback" /\ finChan = 0
  /\ finChan' = 1
  /\ answer' = [answer EXCEPT ![x] = execCode]
  /\ ExecGo(x, "done")
  /\ UNCHANGED <<vars, execRest, gpc, heard>>

AskTimeout(x) ==
  /\ epc[x] = "ask"
  /\ ExecGo(x, "done")
  /\ UNCHANGED <<vars, execRest, finChan, gpc, heard, answer>>

-----------------------------------------------------------------------------
(* The sandbox: everyone who waits for the exec hears of its end, or of that of the sandbox. *)

ExecExit ==
  /\ execProc # "none" /\ execProc' = "none"
  /\ gpc' = [e \in ExecStarters |-> IF gpc[e] = "wait" THEN "exited" ELSE gpc[e]]
  /\ heard' = [e \in ExecStarters |-> IF gpc[e] = "wait" THEN execProc ELSE heard[e]]
  /\ UNCHANGED <<vars, exec, execCode, finChan, epc, answer>>

SandboxExit ==
  /\ VmExit
  /\ execProc' = "none"
  /\ gpc' = [e \in ExecStarters |-> IF gpc[e] = "wait" THEN "done" ELSE gpc[e]]
  /\ UNCHANGED <<exec, execCode, finChan, epc, heard, answer>>

ExecGoroutine(e) == WaitExec(e) \/ SetExitCode(e) \/ SendFin(e)
ExecProgress ==
  \/ \E e \in ExecStarters : Drain(e) \/ AddProcess(e) \/ StartExecReturns(e) \/ ExecGoroutine(e)
  \/ \E x \in ExecAskers : TakeFin(x) \/ GiveBack(x) \/ AskTimeout(x)

ExecNext ==
  /\ ~crashed
  /\ \/ CreateExec \/ DeleteExec \/ ExecProgress \/ ExecExit
     \/ \E e \in ExecStarters : StartExec(e)
     \/ \E x \in ExecAskers : GetExecExitCode(x)

\* The container and its execs.
PodInit == \E sc \in Scenarios : Starts(sc) /\ ExecFirst(sc.made)
PodNext == ExecNext \/ (~crashed /\ Steps /\ UNCHANGED execVars) \/ (~crashed /\ SandboxExit)
PodSpec == PodInit /\ [][PodNext]_<<vars, execVars>>
PodFair == PodSpec /\ Fairness

-----------------------------------------------------------------------------
(* Properties. *)

\* GetExecExitCode never returns the 255 of an exec that has not ended.
AnswerIsReal == \A x \in ExecAskers : answer[x] # "255"

\* The tokens, in finChan and in the hands of GetExecExitCode, are never more than the
\* goroutines that sent one: in an exec that is started once no one who gives the token back
\* finds the channel full, which would block them for ever.
TokensAreSent ==
  finChan + Cardinality({x \in ExecAskers : epc[x] = "giveback"})
    <= Cardinality({e \in ExecStarters : gpc[e] = "done"})

\* An exec is answered for as it ended: the code is real, the tokens are conserved, and the
\* variables have their types (exec.go).
ExecIsAnswered == ExecTypeOK /\ AnswerIsReal /\ TokensAreSent
=============================================================================
