------------------------------ MODULE Hyperctl ------------------------------
(***************************************************************************)
(* The commands of hyperctl (client/*.go over client/api): what one        *)
(* command does from its first request to the exit status of the process,  *)
(* with the deferred calls, the goroutine of an attach, and the channels   *)
(* between hijackRequest and hijack.  The daemon is seen through the       *)
(* answers it gives; the container ends when it likes, and another client  *)
(* may remove the pod.                                                     *)
(***************************************************************************)
EXTENDS Naturals, Sequences, SequencesExt

CONSTANTS Commands, Codes, CtlFaults, Failed, None

VARIABLES
  cmd,       \* the command line: [kind, rm, attach, tty, args]
  pc,        \* where the command is; "done" when the process exits
  status,    \* what is returned: an exit code, or Failed for an error
  todo,      \* arguments a loop has not come to
  defers,    \* deferred calls, the last one first to run
  raw,       \* the terminal is in raw mode
  image,     \* the image is on the host
  pod,       \* "none", "created", "running", "gone"
  ctr, proc, \* the container's process and the exec'd one: [phase, code]
  waiter,    \* hijackRequest: "none", "select", "wait", "leaving", "returned", "failed"
  hj,        \* hijack: "none", "dialing", "offering", "copying", "over"
  started,   \* the channel between them is still open
  errCh,     \* what hijack returned
  conn,      \* the stream in the daemon: "none", "on", "refused", "late"
  rmFailed

ctlVars == <<cmd, pc, status, todo, defers, raw, image, pod, ctr, proc, waiter, hj, started, errCh, conn, rmFailed>>
world == <<image, pod, ctr, proc>>
stream == <<waiter, hj, started, errCh, conn>>

Fresh == [phase |-> "idle", code |-> 0]
Ran(phase, code) == [phase |-> phase, code |-> code]
Killed(r) == IF r.phase = "running" THEN [r EXCEPT !.phase = "exited"] ELSE r

CtlInit ==
  /\ cmd \in Commands
  /\ pc = "begin" /\ status = None /\ todo = cmd.args /\ defers = <<>> /\ raw = FALSE
  /\ image \in BOOLEAN
  /\ IF cmd.kind \in {"run", "create"} THEN pod = "none" /\ ctr = Fresh
     ELSE pod = "running" /\ ctr \in {Ran("running", 0)} \cup {Ran("exited", n) : n \in Codes}
  /\ proc = Fresh
  /\ waiter = "none" /\ hj = "none" /\ started = TRUE /\ errCh = None /\ conn = "none"
  /\ rmFailed = FALSE

Goto(l) == pc' = l /\ UNCHANGED <<status, raw, defers>>
Ret(s) == pc' = "deferred" /\ status' = s /\ UNCHANGED <<raw, defers>>
Refuses == "daemon" \in CtlFaults

\* ParseArgs and ParseCommonOptions: a mistake ends the command, a request for help too.
ParseCommonOptions ==
  /\ pc = "begin"
  /\ \/ Goto(CASE cmd.kind \in {"run", "create"} -> "create" [] cmd.kind \in {"stop", "rm", "kill"} -> "loop"
               [] cmd.kind \in {"start", "pause", "unpause"} -> "one" [] OTHER -> "lookup")
     \/ "usage" \in CtlFaults /\ \E s \in {0, Failed} : Ret(s)
  /\ UNCHANGED <<cmd, todo, world, stream, rmFailed>>

\* An image that is not there is answered with 404; it is pulled and the creation tried once more.
CreatePod ==
  /\ pc \in {"create", "again"}
  /\ \/ /\ image /\ pod' = "created" /\ ctr' = Fresh
        /\ IF cmd.kind = "run" THEN Goto("created") ELSE Ret(0)
     \/ /\ ~image \/ Refuses
        /\ IF ~image /\ pc = "create" THEN Goto("pull") ELSE Ret(Failed)
        /\ UNCHANGED <<pod, ctr>>
  /\ UNCHANGED <<cmd, todo, image, proc, stream, rmFailed>>

\* requestWithLogin: a registry that wants a login is asked a second time after one.
PullImage ==
  /\ pc = "pull"
  /\ \/ image' = TRUE /\ Goto("again")
     \/ Refuses /\ UNCHANGED image /\ (Goto("login") \/ Ret(Failed))
  /\ UNCHANGED <<cmd, todo, pod, ctr, proc, stream, rmFailed>>

requestWithLogin ==
  /\ pc = "login"
  /\ \/ image' = TRUE /\ Goto("again")
     \/ Refuses /\ UNCHANGED image /\ Ret(Failed)
  /\ UNCHANGED <<cmd, todo, pod, ctr, proc, stream, rmFailed>>

\* Mutant: --rm is taken care of once the pod has started.
BugDeferRm ==
  /\ pc = "created"
  /\ pc' = (IF cmd.attach THEN "lookup" ELSE "startpod")
  /\ UNCHANGED <<cmd, status, todo, raw, defers, world, stream, rmFailed>>

DeferRm ==
  /\ pc = "created"
  /\ defers' = IF cmd.rm THEN <<"rm">> ELSE <<>>
  /\ pc' = (IF cmd.attach THEN "lookup" ELSE "startpod")
  /\ UNCHANGED <<cmd, status, todo, raw, world, stream, rmFailed>>

\* Before the streams: GetPodInfo or GetContainerInfo for run and attach, CreateExec for exec; then the
\* terminal is made raw, and hijackRequest begins, in a goroutine for run.
SetRawTerminal ==
  IF cmd.tty THEN raw' = TRUE /\ defers' = Append(defers, "restore") ELSE UNCHANGED <<raw, defers>>

Lookup ==
  /\ pc = "lookup"
  /\ \/ /\ pod # "gone" \/ cmd.kind = "execvm"
        /\ pc' = (IF cmd.kind = "run" THEN "startpod" ELSE "await") /\ UNCHANGED status
        /\ IF cmd.kind = "execvm" THEN UNCHANGED <<raw, defers>> ELSE SetRawTerminal
        /\ waiter' = "select" /\ hj' = "dialing" /\ UNCHANGED <<started, errCh, conn>>
     \/ /\ \/ cmd.kind # "execvm" /\ (pod = "gone" \/ Refuses)
           \/ cmd.tty /\ "tty" \in CtlFaults
        /\ Ret(Failed) /\ UNCHANGED stream
  /\ UNCHANGED <<cmd, todo, world, rmFailed>>

StartPod ==
  /\ pc = "startpod"
  /\ \/ /\ pod = "created" /\ pod' = "running" /\ ctr' = Ran("running", 0)
        /\ IF cmd.attach THEN Goto("await") ELSE Ret(0)
     \/ (pod = "gone" \/ Refuses) /\ Ret(Failed) /\ UNCHANGED <<pod, ctr>>
  /\ UNCHANGED <<cmd, todo, image, proc, stream, rmFailed>>

\* run does not look at what its attach returned; execvm asks for no exit code.
Await ==
  /\ pc = "await" /\ waiter \in {"returned", "failed"}
  /\ IF waiter = "failed" /\ cmd.kind # "run" THEN Ret(Failed)
     ELSE IF cmd.kind = "execvm" THEN Ret(0) ELSE Goto("exitcode")
  /\ UNCHANGED <<cmd, todo, world, stream, rmFailed>>

Wanted == IF cmd.kind = "exec" THEN proc ELSE ctr

\* Mutant: the answer is not waited for.
BugGetExitCode ==
  /\ pc = "exitcode"
  /\ IF pod = "gone" THEN Ret(Failed) ELSE Ret(IF ctr.phase = "running" THEN 0 ELSE ctr.code)
  /\ UNCHANGED <<cmd, todo, world, stream, rmFailed>>

\* With a terminal the container's state is read and nothing waited for; without, /exitcode answers when the
\* container is not running, or when the exec is over; for that it waits ten seconds.
GetExitCode ==
  /\ pc = "exitcode"
  /\ \/ pod = "gone" /\ Ret(Failed)
     \/ pod # "gone" /\ cmd.tty /\ Ret(IF ctr.phase = "running" THEN 0 ELSE ctr.code)
     \/ /\ pod # "gone" /\ ~cmd.tty
        /\ IF cmd.kind = "exec" THEN proc.phase = "exited" ELSE ctr.phase # "running"
        /\ Ret(Wanted.code)
     \/ cmd.kind = "exec" /\ ~cmd.tty /\ proc.phase # "exited" /\ Ret(Failed)
  /\ UNCHANGED <<cmd, todo, world, stream, rmFailed>>

\* stop, rm and kill go through their arguments, print what fails, and return nil.
EachArgument ==
  /\ pc = "loop"
  /\ IF todo = <<>> THEN Ret(0) /\ UNCHANGED todo ELSE todo' = Tail(todo) /\ Goto("loop")
  /\ UNCHANGED <<cmd, world, stream, rmFailed>>

HyperCmdStop == cmd.kind = "stop" /\ EachArgument
HyperCmdRm == cmd.kind = "rm" /\ EachArgument
HyperCmdKill == cmd.kind = "kill" /\ EachArgument

\* start, pause and unpause return the error.
OneRequest ==
  /\ pc = "one" /\ \/ Ret(0)
                   \/ Refuses /\ Ret(Failed)
  /\ UNCHANGED <<cmd, todo, world, stream, rmFailed>>

HyperCmdStart == cmd.kind = "start" /\ OneRequest
HyperCmdPause == cmd.kind = "pause" /\ OneRequest
HyperCmdUnpause == cmd.kind = "unpause" /\ OneRequest

RestoreTerminal ==
  /\ pc = "deferred" /\ defers # <<>> /\ Last(defers) = "restore"
  /\ defers' = Front(defers) /\ raw' = FALSE
  /\ UNCHANGED <<cmd, pc, status, todo, world, stream, rmFailed>>

RmPod ==
  /\ pc = "deferred" /\ defers # <<>> /\ Last(defers) = "rm"
  /\ defers' = Front(defers)
  /\ \/ pod # "gone" /\ pod' = "gone" /\ ctr' = Killed(ctr) /\ UNCHANGED rmFailed
     \/ (pod = "gone" \/ Refuses) /\ rmFailed' = TRUE /\ UNCHANGED <<pod, ctr>>
  /\ UNCHANGED <<cmd, pc, status, todo, raw, image, proc, stream>>

\* main: the process ends, with the status of the error.
Exit ==
  /\ pc = "deferred" /\ defers = <<>> /\ pc' = "done"
  /\ UNCHANGED <<cmd, status, todo, defers, raw, world, stream, rmFailed>>

--------------------------------------------------------------------------
(* hijackRequest, hijack, and the handler in the daemon.                   *)

Living == pc # "done"
Over(e) == hj' = "over" /\ errCh' = e

\* Mutant: the channel is closed at the end of a hijack that worked.
BugDial ==
  /\ Living /\ hj = "dialing"
  /\ \/ hj' = "offering" /\ UNCHANGED <<started, errCh>>
     \/ "net" \in CtlFaults /\ Over("error") /\ UNCHANGED started
  /\ UNCHANGED <<cmd, pc, status, todo, defers, raw, world, waiter, conn, rmFailed>>

\* Whatever happens, hijack closes the channel as it returns; an error of Do is only printed.
Dial ==
  /\ Living /\ hj = "dialing"
  /\ \/ hj' = "offering" /\ UNCHANGED <<started, errCh>>
     \/ "net" \in CtlFaults /\ Over("error") /\ started' = FALSE
  /\ UNCHANGED <<cmd, pc, status, todo, defers, raw, world, waiter, conn, rmFailed>>

Acknowledge ==
  /\ Living /\ waiter = "select"
  /\ \/ hj = "offering" /\ hj' = "copying" /\ waiter' = "wait" /\ UNCHANGED errCh
     \/ ~started /\ waiter' = "wait" /\ UNCHANGED <<hj, errCh>>
     \/ errCh # None /\ waiter' = "leaving" /\ UNCHANGED <<hj, errCh>>
  /\ UNCHANGED <<cmd, pc, status, todo, defers, raw, world, started, conn, rmFailed>>

\* It returns what hijack returned, once the channel is closed.
HijackReturns ==
  /\ Living
  /\ \/ waiter = "wait" /\ errCh # None /\ waiter' = "leaving"
     \/ waiter = "leaving" /\ ~started /\ waiter' = IF errCh = "error" THEN "failed" ELSE "returned"
  /\ UNCHANGED <<cmd, pc, status, todo, defers, raw, world, hj, started, errCh, conn, rmFailed>>

\* The daemon's handler.  An attach to a container that has ended is given the streams of its next run, and an
\* exec whose process cannot be added waits for the end of a stdin that nobody reads.
ServeStream ==
  /\ hj = "copying" /\ conn = "none"
  /\ conn' = IF pod = "gone" THEN "refused"
             ELSE IF cmd.kind # "execvm" /\ ctr.phase = "exited" THEN "late" ELSE "on"
  /\ proc' = IF conn' = "on" /\ cmd.kind \in {"exec", "execvm"} THEN Ran("running", 0) ELSE proc
  /\ UNCHANGED <<cmd, pc, status, todo, defers, raw, image, pod, ctr, waiter, hj, started, errCh, rmFailed>>

StreamEnds ==
  /\ Living /\ hj = "copying"
  /\ \/ conn = "refused" /\ Over("nil")
     \/ conn = "on" /\ (IF cmd.kind \in {"exec", "execvm"} THEN proc ELSE ctr).phase = "exited" /\ Over("nil")
     \/ "net" \in CtlFaults /\ Over("error")
  /\ started' = FALSE
  /\ UNCHANGED <<cmd, pc, status, todo, defers, raw, world, waiter, conn, rmFailed>>

--------------------------------------------------------------------------
(* The world outside.                                                      *)

ContainerExits ==
  /\ ctr.phase = "running" /\ \E n \in Codes : ctr' = Ran("exited", n)
  /\ UNCHANGED <<cmd, pc, status, todo, defers, raw, image, pod, proc, stream, rmFailed>>

ExecExits ==
  /\ proc.phase = "running" /\ \E n \in Codes : proc' = Ran("exited", n)
  /\ UNCHANGED <<cmd, pc, status, todo, defers, raw, image, pod, ctr, stream, rmFailed>>

OtherRemoves ==
  /\ "other" \in CtlFaults /\ Living /\ pod \in {"created", "running"}
  /\ pod' = "gone" /\ ctr' = Killed(ctr) /\ proc' = Killed(proc)
  /\ UNCHANGED <<cmd, pc, status, todo, defers, raw, image, stream, rmFailed>>

Command ==
  \/ ParseCommonOptions \/ CreatePod \/ PullImage \/ requestWithLogin \/ DeferRm \/ Lookup \/ StartPod \/ Await
  \/ GetExitCode \/ HyperCmdStop \/ HyperCmdRm \/ HyperCmdKill \/ HyperCmdStart \/ HyperCmdPause \/ HyperCmdUnpause
  \/ RestoreTerminal \/ RmPod \/ Exit

Hijack == Dial \/ Acknowledge \/ HijackReturns \/ ServeStream \/ StreamEnds

CtlNext == Command \/ Hijack \/ ContainerExits \/ ExecExits \/ OtherRemoves

CtlSpec == CtlInit /\ [][CtlNext]_ctlVars

\* The command and its goroutines run, the daemon answers, and processes end.
CtlFair ==
  CtlSpec /\ WF_ctlVars(Command) /\ WF_ctlVars(Hijack) /\ WF_ctlVars(ContainerExits) /\ WF_ctlVars(ExecExits)

--------------------------------------------------------------------------
(* Properties.                                                             *)

\* Whatever made it return, hyperctl leaves the terminal as it found it, and "run --rm" leaves no pod behind
\* unless the daemon failed to remove it (client/run.go, exec.go, attach.go).
LeavesNothingBehind ==
  pc = "done" =>
    /\ ~raw
    /\ cmd.kind = "run" /\ cmd.rm /\ pod \in {"created", "running"} => rmFailed

\* A run or an exec without a terminal exits with the code of its process: with 0 only if that process ran
\* and ended with 0 (client/api/misc.go).
ExitStatusTells ==
  pc = "done" /\ status \in Codes /\ ~cmd.tty
    /\ (cmd.kind = "exec" \/ (cmd.kind = "run" /\ cmd.attach)) /\ conn # "none"
    => Wanted.phase = "exited" /\ (pod # "gone" => status = Wanted.code)

\* Every command ends, whichever of the steps of hijackRequest and hijack comes first and whatever fails,
\* except an attach or an exec that reached the daemon after the container had ended (client/api/hijack.go).
CommandEnds == <>(pc = "done" \/ conn = "late")
=============================================================================
