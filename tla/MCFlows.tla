------------------------------ MODULE MCFlows ------------------------------
(***************************************************************************)
(* What goes on around a request, in three parts that share nothing here:  *)
(* the buffer of container creations, a call that streams, and a command   *)
(* of hyperctl.  A behaviour is one of the three.                          *)
(***************************************************************************)
EXTENDS Buffer, Streams

CONSTANTS Failed, None

VARIABLES part,
  cmd, pc, exitStatus, args, defers, raw, image, target, ctr, proc, waiter, hj, started, errCh,
  conn, rmFailed

ctlVars == <<cmd, pc, exitStatus, args, defers, raw, image, target, ctr, proc, waiter, hj, started,
             errCh, conn, rmFailed>>

\* A process writes nothing, or a byte on stdout and two on stderr; a chunk holds three bytes,
\* fewer than a frame.
M(fd, n) == [fd |-> fd, data |-> [i \in 1 .. n |-> 6 + fd]]
MCOutputs == {<<>>, <<M(1, 1), M(2, 2)>>}
MCInputs == {<<>>, <<"i1">>}

Cmd(k, r, a, t, as) == [kind |-> k, rm |-> r, attach |-> a, tty |-> t, args |-> as]
MCCommands ==
  {Cmd("run", r, a, t, <<>>) : r, a, t \in BOOLEAN}
    \cup {Cmd(k, FALSE, TRUE, t, <<>>) : k \in {"exec", "attach"}, t \in BOOLEAN}
    \cup {Cmd(k, FALSE, FALSE, FALSE, <<"a", "b">>) :
            k \in {"create", "execvm", "stop", "rm", "kill", "start", "pause", "unpause"}}
C == INSTANCE Hyperctl WITH
  Commands <- MCCommands, Codes <- {0, 1}, CtlFaults <- {"daemon", "usage", "tty", "net", "other"},
  status <- exitStatus, todo <- args, pod <- target

MCInit ==
  /\ part \in {"buffer", "streams", "hyperctl"}
  /\ Init
  /\ StreamInit
  /\ part # "streams" => /\ kind = "ExecVM" /\ ~tty /\ ~found /\ wrote = <<>> /\ sends = <<>>
  /\ C!CtlInit
  /\ part # "hyperctl" => cmd = Cmd("create", FALSE, FALSE, FALSE, <<"a", "b">>) /\ image

MCNext ==
  /\ \/ part = "buffer" /\ Next /\ UNCHANGED <<streamVars, ctlVars>>
     \/ part = "streams" /\ StreamNext /\ UNCHANGED <<vars, ctlVars>>
     \/ part = "hyperctl" /\ C!CtlNext /\ UNCHANGED <<vars, streamVars>>
  /\ UNCHANGED part

\* The fairness of FairSpec, StreamFair and CtlFair.
MCSpec ==
  /\ MCInit /\ [][MCNext]_<<vars, streamVars, ctlVars, part>>
  /\ \A r \in Requests : WF_vars(part = "buffer" /\ Step(r))
  /\ WF_streamVars(part = "streams" /\ Serve)
  /\ WF_streamVars(part = "streams" /\ ProcessWrites)
  /\ WF_streamVars(part = "streams" /\ ClosesStdin)
  /\ WF_streamVars(part = "streams" /\ ClosesStdout)
  /\ WF_streamVars(part = "streams" /\ (ClientReceives \/ ClientExtracts \/ ClientEnds))
  /\ WF_ctlVars(part = "hyperctl" /\ C!Command)
  /\ WF_ctlVars(part = "hyperctl" /\ C!Hijack)
  /\ WF_ctlVars(part = "hyperctl" /\ C!ContainerExits)
  /\ WF_ctlVars(part = "hyperctl" /\ C!ExecExits)

\* hyperctl leaves the terminal as it was, and "run --rm" no pod (client/run.go).
LeavesNothingBehind == part = "hyperctl" => C!LeavesNothingBehind

\* The exit status of hyperctl is that of the process that it ran (client/api/misc.go).
ExitStatusTells == part = "hyperctl" => C!ExitStatusTells

\* Every command of hyperctl ends (client/api/hijack.go).
CommandEnds == part = "hyperctl" => C!CommandEnds
=============================================================================
