------------------------------ MODULE Streams ------------------------------
(***************************************************************************)
(* One streaming call of the gRPC front end, from the process in the        *)
(* sandbox to the client: ExecStart, ExecVM and Attach (serverrpc/exec.go,  *)
(* attach.go) and ContainerLogs (serverrpc/logs.go).                        *)
(*                                                                          *)
(* The handler makes two io.Pipes and two goroutines: one reads the output  *)
(* pipe and sends messages, one receives messages and writes the input      *)
(* pipe.  The handler itself waits in StartExec, ExecVM or Attach for the   *)
(* process to close its stdin.  Without a terminal the output carries       *)
(* frames of stdout and stderr, which the client (integration/client.go)    *)
(* takes apart with an Extractor.  Bytes are small numbers; a frame's head  *)
(* is two of them, the stream and the length, where stdcopy uses eight.     *)
(***************************************************************************)
EXTENDS Naturals, Sequences, FiniteSets, SequencesExt

CONSTANTS
  Kinds,         \* the calls: "ExecStart", "ExecVM", "Attach", "ContainerLogs"
  Outputs,       \* what processes write: sequences of [fd, data]
  Inputs,        \* what clients write: sequences of messages
  ChunkSize      \* the buffer of the goroutine that reads the output

VARIABLES
  kind, tty, found,   \* the call; whether it has a terminal; whether its target exists
  wrote,              \* what the process wrote
  todo,               \* what it has still to write
  pend,               \* the write in progress on the output pipe
  stdin, stdout,      \* "open", or "closed" once the process's ends are closed
  reader, chunk,      \* the goroutine that reads the output pipe, and what it read
  handler,            \* "waiting", "drain", "returned", "failed"
  wire,               \* messages on their way to the client
  gone,               \* the client went away
  sends, writer,      \* what the client has still to send; the goroutine that writes the input pipe
  inpipe, read,       \* the message written to the input pipe; what the process read
  orig,               \* the message the client is taking apart
  extractor, got,     \* its Extractor; what came out for each stream
  client              \* "receiving", "done", "error"

process == <<wrote, todo, stdin, stdout>>
output == <<pend, reader, chunk, wire>>
input == <<sends, writer, inpipe, read>>
receiver == <<orig, extractor, got, client>>
call == <<kind, tty, found>>
streamVars == <<call, process, output, handler, gone, input, receiver>>

Stdout == 1
Stderr == 2
PrefixLen == 2

\* With a terminal, and always for ExecVM, the bytes go out as they are.
Raw == tty \/ kind = "ExecVM"

\* stdcopy.NewStdWriter: a head, then the data.
Frame(m) == IF Raw THEN m.data ELSE <<m.fd, Len(m.data)>> \o m.data

Bytes(ms) == FlattenSeq([i \in DOMAIN ms |-> Frame(ms[i])])

\* What a stream of the client should get: everything on one stream when the bytes are raw.
DataOf(ms, fd) ==
  LET mine == IF Raw THEN (IF fd = Stdout THEN ms ELSE <<>>) ELSE SelectSeq(ms, LAMBDA m : m.fd = fd)
  IN FlattenSeq([i \in DOMAIN mine |-> mine[i].data])

NewExtractor == [readingHead |-> TRUE, head |-> <<>>, current |-> 0, remain |-> 0]

\* One turn of the loop of StdcopyExtractor.Extract; s is [x, orig, out].  The loop ends when orig is used up.
Extract(s) ==
  IF s.x.readingHead /\ Len(s.x.head) + Len(s.orig) < PrefixLen
  THEN [s EXCEPT !.x.head = @ \o s.orig, !.orig = <<>>]
  ELSE LET need == PrefixLen - Len(s.x.head)
           head == s.x.head \o SubSeq(s.orig, 1, need)
           x == IF s.x.readingHead THEN [readingHead |-> FALSE, head |-> <<>>, current |-> head[1], remain |-> head[2]]
                ELSE s.x
           rest == IF s.x.readingHead THEN SubSeq(s.orig, need + 1, Len(s.orig)) ELSE s.orig
           ml == IF Len(rest) < x.remain THEN Len(rest) ELSE x.remain
       IN [x |-> [x EXCEPT !.remain = @ - ml, !.readingHead = (ml = x.remain)],
           orig |-> SubSeq(rest, ml + 1, Len(rest)),
           out |-> [s.out EXCEPT ![x.current] = @ \o SubSeq(rest, 1, ml)]]

\* Raw bytes are not taken apart.
RawExtract(s) == [s EXCEPT !.orig = <<>>, !.out[Stdout] = @ \o s.orig]

StreamInit ==
  /\ kind \in Kinds /\ tty \in BOOLEAN /\ found \in BOOLEAN
  /\ todo \in Outputs /\ sends \in Inputs
  /\ wrote = <<>> /\ pend = <<>> /\ chunk = <<>> /\ wire = <<>>
  /\ stdin = "open" /\ stdout = "open"
  /\ reader = (IF kind = "ContainerLogs" THEN "none" ELSE "reading")
  /\ writer = (IF kind = "ContainerLogs" THEN "none" ELSE "receiving")
  /\ handler = "waiting" /\ gone = FALSE
  /\ inpipe = <<>> /\ read = <<>>
  /\ extractor = NewExtractor
  /\ got = [fd \in {Stdout, Stderr} |-> <<>>]
  /\ orig = <<>> /\ client = "receiving"

(***************************************************************************)
(* The process, behind runv's TtyIO.                                        *)
(***************************************************************************)
Runs == found /\ kind # "ContainerLogs"

\* A write waits for the one before it; on a pipe whose reader has closed it fails and the data is gone.
ProcessWrites ==
  /\ Runs /\ stdout = "open" /\ todo # <<>> /\ pend = <<>>
  /\ todo' = Tail(todo) /\ wrote' = Append(wrote, Head(todo))
  /\ pend' = IF reader = "done" THEN <<>> ELSE Frame(Head(todo))
  /\ UNCHANGED <<call, stdin, stdout, reader, chunk, wire, handler, gone, input, receiver>>

ProcessReads ==
  /\ Runs /\ stdin = "open" /\ inpipe # <<>>
  /\ read' = Append(read, inpipe[1]) /\ inpipe' = <<>>
  /\ UNCHANGED <<call, process, output, handler, gone, sends, writer, receiver>>

\* It ends when it has written everything; runv then closes its stdin and its stdout.
ClosesStdin ==
  /\ Runs /\ todo = <<>> /\ pend = <<>> /\ stdin = "open"
  /\ stdin' = "closed" /\ inpipe' = <<>>
  /\ UNCHANGED <<call, wrote, todo, stdout, output, handler, gone, sends, writer, read, receiver>>

ClosesStdout ==
  /\ Runs /\ todo = <<>> /\ pend = <<>> /\ stdout = "open"
  /\ stdout' = "closed"
  /\ UNCHANGED <<call, wrote, todo, stdin, output, handler, gone, input, receiver>>

(***************************************************************************)
(* The handler and its goroutines.                                          *)
(***************************************************************************)
Over == handler \in {"returned", "failed"}

\* Read returns at most a buffer of the write in progress.
ReadsOutput ==
  /\ reader = "reading" /\ pend # <<>>
  /\ \E n \in 1 .. Len(pend) :
       /\ n <= ChunkSize
       /\ chunk' = SubSeq(pend, 1, n) /\ pend' = SubSeq(pend, n + 1, Len(pend))
  /\ reader' = "sending"
  /\ UNCHANGED <<call, process, wire, handler, gone, input, receiver>>

\* Mutant: the goroutine leaves without closing its end of the pipe.
BugSendsOutput ==
  /\ reader = "sending"
  /\ IF Over \/ gone THEN reader' = "done" /\ UNCHANGED wire
     ELSE reader' = "reading" /\ wire' = Append(wire, chunk)
  /\ chunk' = <<>>
  /\ UNCHANGED <<call, process, pend, handler, gone, input, receiver>>

\* Send fails once the handler has returned or the client is gone; the goroutine closes its end and leaves.
SendsOutput ==
  /\ reader = "sending"
  /\ IF Over \/ gone THEN reader' = "done" /\ pend' = <<>> /\ UNCHANGED wire
     ELSE reader' = "reading" /\ wire' = Append(wire, chunk) /\ UNCHANGED pend
  /\ chunk' = <<>>
  /\ UNCHANGED <<call, process, handler, gone, input, receiver>>

OutputEof ==
  /\ reader = "reading" /\ pend = <<>> /\ stdout = "closed"
  /\ reader' = "done"
  /\ UNCHANGED <<call, process, pend, chunk, wire, handler, gone, input, receiver>>

\* Recv, then a write that waits until the process has read or closed its stdin.  At the end of the
\* client's messages, or when the call is over, the goroutine closes the pipe and leaves.
ReceivesInput ==
  /\ writer = "receiving"
  /\ \/ /\ ~Over /\ ~gone /\ sends # <<>>
        /\ sends' = Tail(sends)
        /\ IF stdin = "closed" THEN writer' = "done" /\ UNCHANGED inpipe
           ELSE writer' = "writing" /\ inpipe' = <<Head(sends)>>
     \/ (Over \/ gone \/ sends = <<>>) /\ writer' = "done" /\ UNCHANGED <<sends, inpipe>>
  /\ UNCHANGED <<call, process, output, handler, gone, read, receiver>>

\* Without a process the pipe is never read; the handler of a call that failed leaves the goroutine there.
InputWritten ==
  /\ writer = "writing" /\ inpipe = <<>> /\ found
  /\ writer' = IF stdin = "closed" THEN "done" ELSE "receiving"
  /\ UNCHANGED <<call, process, output, handler, gone, sends, inpipe, read, receiver>>

NotFound ==
  /\ handler = "waiting" /\ ~found
  /\ handler' = "failed"
  /\ UNCHANGED <<call, process, output, gone, input, receiver>>

\* Mutant: the handler does not wait for outErr.
BugExecStart ==
  /\ kind = "ExecStart" /\ Runs
  /\ handler = "waiting" /\ stdin = "closed" /\ handler' = "returned"
  /\ UNCHANGED <<call, process, output, gone, input, receiver>>

\* StartExec returns when stdin is closed; the handler then waits for the output goroutine.
ExecStart ==
  /\ kind = "ExecStart" /\ Runs
  /\ \/ handler = "waiting" /\ stdin = "closed" /\ handler' = "drain"
     \/ handler = "drain" /\ reader = "done" /\ handler' = IF gone THEN "failed" ELSE "returned"
  /\ UNCHANGED <<call, process, output, gone, input, receiver>>

\* ExecVM does not wait: the exit code is sent, and the handler returns, when stdin is closed.
ExecVM ==
  /\ kind = "ExecVM" /\ Runs
  /\ handler = "waiting" /\ stdin = "closed"
  /\ handler' = IF gone THEN "failed" ELSE "returned"
  /\ UNCHANGED <<call, process, output, gone, input, receiver>>

\* AttachStreams returns when its copies of stdin and stdout have ended; the handler does not wait either.
Attach ==
  /\ kind = "Attach" /\ Runs
  /\ handler = "waiting" /\ stdin = "closed" /\ stdout = "closed"
  /\ handler' = "returned"
  /\ UNCHANGED <<call, process, output, gone, input, receiver>>

\* Without Follow the log is first collected in a buffer, then sent line by line; a line may end anywhere,
\* heads included.
GetContainerLogs ==
  /\ kind = "ContainerLogs" /\ found /\ handler = "waiting"
  /\ pend' = Bytes(todo) /\ wrote' = todo /\ todo' = <<>>
  /\ handler' = "drain"
  /\ UNCHANGED <<call, stdin, stdout, reader, chunk, wire, gone, input, receiver>>

ContainerLogs ==
  /\ kind = "ContainerLogs" /\ handler = "drain"
  /\ \E n \in 0 .. Len(pend) :
       /\ n = 0 => pend = <<>>
       /\ pend' = SubSeq(pend, n + 1, Len(pend))
       /\ wire' = IF gone THEN wire ELSE Append(wire, SubSeq(pend, 1, n))
       /\ handler' = IF gone THEN "failed" ELSE IF n = Len(pend) THEN "returned" ELSE "drain"
  /\ UNCHANGED <<call, process, reader, chunk, gone, input, receiver>>

(***************************************************************************)
(* The client.                                                              *)
(***************************************************************************)
ClientReceives ==
  /\ client = "receiving" /\ orig = <<>> /\ wire # <<>>
  /\ orig' = Head(wire) /\ wire' = Tail(wire)
  /\ UNCHANGED <<call, process, pend, reader, chunk, handler, gone, input, extractor, got, client>>

ClientExtracts ==
  /\ client = "receiving" /\ orig # <<>>
  /\ LET s == [x |-> extractor, orig |-> orig, out |-> got]
         t == IF Raw THEN RawExtract(s) ELSE Extract(s)
     IN extractor' = t.x /\ orig' = t.orig /\ got' = t.out
  /\ UNCHANGED <<call, process, output, handler, gone, input, client>>

ClientEnds ==
  /\ client = "receiving" /\ orig = <<>> /\ wire = <<>> /\ Over
  /\ client' = IF handler = "returned" THEN "done" ELSE "error"
  /\ UNCHANGED <<call, process, output, handler, gone, input, orig, extractor, got>>

ClientGoes ==
  /\ client = "receiving" /\ ~gone
  /\ gone' = TRUE /\ client' = "error"
  /\ UNCHANGED <<call, process, output, handler, input, orig, extractor, got>>

Serve ==
  \/ ReadsOutput \/ SendsOutput \/ OutputEof \/ ReceivesInput \/ InputWritten
  \/ NotFound \/ ExecStart \/ ExecVM \/ Attach \/ GetContainerLogs \/ ContainerLogs

StreamNext ==
  \/ ProcessWrites \/ ProcessReads \/ ClosesStdin \/ ClosesStdout
  \/ Serve
  \/ ClientReceives \/ ClientExtracts \/ ClientEnds \/ ClientGoes

StreamSpec == StreamInit /\ [][StreamNext]_streamVars

\* The goroutines run, the process ends, and a client that stays receives.
StreamFair ==
  /\ StreamSpec
  /\ WF_streamVars(Serve)
  /\ WF_streamVars(ProcessWrites) /\ WF_streamVars(ClosesStdin) /\ WF_streamVars(ClosesStdout)
  /\ WF_streamVars(ClientReceives \/ ClientExtracts \/ ClientEnds)

(***************************************************************************)
(* Properties.                                                              *)
(***************************************************************************)
\* The client gets what the process wrote, each stream in order and nothing else, however the bytes were cut
\* into messages.  When ExecStart or ContainerLogs has ended without an error it got all of it
\* (exec.go waits for outErr); ExecVM and Attach may lose the message that was being sent.
OutputArrives ==
  \A fd \in {Stdout, Stderr} :
    /\ IsPrefix(got[fd], DataOf(wrote, fd))
    /\ (client = "done" /\ kind \in {"ExecStart", "ContainerLogs"}) => got[fd] = DataOf(wrote, fd)

\* A call whose target exists comes to its end, and so do both goroutines it started: none is left in a
\* Read, a Write or a Send (serverrpc/exec.go, attach.go).
StreamsEnd ==
  found ~> (Over /\ reader \in {"none", "done"} /\ writer \in {"none", "done"})
=============================================================================
