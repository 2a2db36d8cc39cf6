----------------------------- MODULE ExecProofs -----------------------------
(***************************************************************************)
(* The safety of an exec, for any number of calls of StartExec and of      *)
(* GetExecExitCode, whatever the container does.                           *)
(***************************************************************************)
EXTENDS Exec, FiniteSetTheorems, TLAPS

GoroutineStep == {"none", "new", "wait", "exited", "send", "done"}
CallStep == {"idle", "absent", "drain", "add", "copy", "hang", "ask", "giveback", "done"}

Givers == {x \in ExecAskers : epc[x] = "giveback"}
Senders == {e \in ExecStarters : gpc[e] = "done"}

\* There is a token, or there will be, only once an exit code is recorded; and each one is from a
\* goroutine that has ended.
EInv ==
  /\ ExecTypeOK
  /\ epc \in [ExecCalls -> CallStep] /\ gpc \in [ExecStarters -> GoroutineStep]
  /\ answer \in [ExecAskers -> ExecStarters \cup {"none"}]
  /\ heard \in [ExecStarters -> ExecStarters \cup {"none"}]
  /\ \A e \in ExecStarters : gpc[e] = "exited" => heard[e] # "none"
  /\ \/ finChan = 1
     \/ \E e \in ExecStarters : gpc[e] = "send"
     \/ \E x \in ExecAskers : epc[x] = "giveback"
     => execCode # "255"
  /\ finChan + Cardinality(Givers) <= Cardinality(Senders)

USE ExecAssumption DEF ExecCalls, GoroutineStep, CallStep

\* Both counts are numbers; they do not change when their sets do not.
LEMMA Finite ==
  /\ IsFiniteSet(Givers) /\ Cardinality(Givers) \in Nat
  /\ IsFiniteSet(Senders) /\ Cardinality(Senders) \in Nat
<1>1. Givers \subseteq ExecAskers /\ Senders \subseteq ExecStarters
  BY DEF Givers, Senders
<1>2. QED BY <1>1, FS_Subset, FS_CardinalityType

\* Goroutines only end.
LEMMA MoreSenders ==
  ASSUME \A e \in ExecStarters : gpc[e] = "done" => gpc'[e] = "done"
  PROVE  /\ Cardinality(Senders') \in Nat /\ Cardinality(Senders) <= Cardinality(Senders')
         /\ IsFiniteSet(Senders')
<1>1. Senders \subseteq Senders' /\ Senders' \subseteq ExecStarters
  BY DEF Senders
<1>2. IsFiniteSet(Senders')
  BY <1>1, FS_Subset
<1>3. QED BY <1>1, <1>2, FS_Subset, FS_CardinalityType

\* The tokens stay within their bound in a step that moves none.
LEMMA NoTokenMoves ==
  ASSUME EInv, finChan' = finChan \/ finChan' = 0, Givers' = Givers,
         \A e \in ExecStarters : gpc[e] = "done" => gpc'[e] = "done"
  PROVE  finChan' + Cardinality(Givers') <= Cardinality(Senders')
<1>1. finChan \in {0, 1} /\ finChan + Cardinality(Givers) <= Cardinality(Senders)
  BY DEF EInv, ExecTypeOK
<1>2. QED BY <1>1, MoreSenders, Finite

\* A new container has no exec.
LEMMA ExecInit ==
  ASSUME PodInit
  PROVE  EInv
<1>1. PICK sc \in Scenarios : ExecFirst(sc.made)
  BY DEF PodInit
<1>2. ExecTypeOK
  BY <1>1 DEF ExecFirst, ExecTypeOK
<1>3. /\ epc \in [ExecCalls -> CallStep] /\ gpc \in [ExecStarters -> GoroutineStep]
      /\ answer \in [ExecAskers -> ExecStarters \cup {"none"}]
      /\ heard \in [ExecStarters -> ExecStarters \cup {"none"}]
  BY <1>1 DEF ExecFirst
<1>4. finChan = 0 /\ Givers = {} /\ \A e \in ExecStarters : gpc[e] = "none"
  BY <1>1 DEF ExecFirst, Givers
<1>5. Cardinality(Givers) = 0
  BY <1>4, FS_EmptySet
<1>6. finChan + Cardinality(Givers) <= Cardinality(Senders)
  BY <1>4, <1>5, Finite
<1>7. QED BY <1>2, <1>3, <1>4, <1>6 DEF EInv, Givers

\* The steps that change what is in p.execs, and those of a request that wants a token.
LEMMA RequestsInv ==
  ASSUME EInv,
         \/ CreateExec \/ DeleteExec
         \/ \E e \in ExecStarters : StartExec(e) \/ AddProcess(e) \/ StartExecReturns(e)
         \/ \E x \in ExecAskers : GetExecExitCode(x) \/ AskTimeout(x)
  PROVE  EInv'
<1> USE DEF execRest, ExecGo
<1>1. /\ UNCHANGED <<finChan, execCode, gpc, heard, answer>>
      /\ exec' \in {"none", "listed", "deleted"} /\ execProc' \in ExecStarters \cup {"none"}
  BY DEF EInv, ExecTypeOK, CreateExec, DeleteExec, StartExec, AddProcess, StartExecReturns,
         GetExecExitCode, AskTimeout
<1>2. /\ epc' \in [ExecCalls -> CallStep] /\ Givers' = Givers
      /\ \A e \in ExecStarters : epc'[e] \in {"idle", "drain", "absent"}
                                   <=> epc[e] \in {"idle", "drain", "absent"}
  <2>1. CASE CreateExec \/ DeleteExec
    BY <2>1 DEF CreateExec, DeleteExec, EInv, Givers
  <2>2. CASE \E e \in ExecStarters : StartExec(e) \/ AddProcess(e) \/ StartExecReturns(e)
    <3>1. PICK e \in ExecStarters : StartExec(e) \/ AddProcess(e) \/ StartExecReturns(e)
      BY <2>2
    <3>2. PICK s \in {"drain", "copy", "hang", "done"} :
            /\ epc' = [epc EXCEPT ![e] = s]
            /\ epc[e] \in {"idle", "drain", "absent"} <=> s = "drain"
      BY <3>1 DEF StartExec, AddProcess, StartExecReturns
    <3>3. QED BY <3>2 DEF EInv, Givers
  <2>3. CASE \E x \in ExecAskers : GetExecExitCode(x) \/ AskTimeout(x)
    <3>1. PICK x \in ExecAskers, s \in {"ask", "done"} :
            epc' = [epc EXCEPT ![x] = s] /\ epc[x] \in {"idle", "ask"}
      BY <2>3 DEF GetExecExitCode, AskTimeout
    <3>2. QED BY <3>1 DEF EInv, Givers
  <2>4. QED BY <2>1, <2>2, <2>3
<1>3. ExecTypeOK'
  BY <1>1, <1>2 DEF EInv, ExecTypeOK
<1>4. \A x \in ExecAskers : epc'[x] = "giveback" <=> epc[x] = "giveback"
  BY <1>2 DEF Givers
<1>5. finChan' + Cardinality(Givers') <= Cardinality(Senders')
  BY <1>1, <1>2, NoTokenMoves
<1>6. QED BY <1>1, <1>2, <1>3, <1>4, <1>5 DEF EInv

\* The goroutine of a StartExec, and the ends that it hears of.
LEMMA GoroutineInv ==
  ASSUME EInv, \/ ExecExit \/ SandboxExit
               \/ \E e \in ExecStarters : WaitExec(e) \/ SetExitCode(e)
  PROVE  EInv'
<1> USE DEF execRest
<1>1. /\ UNCHANGED <<exec, finChan, epc, answer>> /\ execProc' \in {execProc, "none"}
  BY DEF ExecExit, SandboxExit, WaitExec, SetExitCode
<1>2. /\ gpc' \in [ExecStarters -> GoroutineStep]
      /\ heard' \in [ExecStarters -> ExecStarters \cup {"none"}]
      /\ execCode' \in ExecStarters \cup {"255"}
      /\ \A e \in ExecStarters : /\ gpc'[e] = "exited" => heard'[e] # "none"
                                 /\ gpc[e] = "done" => gpc'[e] = "done"
                                 /\ gpc'[e] = "none" <=> gpc[e] = "none"
      /\ (\E e \in ExecStarters : gpc'[e] = "send" /\ gpc[e] # "send") => execCode' # "255"
      /\ execCode' = execCode \/ execCode' # "255"
  <2>1. CASE ExecExit
    BY <2>1 DEF ExecExit, EInv, ExecTypeOK
  <2>2. CASE SandboxExit
    BY <2>2 DEF SandboxExit, EInv, ExecTypeOK
  <2>3. CASE \E e \in ExecStarters : WaitExec(e)
    <3>1. PICK e \in ExecStarters, s \in {"wait", "done"} :
            gpc[e] = "new" /\ gpc' = [gpc EXCEPT ![e] = s] /\ UNCHANGED <<execCode, heard>>
      BY <2>3 DEF WaitExec
    <3>2. QED BY <3>1 DEF EInv, ExecTypeOK
  <2>4. CASE \E e \in ExecStarters : SetExitCode(e)
    <3>1. PICK e \in ExecStarters : SetExitCode(e)
      BY <2>4
    <3>2. execCode' \in ExecStarters /\ execCode' # "255"
      BY <3>1 DEF SetExitCode, EInv
    <3>3. QED BY <3>1, <3>2 DEF SetExitCode, EInv
  <2>5. QED BY <2>1, <2>2, <2>3, <2>4
<1>3. ExecTypeOK'
  BY <1>1, <1>2 DEF EInv, ExecTypeOK
<1>4. finChan' + Cardinality(Givers') <= Cardinality(Senders')
  <2>1. Givers' = Givers
    BY <1>1 DEF Givers
  <2>2. QED BY <1>1, <1>2, <2>1, NoTokenMoves
<1>5. QED BY <1>1, <1>2, <1>3, <1>4 DEF EInv

\* A StartExec drains the channel; a goroutine sends its token, and has ended.
LEMMA TokenInv ==
  ASSUME EInv, NEW e \in ExecStarters, Drain(e) \/ SendFin(e)
  PROVE  EInv'
<1> USE DEF execRest, ExecGo
<1>1. UNCHANGED <<exec, execCode, execProc, heard, answer>>
  BY DEF Drain, SendFin
<1>2. CASE Drain(e)
  <2>1. /\ epc' \in [ExecCalls -> CallStep] /\ gpc' \in [ExecStarters -> GoroutineStep]
        /\ epc[e] = "drain" /\ epc'[e] = "add" /\ gpc[e] = "none" /\ gpc'[e] = "new"
        /\ \A x \in ExecCalls : x # e => epc'[x] = epc[x]
        /\ \A d \in ExecStarters : d # e => gpc'[d] = gpc[d]
    BY <1>2 DEF Drain, EInv, ExecTypeOK
  <2>2. finChan' = 0 /\ Givers' = Givers
    BY <1>2, <2>1 DEF Drain, Givers
  <2>3. ExecTypeOK'
    BY <1>1, <2>1, <2>2 DEF EInv, ExecTypeOK
  <2>4. finChan' + Cardinality(Givers') <= Cardinality(Senders')
    BY <2>1, <2>2, NoTokenMoves
  <2>5. QED BY <1>1, <2>1, <2>2, <2>3, <2>4 DEF EInv
<1>3. CASE SendFin(e)
  <2>1. /\ gpc' \in [ExecStarters -> GoroutineStep] /\ gpc[e] = "send" /\ gpc'[e] = "done"
        /\ \A d \in ExecStarters : d # e => gpc'[d] = gpc[d]
        /\ finChan' = 1 /\ epc' = epc
    BY <1>3 DEF SendFin, EInv
  <2>2. execCode # "255"
    BY <2>1 DEF EInv
  <2>3. ExecTypeOK'
    BY <1>1, <2>1 DEF EInv, ExecTypeOK
  <2>4. finChan' + Cardinality(Givers') <= Cardinality(Senders')
    <3>1. Senders' = Senders \cup {e} /\ e \notin Senders /\ Givers' = Givers
      BY <2>1 DEF Senders, Givers
    <3>2. Cardinality(Senders') = Cardinality(Senders) + 1
      BY <3>1, Finite, FS_AddElement
    <3>3. finChan \in {0, 1} /\ finChan + Cardinality(Givers) <= Cardinality(Senders)
      BY DEF EInv, ExecTypeOK
    <3>4. QED BY <2>1, <3>1, <3>2, <3>3, Finite
  <2>5. QED BY <1>1, <2>1, <2>2, <2>3, <2>4 DEF EInv
<1>4. QED BY <1>2, <1>3

\* GetExecExitCode borrows the token, and answers with a code that is there.
LEMMA BorrowInv ==
  ASSUME EInv, NEW x \in ExecAskers, TakeFin(x) \/ GiveBack(x)
  PROVE  EInv'
<1> USE DEF execRest, ExecGo
<1>1. UNCHANGED <<exec, execCode, execProc, heard, gpc>>
  BY DEF TakeFin, GiveBack
<1>2. /\ epc' \in [ExecCalls -> CallStep] /\ x \notin ExecStarters /\ finChan' \in {0, 1}
      /\ \A y \in ExecCalls : y # x => epc'[y] = epc[y]
  BY DEF TakeFin, GiveBack, EInv
<1>3. execCode # "255"
  BY DEF TakeFin, GiveBack, EInv
<1>4. answer' \in [ExecAskers -> ExecStarters \cup {"none"}]
  <2>1. execCode \in ExecStarters
    BY <1>3 DEF EInv, ExecTypeOK
  <2>2. QED BY <2>1 DEF TakeFin, GiveBack, EInv
<1>5. ExecTypeOK'
  BY <1>1, <1>2 DEF EInv, ExecTypeOK
<1>6. finChan' + Cardinality(Givers') <= Cardinality(Senders')
  <2>1. Senders' = Senders /\ finChan + Cardinality(Givers) <= Cardinality(Senders)
    BY <1>1 DEF Senders, EInv
  <2>2. CASE TakeFin(x)
    <3>1. Givers' = Givers \cup {x} /\ x \notin Givers
      BY <1>2, <2>2 DEF TakeFin, Givers, EInv
    <3>2. Cardinality(Givers') = Cardinality(Givers) + 1
      BY <3>1, Finite, FS_AddElement
    <3>3. QED BY <2>1, <2>2, <3>2, Finite DEF TakeFin
  <2>3. CASE GiveBack(x)
    <3>1. Givers' = Givers \ {x} /\ x \in Givers
      BY <1>2, <2>3 DEF GiveBack, Givers, EInv
    <3>2. Cardinality(Givers') = Cardinality(Givers) - 1
      BY <3>1, Finite, FS_RemoveElement
    <3>3. QED BY <2>1, <2>3, <3>2, Finite DEF GiveBack
  <2>4. QED BY <2>2, <2>3
<1>7. QED BY <1>1, <1>2, <1>3, <1>4, <1>5, <1>6 DEF EInv

\* The inductive invariant of an exec, whatever the container does.
THEOREM ExecInvariance == PodSpec => []EInv
<1>1. PodInit => EInv
  BY ExecInit
<1>2. EInv /\ [PodNext]_<<vars, execVars>> => EInv'
  <2>1. SUFFICES ASSUME EInv, [PodNext]_<<vars, execVars>>
                 PROVE  EInv'
    OBVIOUS
  <2>2. CASE UNCHANGED execVars
    BY <2>1, <2>2 DEF execVars, EInv, ExecTypeOK, Givers, Senders
  <2>3. CASE ExecNext
    <3>1. CASE CreateExec \/ DeleteExec
      BY <2>1, <3>1, RequestsInv
    <3>2. CASE ExecProgress
      BY <2>1, <3>2, RequestsInv, GoroutineInv, TokenInv, BorrowInv DEF ExecProgress, ExecGoroutine
    <3>3. CASE ExecExit
      BY <2>1, <3>3, GoroutineInv
    <3>4. CASE \E e \in ExecStarters : StartExec(e)
      BY <2>1, <3>4, RequestsInv
    <3>5. CASE \E x \in ExecAskers : GetExecExitCode(x)
      BY <2>1, <3>5, RequestsInv
    <3>6. QED BY <2>3, <3>1, <3>2, <3>3, <3>4, <3>5 DEF ExecNext
  <2>4. CASE SandboxExit
    BY <2>1, <2>4, GoroutineInv
  <2>5. QED BY <2>1, <2>2, <2>3, <2>4 DEF PodNext
<1>3. QED BY <1>1, <1>2, PTL DEF PodSpec

\* However many StartExec and GetExecExitCode calls overlap, and whenever the sandbox exits, an
\* answer is the code of a process that ended, and there are never more tokens than goroutines
\* that sent one (StartExec, GetExecExitCode, finChan).
THEOREM ExecAnswers == PodSpec => []ExecIsAnswered
<1>1. EInv => ExecIsAnswered
  <2>1. EInv => TokensAreSent
    BY DEF EInv, TokensAreSent, Givers, Senders
  <2>2. EInv => AnswerIsReal
    BY DEF EInv, AnswerIsReal
  <2>3. QED BY <2>1, <2>2 DEF EInv, ExecIsAnswered
<1>2. QED BY <1>1, ExecInvariance, PTL
=============================================================================
