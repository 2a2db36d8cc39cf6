------------------------------ MODULE Services ------------------------------
(***************************************************************************)
(* The services of one pod (daemon/pod/servicediscovery.go): the list that *)
(* the pod keeps and saves, and the IPVS rules in its sandbox.  A request  *)
(* holds resourceLock from its first test to savePodMeta, so it is one     *)
(* step; what it meets is a pod that is starting, paused or going down.    *)
(***************************************************************************)
EXTENDS Integers, Sequences, SequencesExt, FiniteSets

CONSTANTS
  Lists,        \* the lists of services that requests carry
  SvFaultSets,  \* what may fail: subsets of {"exec", "restore"}
  MaxRequests   \* bound on the requests

VARIABLES
  svFaults,
  status,     \* "stopped", "paused", or one of three that are RUNNING: "starting" before
              \* the services are applied, "running" and "failed" after
  spec,       \* Services.spec, as savePodMeta writes it
  rules,      \* the rules in the sandbox: a function from keys to hosts
  behind,     \* history: the list was changed while the pod was paused
  requests

svVars == <<svFaults, status, spec, rules, behind, requests>>

\* serviceKey takes the protocol as it is spelt, generateIPVSCmd in lower case.
Key(s) == <<s.ip, s.proto>>
VmKey(s) == <<s.ip, IF s.proto = "TCP" THEN "tcp" ELSE s.proto>>
Keys(q) == {Key(s) : s \in Range(q)}
Distinct(q) == Cardinality(Keys(q)) = Len(q)

\* generateIPVSCmd: the protocol must be known, and an address is needed to add.
Generates(s, op) == VmKey(s)[2] \in {"tcp", "udp"} /\ (op = "del" \/ s.ip # "")

NoRules == [k \in {} |-> {}]
RulesOf(q) == [k \in {VmKey(s) : s \in Range(q)} |->
                 (CHOOSE s \in Range(q) : VmKey(s) = k).hosts]
Without(f, ks) == [k \in DOMAIN f \ ks |-> f[k]]

\* ipvsadm -R runs the lines of a patch one by one: it fails on a service to add
\* that is there and on one to delete that is not, and keeps what it did before.
Accepts(f, q, op) ==
  LET before(i) == {VmKey(q[j]) : j \in 1 .. i - 1} IN
  \A i \in DOMAIN q :
    CASE op = "add" -> VmKey(q[i]) \notin DOMAIN f \cup before(i)
      [] op = "update" -> VmKey(q[i]) \notin before(i)
      [] op = "del" -> VmKey(q[i]) \in DOMAIN f \ before(i)

Patched(f, q, op) ==
  CASE op = "add" -> [k \in DOMAIN f \cup DOMAIN RulesOf(q) |->
                        IF k \in DOMAIN f THEN f[k] ELSE RulesOf(q)[k]]
    [] op = "update" -> RulesOf(q)
    [] op = "del" -> Without(f, {VmKey(s) : s \in Range(q)})

\* commit: ok tells what it returns.  Nothing is sent when a command can not be
\* generated.  A patch that fails is followed by a clear and by applying what
\* was read before, each of which may fail too.
\* Mutant: what was there before is not cleared before it is applied again.
BugCommit(q, op, ok) ==
  IF /\ \A s \in Range(q) : Generates(s, IF op = "del" THEN "del" ELSE "add")
     /\ Accepts(rules, q, op)
  THEN ok /\ rules' = Patched(rules, q, op)
  ELSE /\ ~ok
       /\ rules' = IF q # <<>> /\ VmKey(q[1]) \notin DOMAIN rules
                     THEN Patched(rules, <<q[1]>>, "add") ELSE rules

Commit(q, op, ok) ==
  LET generated == \A s \in Range(q) : Generates(s, IF op = "del" THEN "del" ELSE "add")
      sent == generated /\ Accepts(rules, q, op)
  IN \/ /\ ok /\ sent
        /\ rules' = Patched(rules, q, op)
     \/ /\ ~ok /\ ~sent
        /\ UNCHANGED rules
     \/ /\ ~ok /\ generated /\ "exec" \in svFaults
        /\ \/ UNCHANGED rules
           \/ \E n \in 0 .. Len(q) :
                Accepts(rules, SubSeq(q, 1, n), op) /\ rules' = Patched(rules, SubSeq(q, 1, n), op)
     \/ /\ ~ok /\ generated /\ ~Accepts(rules, q, op) /\ "restore" \in svFaults
        /\ rules' = NoRules

-----------------------------------------------------------------------------
SvInit ==
  /\ svFaults \in SvFaultSets
  /\ status = "stopped"
  /\ spec \in {q \in Lists : Distinct(q)}
  /\ rules = NoRules
  /\ behind = FALSE
  /\ requests = 0

Ask == requests < MaxRequests /\ requests' = requests + 1

\* The list changes at once unless the pod is RUNNING, when the sandbox must
\* accept the patch first.
Change(q, op, new) ==
  /\ IF status \in {"starting", "running", "failed"}
       THEN \E ok \in BOOLEAN :
              /\ Commit(q, op, ok)
              /\ spec' = IF ok THEN new ELSE spec
       ELSE spec' = new /\ UNCHANGED rules
  /\ behind' = (behind \/ (status = "paused" /\ spec' # spec))
  /\ UNCHANGED <<svFaults, status>>

AddService(q) ==
  /\ Ask
  /\ Distinct(q) /\ Keys(q) \cap Keys(spec) = {}
  /\ Change(q, "add", spec \o q)

DeleteService(q) ==
  LET gone(s) == Key(s) \in Keys(q)
      kept(s) == ~gone(s)
  IN /\ Ask
     /\ Change(SelectSeq(spec, gone), "del", SelectSeq(spec, kept))

UpdateService(q) ==
  /\ Ask
  /\ Distinct(q)
  /\ Change(q, "update", q)

-----------------------------------------------------------------------------
\* The sandbox is up and the pod RUNNING; the services are yet to be applied.
Starting ==
  /\ status = "stopped" /\ status' = "starting"
  /\ rules' = NoRules /\ behind' = FALSE
  /\ UNCHANGED <<svFaults, spec, requests>>

\* addResourcesToSandbox applies the list, if there is any.  When that fails the
\* start of the pod does, and its sandbox is left to be stopped.
Apply ==
  /\ status = "starting"
  /\ \E ok \in BOOLEAN :
       /\ IF spec = <<>> THEN ok /\ UNCHANGED rules ELSE Commit(spec, "add", ok)
       /\ status' = IF ok THEN "running" ELSE "failed"
  /\ UNCHANGED <<svFaults, spec, behind, requests>>

Pause ==
  /\ status = "running" /\ status' = "paused"
  /\ UNCHANGED <<svFaults, spec, rules, behind, requests>>

Unpause ==
  /\ status = "paused" /\ status' = "running"
  /\ UNCHANGED <<svFaults, spec, rules, behind, requests>>

SvExit ==
  /\ status # "stopped" /\ status' = "stopped"
  /\ rules' = NoRules
  /\ UNCHANGED <<svFaults, spec, behind, requests>>

SvNext ==
  \/ \E q \in Lists : AddService(q) \/ DeleteService(q) \/ UpdateService(q)
  \/ Starting \/ Apply \/ Pause \/ Unpause \/ SvExit

-----------------------------------------------------------------------------
\* The services of a pod that started are those of its list, through every
\* request that succeeds and every one that fails and is taken back, provided
\* that nothing was changed while it was paused (IsRunning is then FALSE and the
\* sandbox is not told) and that what was there can be restored.
\* (Services.commitToVm, Services.add, del and update)
ServicesAgree ==
  status = "running" /\ ~behind /\ svFaults = {} => rules = RulesOf(spec)
=============================================================================
