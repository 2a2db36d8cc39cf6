---------------------------- MODULE PortMapping ----------------------------
(***************************************************************************)
(* The port mappings of the pods: the host ports of a pod are forwarded to *)
(* its address by rules of the iptables chains HYPER and are recorded in   *)
(* the PortMapper (networking/portmapping, daemon/pod/portmappings.go).    *)
(* Each pod handles one request at a time (resourceLock), the pods run in  *)
(* parallel, and the rules outlive the daemon while the PortMapper and the *)
(* prestart commands do not.  Every pod has the address of its             *)
(* specification, so the pod itself stands for its address.                *)
(***************************************************************************)
EXTENDS Integers, Sequences, SequencesExt, FiniteSets, Bags

CONSTANTS
  Pods,       \* the pods; a pod stands for its containerIP
  White,      \* those with port mapping white lists, mapped in the sandbox too
  SpecOf,     \* the mappings of the specification of each pod
  AddsOf,     \* the lists of mappings that are added to each pod
  DelsOf,     \* the lists of mappings that are removed from each pod
  FaultSets,  \* what may fail: subsets of {"insert", "delete", "exec", "crash"}
  Budgets,    \* bounds on the requests of each pod
  None        \* no owner

VARIABLES
  faults,     \* what may fail in this behaviour
  nat,        \* rules of the chain HYPER of table nat
  filter,     \* rules of the chain HYPER of table filter, a bag
  owner,      \* PortMapper: the pod that allocated each host port
  foreign,    \* history: a pod gave back a port that another one held
  stage,      \* how far the sandbox of each pod got
  portMappings, \* the list of each pod, as it is saved in the database
  prestart,   \* prestartExecs: what startAll inserts in the sandbox
  inner,      \* the redirections in the sandbox, a bag
  asked,      \* AddPortMapping between its test of IsAlive and resourceLock
  kind,       \* what the holder of resourceLock does
  pc,         \* and how far it got
  todo,       \* the mappings that are left, the head one in progress
  all,        \* the mappings of the request
  added,      \* revertRules: nat and filter rules inserted by the request
  port,       \* the next host port to allocate
  calls,      \* requests that are left
  crashed     \* "no", "clean" or "torn": the daemon died in the middle of a request

pmRules == <<nat, filter, owner, foreign>>
pmPod == <<stage, portMappings, prestart, inner>>
pmOp == <<kind, pc, todo, all, added, port>>
pmEnv == <<faults, asked, calls, crashed>>
pmVars == <<pmRules, pmPod, pmOp, pmEnv>>

\* An end of 0 stands for a single port.
Normal(r) == IF r[2] = 0 THEN <<r[1], r[1]>> ELSE r
Width(r) == Normal(r)[2] - Normal(r)[1]
From(m) == Normal(m.from)[1] .. Normal(m.from)[2]
PortsOf(m) == {m.proto} \X From(m)

\* generateIptablesArgs and generateRedirectArgs accept the mapping: ports may
\* be mapped 1:N or N:N.
Mappable(m) ==
  /\ Width(m.from) >= 0
  /\ Width(m.to) >= 0
  /\ Width(m.from) \in {0, Width(m.to)}

\* The rules generateIptablesArgs makes of a mapping of pod p.
NatRule(p, m) == [ip |-> p, proto |-> m.proto, from |-> Normal(m.from), to |-> Normal(m.to)]
FilterRule(p, m) == [ip |-> p, proto |-> m.proto, to |-> Normal(m.to)]

\* PortMapUsed: the host ports of the mapping meet those of some rule.
PortMapUsed(m) ==
  LET b == Normal(m.from)[1]
      e == Normal(m.from)[2]
  IN \E r \in nat :
       /\ r.proto = m.proto
       /\ \/ b >= r.from[1] /\ b <= r.from[2]
          \/ e >= r.from[1] /\ e <= r.from[2]
          \/ b < r.from[1] /\ e > r.from[2]

AllMaps == UNION {Range(SpecOf[p]) \cup UNION {Range(a) : a \in AddsOf[p]} : p \in Pods}
HostPorts == UNION {PortsOf(m) : m \in AllMaps}

One(x) == SetToBag({x})

-----------------------------------------------------------------------------
\* The pods exist and no sandbox is running yet.
PmInit ==
  /\ faults \in FaultSets
  /\ nat = {} /\ filter = EmptyBag /\ foreign = FALSE
  /\ owner = [k \in HostPorts |-> None]
  /\ stage = [p \in Pods |-> "down"]
  /\ portMappings = SpecOf
  /\ prestart = [p \in Pods |-> <<>>] /\ inner = [p \in Pods |-> EmptyBag]
  /\ asked = [p \in Pods |-> <<>>]
  /\ kind = [p \in Pods |-> "none"] /\ pc = [p \in Pods |-> "idle"]
  /\ todo = asked /\ all = asked
  /\ added = [p \in Pods |-> [nat |-> {}, filter |-> <<>>]]
  /\ port = [p \in Pods |-> 0]
  /\ calls \in Budgets
  /\ crashed = "no"

Idle(p) == pc[p] = "idle"
Alive(p) == stage[p] # "down"
Go(p, l) == pc' = [pc EXCEPT ![p] = l]
Call(p) == calls[p] > 0 /\ calls' = [calls EXCEPT ![p] = @ - 1]

\* The holder of resourceLock takes up a list of mappings.
Take(p, k, l, ms) ==
  /\ Go(p, l)
  /\ kind' = [kind EXCEPT ![p] = k]
  /\ todo' = [todo EXCEPT ![p] = ms]
  /\ all' = [all EXCEPT ![p] = ms]
  /\ UNCHANGED <<added, port>>

\* The request is over; what it worked on is forgotten.
Return(p) ==
  /\ Go(p, "idle")
  /\ kind' = [kind EXCEPT ![p] = "none"]
  /\ todo' = [todo EXCEPT ![p] = <<>>]
  /\ all' = [all EXCEPT ![p] = <<>>]
  /\ added' = [added EXCEPT ![p] = [nat |-> {}, filter |-> <<>>]]
  /\ port' = [port EXCEPT ![p] = 0]

\* SetupPortMaps generates the commands for the sandbox first, and when that
\* fails it has touched nothing.
SetupPortMaps(p, k, ms) ==
  IF p \in White /\ \E m \in Range(ms) : ~Mappable(m)
    THEN UNCHANGED pmOp
    ELSE Take(p, k, "check", ms)

\* initPortMapping, in the prepareResources of CreateXPod or Start.
initPortMapping(p) ==
  /\ Idle(p) /\ ~Alive(p) /\ Call(p)
  /\ IF portMappings[p] = <<>>
       THEN stage' = [stage EXCEPT ![p] = "prepared"] /\ UNCHANGED pmOp
       ELSE /\ stage' = [stage EXCEPT ![p] = "failed"]
            /\ SetupPortMaps(p, "init", portMappings[p])
  /\ UNCHANGED <<pmRules, portMappings, prestart, inner, faults, asked, crashed>>

\* AddPortMapping tests IsAlive before it waits for resourceLock.
AddPortMapping(p) ==
  /\ Alive(p) /\ asked[p] = <<>> /\ Call(p)
  /\ \E ms \in AddsOf[p] : asked' = [asked EXCEPT ![p] = ms]
  /\ UNCHANGED <<pmRules, pmPod, pmOp, faults, crashed>>

AddLocked(p) ==
  /\ Idle(p) /\ asked[p] # <<>>
  /\ SetupPortMaps(p, "add", asked[p])
  /\ asked' = [asked EXCEPT ![p] = <<>>]
  /\ UNCHANGED <<pmRules, pmPod, faults, calls, crashed>>

-----------------------------------------------------------------------------
(* setupIptablesPortMaps, one step per call that other pods can observe. *)

First(p) == todo[p][1]
Drop(p) == todo' = [todo EXCEPT ![p] = Tail(@)]

\* A mapping that exists is passed over, one whose host ports are taken fails.
CheckRule(p) ==
  /\ pc[p] = "check" /\ todo[p] # <<>>
  /\ IF Mappable(First(p)) /\ NatRule(p, First(p)) \in nat
       THEN Drop(p) /\ UNCHANGED pc
       ELSE /\ Go(p, IF Mappable(First(p)) /\ ~PortMapUsed(First(p)) THEN "rules" ELSE "revert")
            /\ UNCHANGED todo
  /\ UNCHANGED <<pmRules, pmPod, pmEnv, kind, all, added, port>>

\* The rule of table nat, then the one of table filter; each call may fail.
InsertRules(p) ==
  /\ pc[p] = "rules"
  /\ \E n \in 0..2 :
       /\ n < 2 => "insert" \in faults
       /\ nat' = nat \cup (IF n > 0 THEN {NatRule(p, First(p))} ELSE {})
       /\ filter' = filter (+) (IF n = 2 THEN One(FilterRule(p, First(p))) ELSE EmptyBag)
       /\ added' = [added EXCEPT
            ![p].nat = @ \cup (IF n > 0 THEN {NatRule(p, First(p))} ELSE {}),
            ![p].filter = @ \o (IF n = 2 THEN <<FilterRule(p, First(p))>> ELSE <<>>)]
       /\ Go(p, IF n = 2 THEN "alloc" ELSE "revert")
  /\ port' = [port EXCEPT ![p] = Normal(First(p).from)[1]]
  /\ UNCHANGED <<owner, foreign, pmPod, pmEnv, kind, todo, all>>

\* AllocateMap for one host port after the other.
\* Mutant: a port that is taken changes hands.
BugAllocateMap(p) ==
  /\ pc[p] = "alloc" /\ port[p] \in From(First(p))
  /\ owner' = [owner EXCEPT ![<<First(p).proto, port[p]>>] = p]
  /\ port' = [port EXCEPT ![p] = @ + 1]
  /\ UNCHANGED <<nat, filter, foreign, pmPod, pmEnv, kind, pc, todo, all, added>>

AllocateMap(p) ==
  LET k == <<First(p).proto, port[p]>> IN
  /\ pc[p] = "alloc" /\ port[p] \in From(First(p))
  /\ IF owner[k] = None
       THEN /\ owner' = [owner EXCEPT ![k] = p]
            /\ port' = [port EXCEPT ![p] = @ + 1]
            /\ UNCHANGED pc
       ELSE Go(p, "undo") /\ UNCHANGED <<owner, port>>
  /\ UNCHANGED <<nat, filter, foreign, pmPod, pmEnv, kind, todo, all, added>>

Allocated(p) ==
  /\ pc[p] = "alloc" /\ port[p] \notin From(First(p))
  /\ Go(p, "check") /\ Drop(p)
  /\ UNCHANGED <<pmRules, pmPod, pmEnv, kind, all, added, port>>

\* The ports that were allocated for the mapping that failed are released; those
\* of the mappings before it are not.
Undo(p) ==
  LET freed == {k \in PortsOf(First(p)) : k[2] < port[p]} IN
  /\ pc[p] = "undo"
  /\ owner' = [k \in HostPorts |-> IF k \in freed THEN None ELSE owner[k]]
  /\ foreign' = (foreign \/ \E k \in freed : owner[k] \notin {p, None})
  /\ Go(p, "revert")
  /\ UNCHANGED <<nat, filter, pmPod, pmEnv, kind, todo, all, added, port>>

\* The bag of the elements of a sequence, at some of its positions or at all.
BagAt(q, at) == [x \in {q[i] : i \in at} |-> Cardinality({i \in at : q[i] = x})]
BagOfSeq(q) == BagAt(q, DOMAIN q)

\* The rules of the whole request are deleted; a deletion that fails is ignored.
\* Mutant: only the rules of table nat are.
BugRevert(p) ==
  /\ pc[p] = "revert"
  /\ nat' = nat \ added[p].nat
  /\ Return(p)
  /\ UNCHANGED <<filter, owner, foreign, pmPod, pmEnv>>

Revert(p) ==
  /\ pc[p] = "revert"
  /\ \E n \in SUBSET added[p].nat, f \in SUBSET DOMAIN added[p].filter :
       /\ <<n, f>> = <<added[p].nat, DOMAIN added[p].filter>> \/ "delete" \in faults
       /\ nat' = nat \ n
       /\ filter' = filter (-) BagAt(added[p].filter, f)
  /\ Return(p)
  /\ UNCHANGED <<owner, foreign, pmPod, pmEnv>>

\* The commands of SetupPortMaps for the sandbox.
PreExec(p) == IF p \in White THEN all[p] ELSE <<>>

InitDone(p) ==
  /\ pc[p] = "check" /\ todo[p] = <<>> /\ kind[p] = "init"
  /\ prestart' = [prestart EXCEPT ![p] = @ \o PreExec(p)]
  /\ stage' = [stage EXCEPT ![p] = "prepared"]
  /\ Return(p)
  /\ UNCHANGED <<pmRules, portMappings, inner, pmEnv>>

\* startAll, out of resourceLock: the prestart commands are run in the sandbox.
startAll(p) ==
  /\ stage[p] = "prepared"
  /\ \/ /\ stage' = [stage EXCEPT ![p] = "started"]
        /\ inner' = [inner EXCEPT ![p] = @ (+) BagOfSeq(prestart[p])]
     \/ /\ "exec" \in faults /\ prestart[p] # <<>>
        /\ stage' = [stage EXCEPT ![p] = "failed"]
        /\ UNCHANGED inner
  /\ UNCHANGED <<pmRules, portMappings, prestart, pmOp, pmEnv>>

\* The rules are in place: the new mappings are entered in the sandbox, then in
\* the list of the pod, which is saved.  When the sandbox refuses them the rules
\* stay and the list does not know of them.
AddDone(p) ==
  /\ pc[p] = "check" /\ todo[p] = <<>> /\ kind[p] = "add"
  /\ prestart' = [prestart EXCEPT ![p] = @ \o PreExec(p)]
  /\ \/ /\ inner' = [inner EXCEPT ![p] = IF Alive(p) THEN @ (+) BagOfSeq(PreExec(p)) ELSE @]
        /\ portMappings' = [portMappings EXCEPT ![p] = all[p] \o @]
     \/ /\ "exec" \in faults /\ Alive(p) /\ PreExec(p) # <<>>
        /\ UNCHANGED <<inner, portMappings>>
  /\ Return(p)
  /\ UNCHANGED <<pmRules, stage, pmEnv>>

-----------------------------------------------------------------------------
(* ReleasePortMaps, for removePortMapping and flushPortMapping. *)

SameDestWith(m, o) == m.proto = o.proto /\ m.to = o.to

\* removePortMapping by destination: nothing to do when none is selected, and
\* nothing is done when the commands for the sandbox can not be generated.
RemovePortMapping(p) ==
  \E tbr \in DelsOf[p] :
    LET selected(m) == \E o \in Range(tbr) : SameDestWith(m, o)
        rm == SelectSeq(portMappings[p], selected)
    IN /\ Idle(p) /\ rm # <<>> /\ Call(p)
       /\ p \in White => \A m \in Range(rm) : Mappable(m)
       /\ Take(p, "del", "ports", rm)
       /\ UNCHANGED <<pmRules, pmPod, faults, asked, crashed>>

\* The sandbox is gone with its redirections, and cleanup flushes the mappings
\* of the pod, those that initPortMapping failed to set up too.
flushPortMapping(p) ==
  /\ Idle(p) /\ Alive(p)
  /\ stage' = [stage EXCEPT ![p] = "down"]
  /\ inner' = [inner EXCEPT ![p] = EmptyBag]
  /\ IF portMappings[p] = <<>> THEN UNCHANGED pmOp ELSE Take(p, "flush", "ports", portMappings[p])
  /\ UNCHANGED <<pmRules, portMappings, prestart, pmEnv>>

\* ReleaseMap frees the host ports of the mapping, whoever holds them.
ReleaseMap(p) ==
  /\ pc[p] = "ports" /\ todo[p] # <<>>
  /\ owner' = [k \in HostPorts |-> IF k \in PortsOf(First(p)) THEN None ELSE owner[k]]
  /\ foreign' = (foreign \/ \E k \in PortsOf(First(p)) : owner[k] \notin {p, None})
  /\ IF Mappable(First(p)) THEN Go(p, "drop") /\ UNCHANGED todo ELSE Drop(p) /\ UNCHANGED pc
  /\ UNCHANGED <<nat, filter, pmPod, pmEnv, kind, all, added, port>>

\* The rules of the mapping are deleted; a deletion that fails is ignored.
DeleteRules(p) ==
  /\ pc[p] = "drop"
  /\ \E n, f \in BOOLEAN :
       /\ (n /\ f) \/ "delete" \in faults
       /\ nat' = IF n THEN nat \ {NatRule(p, First(p))} ELSE nat
       /\ filter' = IF f THEN filter (-) One(FilterRule(p, First(p))) ELSE filter
  /\ Go(p, "ports") /\ Drop(p)
  /\ UNCHANGED <<owner, foreign, pmPod, pmEnv, kind, all, added, port>>

Flushed(p) ==
  /\ pc[p] = "ports" /\ todo[p] = <<>> /\ kind[p] = "flush"
  /\ Return(p)
  /\ UNCHANGED <<pmRules, pmPod, pmEnv>>

\* The sandbox forgets the mappings, then the list does, and is saved.  The
\* prestart commands are kept.
RemoveDone(p) ==
  LET kept(m) == m \notin Range(all[p]) IN
  /\ pc[p] = "ports" /\ todo[p] = <<>> /\ kind[p] = "del"
  /\ \/ /\ inner' = [inner EXCEPT ![p] = @ (-) BagOfSeq(PreExec(p))]
        /\ portMappings' = [portMappings EXCEPT ![p] = SelectSeq(@, kept)]
     \/ /\ "exec" \in faults /\ Alive(p) /\ PreExec(p) # <<>>
        /\ UNCHANGED <<inner, portMappings>>
  /\ Return(p)
  /\ UNCHANGED <<pmRules, stage, prestart, pmEnv>>

\* The daemon dies and is restarted.  The rules stay, the PortMapper and the
\* prestart commands are empty, and some of the sandboxes did not survive.
\* LoadXPod sets up no mapping.
Restart ==
  /\ "crash" \in faults /\ crashed = "no"
  /\ crashed' = IF \A p \in Pods : Idle(p) THEN "clean" ELSE "torn"
  /\ \E lost \in SUBSET {p \in Pods : Alive(p)} :
       /\ stage' = [p \in Pods |->
            CASE p \in lost -> "down"
              [] p \notin lost /\ stage[p] = "prepared" -> "failed"
              [] OTHER -> stage[p]]
       /\ inner' = [p \in Pods |-> IF p \in lost THEN EmptyBag ELSE inner[p]]
  /\ owner' = [k \in HostPorts |-> None]
  /\ prestart' = [p \in Pods |-> <<>>] /\ asked' = prestart' /\ todo' = prestart' /\ all' = prestart'
  /\ kind' = [p \in Pods |-> "none"] /\ pc' = [p \in Pods |-> "idle"]
  /\ added' = [p \in Pods |-> [nat |-> {}, filter |-> <<>>]]
  /\ port' = [p \in Pods |-> 0]
  /\ UNCHANGED <<nat, filter, foreign, portMappings, faults, calls>>

PmNext ==
  \/ \E p \in Pods :
       \/ initPortMapping(p) \/ AddPortMapping(p) \/ AddLocked(p) \/ RemovePortMapping(p)
       \/ flushPortMapping(p) \/ CheckRule(p) \/ InsertRules(p) \/ AllocateMap(p)
       \/ Allocated(p) \/ Undo(p) \/ Revert(p) \/ InitDone(p) \/ startAll(p) \/ AddDone(p)
       \/ ReleaseMap(p) \/ DeleteRules(p) \/ Flushed(p) \/ RemoveDone(p)
  \/ Restart

-----------------------------------------------------------------------------
\* A host port is never forwarded to two pods, whatever their requests race
\* for: PortMapUsed misses a rule that is inserted after its look, and then the
\* PortMapper refuses the second pod, which takes its rule back.  What this rests
\* on is that nobody gives back a port of somebody else (releaseIptablesPortMaps
\* frees the ports of a pod whose set-up failed, whoever has them), that deletions succeed and that the daemon is not
\* killed halfway.  (setupIptablesPortMaps, AllocateMap)
HostPortsExclusive ==
  ~foreign /\ "delete" \notin faults /\ crashed # "torn"
    => \A r, s \in nat :
         r.ip # s.ip /\ r.proto = s.proto /\ Idle(r.ip) /\ Idle(s.ip)
           => (r.from[1] .. r.from[2]) \cap (s.from[1] .. s.from[2]) = {}

\* Between requests the rules of a pod are those of its list: none that no record
\* would lead a later removal to, all of them when the pod was prepared and its
\* sandbox runs, and one copy of a rule of table filter for each host range that
\* leads to it.  A request that fails takes back exactly what it inserted.
\* (setupIptablesPortMaps, removePortMapping, flushPortMapping)
RulesAreListed ==
  faults \cap {"delete", "exec"} = {} /\ crashed # "torn"
    => \A p \in Pods : Idle(p) =>
         LET listed == {NatRule(p, m) : m \in Range(portMappings[p])}
             rules == {r \in nat : r.ip = p}
         IN /\ rules \subseteq listed
            /\ stage[p] \in {"prepared", "started"} => rules = listed
            /\ \A f \in {FilterRule(p, m) : m \in AllMaps} :
                 CopiesIn(f, filter) = Cardinality({r \in rules : r.proto = f.proto /\ r.to = f.to})
=============================================================================
