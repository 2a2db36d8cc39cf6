------------------------------ MODULE PortSpec ------------------------------
(***************************************************************************)
(* The port mappings of a pod specification (types/utils.go): how they are *)
(* read and written back, how the ports of the containers are moved to the *)
(* pod, and how single ports are merged into ranges.  A range is written   *)
(* as no port, one port or two, a sequence of numbers here.                *)
(***************************************************************************)
EXTENDS Integers, Sequences, SequencesExt, FiniteSets, FiniteSetsExt

CONSTANTS
  MinPort,       \* 1025, the first port of the range written as no port
  MaxPort,       \* 65535, the largest number that is read
  PodPorts,      \* lists of port mappings of the pod
  ContainerPorts,\* lists of ports of its containers: [host, container, proto]
  None,          \* nothing
  Refused        \* the error

VARIABLES
  given,    \* the mappings of the pod and of its containers
  ports,    \* Portmappings of the pod: None until they are merged
  merged    \* its TCP mappings, merged into ranges

psVars == <<given, ports, merged>>

\* Ranges are pairs <<start, end>>.
readPortRange(p) ==
  IF p = <<>> THEN <<MinPort, MaxPort>>
  ELSE IF \/ \E i \in DOMAIN p : p[i] \notin 0 .. MaxPort
          \/ p[Len(p)] < p[1]
  THEN Refused
  ELSE <<p[1], p[Len(p)]>>

isRange(r) == r[1] # r[2]
count(r) == r[2] - r[1] + 1
String(r) == IF isRange(r) THEN r ELSE <<r[1]>>

readPortMapping(pm) ==
  LET h == readPortRange(pm.host)
      c == readPortRange(pm.container)
  IN IF \/ pm.proto \notin {"", "tcp", "udp"}
        \/ h = Refused
        \/ c = Refused
        \/ isRange(c) /\ count(c) # count(h)
     THEN Refused
     ELSE [host |-> h, container |-> c, proto |-> IF pm.proto = "" THEN "tcp" ELSE pm.proto]

toSpec(m) == [host |-> String(m.host), container |-> String(m.container), proto |-> m.proto]

Formalize(pm) ==
  LET m == readPortMapping(pm) IN IF m = Refused THEN Refused ELSE toSpec(m)

\* Only a port without a protocol is accepted: whatever the protocol is, it differs from
\* "tcp" or from "udp".
ToPodPortmappings(cps) ==
  IF \E i \in DOMAIN cps : cps[i].proto # "" THEN Refused
  ELSE [i \in DOMAIN cps |->
         [host |-> <<cps[i].host>>, container |-> <<cps[i].container>>, proto |-> "tcp"]]

\* Mutant: the mappings of another protocol get lost.
BugMergePortmappings(pms, cps) ==
  LET moved == ToPodPortmappings(cps)
      read == [i \in DOMAIN (pms \o moved) |-> readPortMapping((pms \o moved)[i])]
      ofProto(t) == SelectSeq(read, LAMBDA m : m.proto = t)
      all == ofProto("tcp")
  IN IF moved = Refused \/ \E i \in DOMAIN read : read[i] = Refused THEN Refused
     ELSE [i \in DOMAIN all |-> toSpec(all[i])]

\* MergePortmappings: the ports of the containers after those of the pod, and all
\* TCP mappings before the UDP ones.
MergePortmappings(pms, cps) ==
  LET moved == ToPodPortmappings(cps)
      read == [i \in DOMAIN (pms \o moved) |-> readPortMapping((pms \o moved)[i])]
      ofProto(t) == SelectSeq(read, LAMBDA m : m.proto = t)
      all == ofProto("tcp") \o ofProto("udp")
  IN IF moved = Refused \/ \E i \in DOMAIN read : read[i] = Refused THEN Refused
     ELSE [i \in DOMAIN all |-> toSpec(all[i])]

-----------------------------------------------------------------------------
(* mergeContinuousPorts, of mappings of one protocol; only its tests call it yet. *)

HostPorts(m) == m.host[1] .. m.host[2]
Spans(m) == isRange(m.host) /\ isRange(m.container)
notDetermined(m) == isRange(m.host) /\ ~isRange(m.container)
AllHostPorts(ms) == UNION {HostPorts(ms[i]) : i \in DOMAIN ms}
Duplicate(ms) == \E i, j \in DOMAIN ms : i < j /\ HostPorts(ms[i]) \cap HostPorts(ms[j]) # {}

\* The first free port for each mapping that leaves a choice, in the order of the list.
Determine(free, pm) ==
  LET ports_ == HostPorts(pm) \ free.used
      p == Min(ports_)
  IN IF free.failed \/ ports_ = {} THEN [free EXCEPT !.failed = TRUE]
     ELSE [free EXCEPT !.used = @ \cup {p}, !.ms = Append(@, [pm EXCEPT !.host = <<p, p>>])]

Extends(last, cur) ==
  /\ cur.host[1] - last.host[2] = 1
  /\ cur.container[1] - last.container[2] = 1

\* A single port, in the order of the host ports, extends the last mapping or follows it.
Absorb(res, cur) ==
  IF res # <<>> /\ Extends(Last(res), cur)
  THEN [res EXCEPT ![Len(res)].host[2] = @ + 1, ![Len(res)].container[2] = @ + 1]
  ELSE Append(res, cur)

mergeContinuousPorts(pms) ==
  LET ranges == SelectSeq(pms, Spans)
      fixed == SelectSeq(pms, LAMBDA m : ~isRange(m.host))
      chosen == FoldLeft(Determine, [used |-> AllHostPorts(ranges \o fixed), ms |-> fixed, failed |-> FALSE],
                         SelectSeq(pms, notDetermined))
      sorted == SortSeq(chosen.ms, LAMBDA x, y : x.host[1] < y.host[1])
  IN IF Duplicate(ranges \o fixed) \/ chosen.failed THEN Refused
     ELSE ranges \o FoldLeft(Absorb, <<>>, sorted)

-----------------------------------------------------------------------------
(* A specification is given, and its port mappings are merged. *)

PsInit ==
  /\ given \in [pod : PodPorts, containers : ContainerPorts]
  /\ ports = None
  /\ merged = None

\* newXPod merges the port mappings; its caller gives up when they are refused.
\* What mergeContinuousPorts makes of those of TCP is kept beside them.
MergePorts ==
  /\ ports = None
  /\ ports' = MergePortmappings(given.pod, given.containers)
  /\ merged' = IF ports' = Refused THEN Refused
               ELSE mergeContinuousPorts(SelectSeq([i \in DOMAIN ports' |-> readPortMapping(ports'[i])],
                                                   LAMBDA m : m.proto = "tcp"))
  /\ UNCHANGED given

PsNext == MergePorts

-----------------------------------------------------------------------------
(* What is checked. *)

\* The forwardings of a mapping: host port to container port, where it says which.
Forwards(m) == {<<h, IF isRange(m.container) THEN m.container[1] + h - m.host[1]
                     ELSE m.container[1]>> : h \in HostPorts(m)}
AllForwards(ms) == UNION {Forwards(ms[i]) : i \in DOMAIN ms}

Tcp(pms) == SelectSeq([i \in DOMAIN pms |-> readPortMapping(pms[i])], LAMBDA m : m.proto = "tcp")

\* MergePortmappings loses and adds no mapping, and what it writes means the same when it is
\* read again: RemovePortMapping compares mappings as they are written, and LoadXPod reads
\* them after every restart.
PortsReadBack ==
  ports \notin {None, Refused} =>
    /\ LET all == given.pod \o ToPodPortmappings(given.containers)
       IN ToBag(ports) = ToBag([i \in DOMAIN all |-> Formalize(all[i])])
    /\ MergePortmappings(ports, <<>>) = ports

\* mergeContinuousPorts forwards exactly the ports that were asked for, each host port once: a
\* mapping that leaves a choice gets one port of its range, and no two results could be one.
MergeIsExact ==
  ports \notin {None, Refused} /\ merged # Refused =>
    LET tcp == Tcp(ports)
        open == SelectSeq(tcp, notDetermined)
        asked == AllForwards(SelectSeq(tcp, LAMBDA m : ~notDetermined(m)))
        made == AllForwards(merged)
        ranges == Len(SelectSeq(tcp, Spans))
    IN /\ ~Duplicate(merged)
       /\ asked \subseteq made
       /\ Cardinality(made \ asked) = Len(open)
       /\ \A f \in made \ asked : \E i \in DOMAIN open : f \in Forwards(open[i])
       /\ \A i, j \in DOMAIN merged : ranges < i /\ i < j => ~Extends(merged[i], merged[j])
=============================================================================
