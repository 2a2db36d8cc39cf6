-------------------------------- MODULE Api --------------------------------
(***************************************************************************)
(* How a request reaches a pod.  A call of the client library               *)
(* (client/api) becomes an HTTP request; a router (server/router) turns the *)
(* form back into arguments and calls a Cmd... function of the daemon       *)
(* (daemon/server.go).  The same call over gRPC is a message handled by     *)
(* serverrpc.  Both end in the same operations of the daemon (daemon/*.go), *)
(* which look the pod up and call it.                                       *)
(*                                                                          *)
(* A handler is one step here: what the pod does in it, and how it          *)
(* interleaves with others, is the matter of XPod, Container and PodList.   *)
(* Forms are functions from keys to texts.                                  *)
(***************************************************************************)
EXTENDS Naturals, Sequences, FiniteSets, SequencesExt

CONSTANTS
  PodIds,        \* the ids pods may have
  CtrIds,        \* the ids containers may have
  RunningMax,    \* run.go: 1024
  None

VARIABLES
  pods,          \* the pods in the PodList
  alive,         \* those whose IsAlive is true
  home,          \* the containers of the listed pods, and the pod of each
  up,            \* the containers that run
  queued,        \* containers the create buffer still holds
  last           \* the last request: what was called, and the answer

apiVars == <<pods, alive, home, up, queued, last>>

SIGKILL == 9
SIGTERM == 15

\* strconv.Itoa, strconv.FormatBool and the parsers of the form's texts.
Itoa(n) == ToString(n)

Numbers == {0, 5, SIGKILL, SIGTERM}

Int64ValueOrDefault(text, default) ==
  IF text \in {Itoa(n) : n \in Numbers} THEN CHOOSE n \in Numbers : Itoa(n) = text ELSE default

FormatBool(b) == IF b THEN "true" ELSE "false"

\* A bool of the form is recognised by the words each handler lists.
IsOneOf(text, words) == text \in words

(***************************************************************************)
(* The daemon's operations.  An outcome is the calls made on pods, in       *)
(* order, each with its success, and whether the caller gets an error.      *)
(***************************************************************************)
Call(op, p, c, a, ok) == [op |-> op, pod |-> p, ctr |-> c, arg |-> a, ok |-> ok]

Outcome(calls, err) == [calls |-> calls, err |-> err]

Declined == {Outcome(<<>>, TRUE)}

OnPod(op, p, a) ==
  IF p \notin pods THEN Declined
  ELSE {Outcome(<<Call(op, p, None, a, ok)>>, ~ok) : ok \in BOOLEAN}

ContainersOf(p) == {c \in DOMAIN home : home[c] = p}

\* GetByContainerIdOrName finds the pod that holds the container; a queued one is reserved for its pod too.
Owners(c) == {p \in pods : c \in ContainersOf(p) \cup queued[p]}

\* The pod knows nothing of a queued container but what ContainerBufferInfo answers.
OnContainer(op, c, a) ==
  UNION {{Outcome(<<Call(op, p, c, a, ok)>>, ~ok)
            : ok \in IF c \in DOMAIN home THEN BOOLEAN ELSE {op = "ContainerInfo"}} : p \in Owners(c)}
    \cup (IF Owners(c) = {} THEN Declined ELSE {})

\* A failed Stop is followed by ForceQuit, and the caller is told of success.
StopPod(p) ==
  IF p \notin pods THEN Declined
  ELSE {Outcome(<<Call("Stop", p, None, 5, TRUE)>>, FALSE),
        Outcome(<<Call("Stop", p, None, 5, FALSE), Call("ForceQuit", p, None, None, TRUE)>>, FALSE)}

\* The pod leaves the list first; what Stop and Remove return is not looked at.
RemovePod(p) ==
  LET stop == IF p \in alive THEN {<<Call("Stop", p, None, 5, ok)>> : ok \in BOOLEAN} ELSE {<<>>}
  IN IF p \notin pods THEN Declined
     ELSE {Outcome(<<Call("Release", p, None, None, TRUE)>> \o s \o <<Call("Remove", p, None, TRUE, ok)>>, FALSE)
             : s \in stop, ok \in BOOLEAN}

\* Every running container is signalled even when an earlier one failed; an error of any is returned.
KillAll(p, cs, sig) ==
  LET order == SetToSeq(cs)
  IN {Outcome([i \in 1 .. Len(order) |-> Call("KillContainer", p, order[i], sig, ok[order[i]])],
              \E c \in cs : ~ok[c]) : ok \in [cs -> BOOLEAN]}

KillPodContainers(p, c, sig) ==
  IF p \notin pods \/ (c # "" /\ c \notin ContainersOf(p)) THEN Declined
  ELSE IF c = "" /\ sig = SIGKILL THEN {Outcome(<<Call("ForceQuit", p, None, None, TRUE)>>, FALSE)}
  ELSE KillAll(p, (IF c = "" THEN ContainersOf(p) ELSE {c}) \cap up, sig)

\* A container that does not run is left alone, without an error.
KillContainer(c, sig) ==
  IF Owners(c) = {} THEN Declined
  ELSE KillAll(CHOOSE p \in Owners(c) : TRUE, {c} \cap up, sig)

\* The error of RenameContainer is dropped.
ContainerRename(c, new) ==
  {[o EXCEPT !.err = (Owners(c) = {})] : o \in OnContainer("RenameContainer", c, new)}

\* The id in the specification wins over the one in the request; without either a random one is made.
CreatePod(id, spec) ==
  LET names == IF spec.id # "" THEN {spec.id} ELSE IF id # "" THEN {id} ELSE PodIds \ pods
  IN IF Cardinality(alive) >= RunningMax \/ ~spec.valid THEN Declined
     ELSE UNION {{Outcome(<<Call("CreateXPod", p, None, None, ok)>>, ~ok) : ok \in {FALSE, p \notin pods}} : p \in names}

GetPodStats(p) == IF p \notin pods \cap alive THEN Declined ELSE OnPod("Stats", p, None)

GetContainerInfo(c) == IF c = "" THEN Declined ELSE OnContainer("ContainerInfo", c, None)

\* The pods a listing is about.  The virtual machine of a live pod is named after the pod here.
snapshotPodList(p, vm) ==
  IF p # "" THEN IF vm \notin {"", p} \/ (vm # "" /\ p \notin alive) THEN {} ELSE {p} \cap pods
  ELSE IF vm # "" THEN {vm} \cap alive
  ELSE pods

\* How often each container is in the answer: here every listed one and every queued one once.
ListContainers(p, vm) ==
  LET pl == snapshotPodList(p, vm)
  IN [c \in UNION {ContainersOf(x) \cup queued[x] : x \in pl} |-> 1]

\* The HTTP listing appends the queued containers of a pod once for each listed one.
List(item, p, vm) ==
  LET pl == snapshotPodList(p, vm)
  IN IF item = "pod" THEN [x \in pl |-> 1]
     ELSE IF item = "vm" THEN [x \in pl \cap alive |-> 1]
     ELSE [c \in UNION {ContainersOf(x) \cup (IF ContainersOf(x) = {} THEN {} ELSE queued[x]) : x \in pl} |->
             IF c \in DOMAIN home THEN 1
             ELSE Cardinality(ContainersOf(CHOOSE x \in pl : c \in queued[x]))]

Listing(result) == {Outcome(<<Call("List", None, None, result, TRUE)>>, FALSE)}

\* What is done for a command, whichever front end it came from; {} for a command of another group.
CmdContainer(m) ==
  CASE m.do = "ContainerCreate" -> OnPod(m.do, m.pod, m.arg)
    [] m.do \in {"Attach", "ContainerStart", "StopContainer", "RemoveContainer", "GetExitCode", "CreateExec",
                 "StartExec", "KillExec"} -> OnContainer(m.do, m.ctr, m.arg)
    [] m.do = "KillContainer" -> KillContainer(m.ctr, m.arg)
    [] m.do = "ExecVM" -> OnPod(m.do, m.pod, m.arg)
    [] OTHER -> {}

CmdPod(m) ==
  CASE m.do \in {"Info", "SetLabel", "Start"} -> OnPod(m.do, m.pod, m.arg)
    [] m.do = "GetPodStats" -> GetPodStats(m.pod)
    [] m.do = "GetContainerInfo" -> GetContainerInfo(m.ctr)
    [] m.do = "ContainerLogs" -> OnContainer(m.do, m.ctr, m.arg)
    [] m.do = "List" -> IF m.arg \notin {"pod", "container", "vm"} THEN Declined
                        ELSE Listing(List(m.arg, m.pod, m.ctr))
    [] m.do = "ListContainers" -> Listing(ListContainers(m.pod, m.ctr))
    [] m.do = "ListPods" -> Listing([x \in snapshotPodList(m.pod, m.ctr) |-> 1])
    [] m.do = "ListVMs" -> Listing([x \in snapshotPodList(m.pod, m.ctr) \cap alive |-> 1])
    [] m.do = "CreatePod" -> CreatePod(m.pod, m.arg)
    [] m.do = "ContainerRename" -> ContainerRename(m.ctr, m.arg)
    [] m.do = "RemovePod" -> RemovePod(m.pod)
    [] OTHER -> {}

\* Listing mappings cannot fail.
CmdPortMappings(m) ==
  CASE m.do = "ListPortMappings" /\ m.pod \in pods -> {Outcome(<<Call(m.do, m.pod, None, None, TRUE)>>, FALSE)}
    [] m.do \in {"AddPortMapping", "RemovePortMappingByDest"} -> OnPod(m.do, m.pod, m.arg)
    [] OTHER -> {}

CmdStop(m) ==
  CASE m.do = "StopPod" -> StopPod(m.pod)
    [] m.do = "KillPodContainers" -> KillPodContainers(m.pod, m.ctr, m.arg)
    [] m.do = "TtyResize" -> OnContainer(m.do, m.ctr, m.arg)
    [] OTHER -> {}

CmdService(m) ==
  CASE m.do \in {"AddService", "UpdateService", "DeleteService", "GetServices", "Pause", "UnPause"}
         -> OnPod(m.do, m.pod, m.arg)
    [] OTHER -> {}

Daemon(m) ==
  LET outcomes == CmdContainer(m) \cup CmdPod(m) \cup CmdPortMappings(m) \cup CmdStop(m) \cup CmdService(m)
  IN IF outcomes = {} THEN Declined ELSE outcomes

Do(do, p, c, a) == [do |-> do, pod |-> p, ctr |-> c, arg |-> a]

Bad == Do("bad request", "", "", None)

(***************************************************************************)
(* The HTTP front end: routers, and the Cmd... functions behind them.       *)
(***************************************************************************)
Get(r, key) == IF key \in DOMAIN r.form THEN r.form[key] ELSE ""

\* Creations want a JSON body; CmdCreatePod and CmdCreateContainer decode it.
JsonBody(r) == r.body # None

\* Mutant: the pod is taken from podId, the field every other route reads.
BugPostPodKill(r) ==
  Do("KillPodContainers", Get(r, "podId"), Get(r, "container"), Int64ValueOrDefault(Get(r, "signal"), SIGTERM))

\* The one route that reads the pod from podName.
postPodKill(r) ==
  Do("KillPodContainers", Get(r, "podName"), Get(r, "container"), Int64ValueOrDefault(Get(r, "signal"), SIGTERM))

podRouter(r) ==
  CASE r.route = "GET /pod/info" -> Do("Info", Get(r, "podName"), "", None)
    [] r.route = "GET /pod/stats" -> Do("GetPodStats", Get(r, "podId"), "", None)
    [] r.route = "GET /list" -> Do("List", Get(r, "pod"), Get(r, "vm"), Get(r, "item"))
    [] r.route = "POST /pod/create" -> IF JsonBody(r) THEN Do("CreatePod", "", "", r.body) ELSE Bad
    [] r.route = "POST /pod/labels" -> Do("SetLabel", Get(r, "podId"), "", IsOneOf(Get(r, "override"), {"true", "yes"}))
    [] r.route = "POST /pod/start" -> Do("Start", Get(r, "podId"), "", None)
    [] r.route = "POST /pod/stop" -> Do("StopPod", Get(r, "podId"), "", None)
    [] r.route = "POST /pod/kill" -> postPodKill(r)
    [] r.route = "POST /pod/pause" -> Do("Pause", Get(r, "podId"), "", None)
    [] r.route = "POST /pod/unpause" -> Do("UnPause", Get(r, "podId"), "", None)
    [] r.route = "DELETE /pod" -> Do("RemovePod", Get(r, "podId"), "", None)
    [] OTHER -> Bad

\* The id and the action are parts of the path.
portMappingRoutes(r) ==
  CASE r.route = "GET /pod/{id}/portmappings" -> Do("ListPortMappings", Get(r, "id"), "", None)
    [] r.route = "PUT /pod/{id}/portmappings/{action}" /\ Get(r, "action") = "add"
         -> IF JsonBody(r) THEN Do("AddPortMapping", Get(r, "id"), "", None) ELSE Bad
    [] r.route = "PUT /pod/{id}/portmappings/{action}" /\ Get(r, "action") = "delete"
         -> IF JsonBody(r) THEN Do("RemovePortMappingByDest", Get(r, "id"), "", None) ELSE Bad
    [] OTHER -> Bad

containerRouter(r) ==
  LET c == Get(r, "container")
  IN CASE r.route = "GET /container/info" -> Do("GetContainerInfo", "", c, None)
       [] r.route = "GET /container/logs" ->
            IF IsOneOf(Get(r, "stdout"), {"", "false"}) /\ IsOneOf(Get(r, "stderr"), {"", "false"}) THEN Bad
            ELSE Do("ContainerLogs", "", c, ~IsOneOf(Get(r, "follow"), {"", "false"}))
       [] r.route = "POST /container/create" ->
            IF JsonBody(r) /\ Get(r, "podId") # "" THEN Do("ContainerCreate", Get(r, "podId"), "", None) ELSE Bad
       [] r.route = "POST /container/start" -> Do("ContainerStart", "", c, None)
       [] r.route = "POST /container/kill" ->
            Do("KillContainer", "", c, Int64ValueOrDefault(Get(r, "signal"), SIGTERM))
       [] r.route = "POST /container/stop" -> Do("StopContainer", "", c, 5)
       [] r.route = "POST /container/remove" -> Do("RemoveContainer", "", c, None)
       [] r.route = "POST /container/rename" -> Do("ContainerRename", "", Get(r, "oldName"), Get(r, "newName"))
       [] OTHER -> Bad

\* Exec, attach and terminal routes of the same router.
containerExecRoutes(r) ==
  LET c == Get(r, "container")
  IN CASE r.route = "GET /exitcode" -> Do("GetExitCode", "", c, Get(r, "exec"))
       [] r.route = "POST /exec/create" -> Do("CreateExec", "", c, IsOneOf(Get(r, "tty"), {"yes", "true", "on"}))
       [] r.route = "POST /exec/start" -> Do("StartExec", "", c, Get(r, "exec"))
       [] r.route = "POST /execvm" -> Do("ExecVM", Get(r, "pod"), "", None)
       [] r.route = "POST /attach" -> Do("Attach", "", c, None)
       [] r.route = "POST /tty/resize" ->
            IF "" \in {Get(r, "h"), Get(r, "w")} THEN Bad ELSE Do("TtyResize", "", c, Get(r, "exec"))
       [] OTHER -> Bad

\* CmdAddService and the others refuse what is not JSON.
serviceRouter(r) ==
  CASE r.route = "GET /service/list" -> Do("GetServices", Get(r, "podId"), "", None)
    [] r.route = "POST /service/add" /\ Get(r, "services") # "" -> Do("AddService", Get(r, "podId"), "", None)
    [] r.route = "POST /service/update" /\ Get(r, "services") # "" -> Do("UpdateService", Get(r, "podId"), "", None)
    [] r.route = "DELETE /service" /\ Get(r, "services") # "" -> Do("DeleteService", Get(r, "podId"), "", None)
    [] OTHER -> Bad

\* The router that knows the route answers.
Http(r) ==
  LET answers == {podRouter(r), portMappingRoutes(r), containerRouter(r), containerExecRoutes(r), serviceRouter(r)}
  IN IF answers = {Bad} THEN Bad ELSE CHOOSE m \in answers : m # Bad

(***************************************************************************)
(* The gRPC front end.  A message has typed fields.                         *)
(***************************************************************************)
RpcPod(q) ==
  CASE q.rpc = "PodCreate" -> Do("CreatePod", q.id, "", q.spec)
    [] q.rpc = "PodStart" -> Do("Start", q.id, "", None)
    [] q.rpc = "PodRemove" -> IF q.id = "" THEN Bad ELSE Do("RemovePod", q.id, "", None)
    [] q.rpc = "PodStop" -> Do("StopPod", q.id, "", None)
    [] q.rpc = "PodSignal" -> Do("KillPodContainers", q.id, "", q.signal)
    [] q.rpc = "PodPause" -> Do("Pause", q.id, "", None)
    [] q.rpc = "PodUnpause" -> Do("UnPause", q.id, "", None)
    [] q.rpc = "SetPodLabels" -> Do("SetLabel", q.id, "", q.override)
    [] OTHER -> Bad

RpcContainer(q) ==
  CASE q.rpc = "ContainerCreate" -> Do("ContainerCreate", q.id, "", None)
    [] q.rpc = "ContainerStart" -> Do("ContainerStart", "", q.ctr, None)
    [] q.rpc = "ContainerStop" -> Do("StopContainer", "", q.ctr, q.timeout)
    [] q.rpc = "ContainerRename" -> Do("ContainerRename", "", q.ctr, q.name)
    [] q.rpc = "ContainerRemove" -> Do("RemoveContainer", "", q.ctr, None)
    [] q.rpc = "ContainerSignal" -> Do("KillPodContainers", q.id, q.ctr, q.signal)
    [] OTHER -> Bad

\* The calls around the streams; the streams themselves are in Streams.
RpcExec(q) ==
  CASE q.rpc = "ExecCreate" -> Do("CreateExec", "", q.ctr, q.tty)
    [] q.rpc = "Wait" -> Do("GetExitCode", "", q.ctr, q.exec)
    [] q.rpc = "ExecSignal" -> Do("KillExec", "", q.ctr, q.signal)
    [] q.rpc = "TTYResize" -> Do("TtyResize", "", q.ctr, q.exec)
    [] OTHER -> Bad

RpcService(q) ==
  CASE q.rpc = "ServiceList" -> Do("GetServices", q.id, "", None)
    [] q.rpc = "ServiceAdd" -> Do("AddService", q.id, "", None)
    [] q.rpc = "ServiceUpdate" -> Do("UpdateService", q.id, "", None)
    [] q.rpc = "ServiceDelete" -> Do("DeleteService", q.id, "", None)
    [] OTHER -> Bad

RpcPortMapping(q) ==
  CASE q.rpc = "PortMappingList" -> Do("ListPortMappings", q.id, "", None)
    [] q.rpc = "PortMappingAdd" -> Do("AddPortMapping", q.id, "", None)
    [] q.rpc = "PortMappingDel" -> Do("RemovePortMappingByDest", q.id, "", None)
    [] OTHER -> Bad

RpcList(q) ==
  CASE q.rpc = "ContainerList" -> Do("ListContainers", q.id, q.vm, None)
    [] q.rpc = "PodList" -> Do("ListPods", q.id, q.vm, None)
    [] q.rpc = "VMList" -> Do("ListVMs", q.id, q.vm, None)
    [] OTHER -> Bad

RpcInfo(q) ==
  CASE q.rpc = "PodInfo" -> Do("Info", q.id, "", None)
    [] q.rpc = "ContainerInfo" -> Do("GetContainerInfo", "", q.ctr, None)
    [] OTHER -> Bad

Rpc(q) ==
  LET answers == {RpcPod(q), RpcContainer(q), RpcExec(q), RpcService(q), RpcPortMapping(q), RpcList(q), RpcInfo(q)}
  IN IF answers = {Bad} THEN Bad ELSE CHOOSE m \in answers : m # Bad

(***************************************************************************)
(* The two client libraries.  A call [op, pod, ctr, arg] is made a request  *)
(* by client/api, or a message by the gRPC client of integration/client.go. *)
(***************************************************************************)
Request(route, form, body) == [route |-> route, form |-> form, body |-> body]

NoForm == [k \in {} |-> ""]

NotMine == Request("", NoForm, None)

ClientCreate(c) ==
  CASE c.op = "CreatePod" -> Request("POST /pod/create", NoForm, c.arg)
    [] c.op = "CreateContainer" -> Request("POST /container/create", "podId" :> c.pod, c.arg)
    [] OTHER -> NotMine

ClientInfo(c) ==
  CASE c.op = "GetPodInfo" -> Request("GET /pod/info", "podName" :> c.pod, None)
    [] c.op = "GetContainerInfo" -> Request("GET /container/info", "container" :> c.ctr, None)
    [] OTHER -> NotMine

ClientKill(c) ==
  CASE c.op = "KillContainer" ->
         Request("POST /container/kill", "container" :> c.ctr @@ "signal" :> Itoa(c.arg), None)
    [] c.op = "KillPod" -> Request("POST /pod/kill", "podName" :> c.pod @@ "signal" :> Itoa(c.arg), None)
    [] OTHER -> NotMine

ClientList(c) ==
  CASE c.op = "List" -> Request("GET /list", "item" :> c.arg @@ (IF c.pod = "" THEN NoForm ELSE "pod" :> c.pod), None)
    [] OTHER -> NotMine

ClientPause(c) ==
  CASE c.op = "PausePod" -> Request("POST /pod/pause", "podId" :> c.pod, None)
    [] c.op = "UnpausePod" -> Request("POST /pod/unpause", "podId" :> c.pod, None)
    [] OTHER -> NotMine

ClientPortMapping(c) ==
  CASE c.op = "ListPortMappings" -> Request("GET /pod/{id}/portmappings", "id" :> c.pod, None)
    [] c.op = "AddPortMappings" ->
         Request("PUT /pod/{id}/portmappings/{action}", "id" :> c.pod @@ "action" :> "add", c.arg)
    [] c.op = "DeletePortMappings" ->
         Request("PUT /pod/{id}/portmappings/{action}", "id" :> c.pod @@ "action" :> "delete", c.arg)
    [] OTHER -> NotMine

ClientRm(c) ==
  CASE c.op = "RmPod" -> Request("DELETE /pod", "podId" :> c.pod, None)
    [] c.op = "RemoveContainer" -> Request("POST /container/remove", "container" :> c.ctr, None)
    [] OTHER -> NotMine

ClientStart(c) ==
  CASE c.op = "StartPod" -> Request("POST /pod/start", "podId" :> c.pod, None)
    [] c.op = "StartContainer" -> Request("POST /container/start", "container" :> c.ctr, None)
    [] OTHER -> NotMine

ClientStop(c) ==
  CASE c.op = "StopPod" -> Request("POST /pod/stop", "podId" :> c.pod @@ "stopVm" :> "yes", None)
    [] c.op = "StopContainer" -> Request("POST /container/stop", "container" :> c.ctr, None)
    [] OTHER -> NotMine

ClientExec(c) ==
  CASE c.op = "CreateExec" ->
         Request("POST /exec/create", "container" :> c.ctr @@ "tty" :> FormatBool(c.arg), None)
    [] c.op = "StartExec" -> Request("POST /exec/start", "container" :> c.ctr @@ "exec" :> c.arg, None)
    [] c.op = "ExecVM" -> Request("POST /execvm", "pod" :> c.pod, None)
    [] OTHER -> NotMine

ClientMisc(c) ==
  CASE c.op = "GetExitCode" -> Request("GET /exitcode", "container" :> c.ctr @@ "exec" :> c.arg, None)
    [] c.op = "WinResize" ->
         Request("POST /tty/resize", "h" :> Itoa(5) @@ "w" :> Itoa(9) @@ "container" :> c.ctr @@ "exec" :> c.arg, None)
    [] OTHER -> NotMine

ClientLogs(c) ==
  CASE c.op = "ContainerLogs" ->
         Request("GET /container/logs", "container" :> c.ctr @@ "stdout" :> FormatBool(TRUE) @@
                   "stderr" :> FormatBool(TRUE) @@ "follow" :> FormatBool(c.arg), None)
    [] OTHER -> NotMine

ClientAttach(c) ==
  CASE c.op = "Attach" -> Request("POST /attach", "container" :> c.ctr, None)
    [] OTHER -> NotMine

HttpCall(c) ==
  LET made == {ClientCreate(c), ClientInfo(c), ClientKill(c), ClientList(c), ClientPause(c), ClientPortMapping(c),
               ClientRm(c), ClientStart(c), ClientStop(c), ClientExec(c), ClientMisc(c), ClientLogs(c), ClientAttach(c)}
  IN IF made = {NotMine} THEN NotMine ELSE CHOOSE r \in made : r # NotMine

\* The gRPC client leaves the fields it does not set at their zero values.
Message(rpc, id, ctr) ==
  [rpc |-> rpc, id |-> id, ctr |-> ctr, vm |-> "", exec |-> "", name |-> "", signal |-> 0, timeout |-> 0,
   tty |-> FALSE, override |-> FALSE, spec |-> None]

RpcCallInfo(c) ==
  CASE c.op = "GetPodInfo" -> Message("PodInfo", c.pod, "")
    [] c.op = "GetContainerInfo" -> Message("ContainerInfo", "", c.ctr)
    [] c.op = "List" /\ c.pod = "" /\ c.arg = "pod" -> Message("PodList", "", "")
    [] c.op = "List" /\ c.pod = "" /\ c.arg = "vm" -> Message("VMList", "", "")
    [] c.op = "List" /\ c.pod = "" /\ c.arg = "container" -> Message("ContainerList", "", "")
    [] OTHER -> None

RpcCallCreate(c) ==
  CASE c.op = "CreatePod" -> [Message("PodCreate", "", "") EXCEPT !.spec = c.arg]
    [] c.op = "CreateContainer" -> Message("ContainerCreate", c.pod, "")
    [] c.op = "RenameContainer" -> [Message("ContainerRename", "", c.ctr) EXCEPT !.name = c.arg]
    [] c.op = "RmPod" -> Message("PodRemove", c.pod, "")
    [] c.op = "KillExec" -> [Message("ExecSignal", "", c.ctr) EXCEPT !.signal = c.arg]
    [] c.op = "CreateExec" -> [Message("ExecCreate", "", c.ctr) EXCEPT !.tty = c.arg]
    [] OTHER -> None

RpcCallPod(c) ==
  CASE c.op = "StartPod" -> Message("PodStart", c.pod, "")
    [] c.op = "StopPod" -> Message("PodStop", c.pod, "")
    [] c.op = "PausePod" -> Message("PodPause", c.pod, "")
    [] c.op = "UnpausePod" -> Message("PodUnpause", c.pod, "")
    [] c.op = "KillPod" -> [Message("PodSignal", c.pod, "") EXCEPT !.signal = c.arg]
    [] c.op = "GetExitCode" -> [Message("Wait", "", c.ctr) EXCEPT !.exec = c.arg]
    [] OTHER -> None

RpcCallService(c) ==
  CASE c.op = "DeleteService" -> Message("ServiceDelete", c.pod, "")
    [] c.op = "ListService" -> Message("ServiceList", c.pod, "")
    [] c.op = "AddService" -> Message("ServiceAdd", c.pod, "")
    [] c.op = "UpdateService" -> Message("ServiceUpdate", c.pod, "")
    [] c.op = "SetPodLabels" -> [Message("SetPodLabels", c.pod, "") EXCEPT !.override = c.arg]
    [] OTHER -> None

\* A container is signalled through its pod.
RpcCallContainer(c) ==
  CASE c.op = "KillContainer" -> [Message("ContainerSignal", c.pod, c.ctr) EXCEPT !.signal = c.arg]
    [] c.op = "WinResize" -> [Message("TTYResize", "", c.ctr) EXCEPT !.exec = c.arg]
    [] OTHER -> None

RpcCall(c) ==
  LET made == {RpcCallInfo(c), RpcCallCreate(c), RpcCallPod(c), RpcCallService(c), RpcCallContainer(c)}
  IN IF made = {None} THEN None ELSE CHOOSE q \in made : q # None

\* The calls that are made: on pods and containers that exist or not.
Calls ==
  LET Ps == PodIds \cup {""}
      C(ops, ps, cs, as) == {[op |-> o, pod |-> p, ctr |-> c, arg |-> a] : o \in ops, p \in ps, c \in cs, a \in as}
      Specs == {[id |-> i, valid |-> v] : i \in Ps, v \in BOOLEAN}
  IN C({"StartPod", "StopPod", "RmPod", "PausePod", "UnpausePod", "GetPodInfo", "ListPortMappings", "ListService",
        "AddService", "UpdateService", "DeleteService", "ExecVM"}, Ps, {""}, {None})
       \cup C({"CreatePod"}, {""}, {""}, Specs)
       \cup C({"CreateContainer", "AddPortMappings", "DeletePortMappings"}, Ps, {""}, {"json"})
       \cup C({"KillPod"}, Ps, {""}, Numbers)
       \cup C({"SetPodLabels"}, Ps, {""}, BOOLEAN)
       \cup C({"List"}, Ps, {""}, {"pod", "vm", "container", "image"})
       \cup C({"StartContainer", "StopContainer", "RemoveContainer", "GetContainerInfo", "Attach"}, {""}, CtrIds, {None})
       \cup C({"RenameContainer"}, {""}, CtrIds, {"new"})
       \cup C({"GetExitCode", "StartExec", "WinResize"}, {""}, CtrIds, {"", "exec"})
       \cup C({"CreateExec", "ContainerLogs"}, {""}, CtrIds, BOOLEAN)
       \cup C({"KillExec"}, {""}, CtrIds, Numbers)
       \cup {[op |-> "KillContainer", pod |-> IF c \in DOMAIN home THEN home[c] ELSE "", ctr |-> c, arg |-> n]
               : c \in CtrIds, n \in Numbers}

(***************************************************************************)
(* The state changes of the pod's operations, as far as the front ends can  *)
(* see them.                                                                *)
(***************************************************************************)
Effect(s, call) ==
  LET mine == {c \in DOMAIN s.home : s.home[c] = call.pod}
  IN CASE ~call.ok -> s
       [] call.op = "CreateXPod" -> [s EXCEPT !.pods = @ \cup {call.pod}]
       [] call.op = "Start" -> [s EXCEPT !.alive = @ \cup {call.pod}, !.up = @ \cup mine]
       [] call.op \in {"Stop", "ForceQuit"} -> [s EXCEPT !.alive = @ \ {call.pod}, !.up = @ \ mine]
       [] call.op = "Release" -> [s EXCEPT !.pods = @ \ {call.pod}, !.up = @ \ mine,
                                           !.home = [c \in DOMAIN @ \ mine |-> @[c]], !.queued[call.pod] = {}]
       [] call.op = "Remove" -> [s EXCEPT !.alive = @ \ {call.pod}]
       [] call.op = "ContainerStart" -> [s EXCEPT !.up = @ \cup {call.ctr}]
       [] call.op = "StopContainer" -> [s EXCEPT !.up = @ \ {call.ctr}]
       [] call.op = "KillContainer" /\ call.arg = SIGKILL -> [s EXCEPT !.up = @ \ {call.ctr}]
       [] call.op = "RemoveContainer" -> [s EXCEPT !.up = @ \ {call.ctr}, !.home = [c \in DOMAIN @ \ {call.ctr} |-> @[c]]]
       [] OTHER -> s

View == [pods |-> pods, alive |-> alive, home |-> home, up |-> up, queued |-> queued]

After(s, calls) == FoldLeft(Effect, s, calls)

(***************************************************************************)
(* One request at a time: it is answered, and the next one comes.           *)
(***************************************************************************)
ApiInit ==
  /\ pods = {} /\ alive = {} /\ up = {}
  /\ home = [c \in {} |-> None]
  /\ queued = [p \in PodIds |-> {}]
  /\ last = None

Become(s) == pods' = s.pods /\ alive' = s.alive /\ home' = s.home /\ up' = s.up /\ queued' = s.queued

\* A container that is created gets a new id; with a create buffer it is queued first.
NewContainer(s, p) ==
  \E c \in CtrIds \ (DOMAIN s.home \cup UNION {s.queued[x] : x \in PodIds}) :
    \/ Become([s EXCEPT !.home = @ @@ c :> p])
    \/ Become([s EXCEPT !.queued[p] = @ \cup {c}])

Answer(c, m) ==
  \E o \in Daemon(m) :
    LET s == After(View, o.calls)
        made == \E i \in DOMAIN o.calls : o.calls[i].op = "ContainerCreate" /\ o.calls[i].ok
    IN /\ IF made THEN NewContainer(s, m.pod) ELSE Become(s)
       /\ last' = [call |-> c, err |-> o.err, listed |-> <<pods, DOMAIN home, queued>>]

ServeHttp == last = None /\ \E c \in Calls : HttpCall(c) # NotMine /\ Answer(c, Http(HttpCall(c)))

ServeRpc == last = None /\ \E c \in Calls : RpcCall(c) # None /\ Answer(c, Rpc(RpcCall(c)))

\* Routes no client library has a call for, and requests none of them makes.
ServeOther ==
  /\ last = None
  /\ \E p \in PodIds, text \in {"yes", "no"} :
       \E r \in {Request("POST /pod/labels", "podId" :> p @@ "override" :> text, None),
                 Request("GET /pod/stats", "podId" :> p, None),
                 Request("POST /pod/create", NoForm, None),
                 Request("POST /service/add", "podId" :> p, None),
                 Request("POST /pod/kill", "podName" :> p @@ "signal" :> text, None),
                 Request("PUT /pod/{id}/portmappings/{action}", "id" :> p @@ "action" :> text, None)} :
         Answer([op |-> "other", pod |-> p, ctr |-> "", arg |-> None], Http(r))

NextRequest == last # None /\ last' = None /\ UNCHANGED <<pods, alive, home, up, queued>>

\* A buffered creation ends, in a container or not.
BufferedCreate ==
  /\ last = None
  /\ \E p \in PodIds : \E c \in queued[p] :
       /\ queued' = [queued EXCEPT ![p] = @ \ {c}]
       /\ home' \in {home, home @@ c :> p}
  /\ UNCHANGED <<pods, alive, up, last>>

SandboxDies ==
  /\ last = None
  /\ \E p \in alive : alive' = alive \ {p} /\ up' = up \ ContainersOf(p)
  /\ UNCHANGED <<pods, home, queued, last>>

ContainerExits ==
  /\ last = None
  /\ \E c \in up : up' = up \ {c}
  /\ UNCHANGED <<pods, alive, home, queued, last>>

ApiNext == ServeHttp \/ ServeRpc \/ ServeOther \/ NextRequest \/ BufferedCreate \/ SandboxDies \/ ContainerExits

ApiSpec == ApiInit /\ [][ApiNext]_apiVars

(***************************************************************************)
(* Properties.                                                              *)
(***************************************************************************)
\* The two front ends differ in two ways: the HTTP listing repeats or leaves out queued containers
\* (list.go), and a signal to a queued container is an error over gRPC only (kill.go).
Comparable(c) ==
  /\ (c.op = "List" /\ c.arg = "container") => \A p \in pods : queued[p] = {}
  /\ c.op = "KillContainer" => \A p \in pods : c.ctr \notin queued[p]

\* A call made through the HTTP client and the same call made through the gRPC client come to the same:
\* the same operations on the same pods and containers with the same arguments, and an error in the same
\* cases (client/api and server/router against integration/client.go and serverrpc).
FrontEndsAgree ==
  last = None =>
    \A c \in Calls :
      (HttpCall(c) # NotMine /\ RpcCall(c) # None /\ Comparable(c))
        => Daemon(Http(HttpCall(c))) = Daemon(Rpc(RpcCall(c)))

\* What the caller is told is so: after a successful answer the pod or container is in the state that was
\* asked for, and after an error the lists of pods and containers are what they were (daemon/run.go, stop.go,
\* rm.go, kill.go behind both front ends).
AnswerIsTrue ==
  last # None =>
    IF last.err THEN last.listed = <<pods, DOMAIN home, queued>>
    ELSE CASE last.call.op = "CreatePod" -> /\ pods # last.listed[1]
                                            /\ last.call.arg.id # "" => last.call.arg.id \in pods
           [] last.call.op = "StartPod" -> last.call.pod \in alive
           [] last.call.op = "StopPod" -> last.call.pod \notin alive
           [] last.call.op = "KillPod" /\ last.call.arg = SIGKILL -> last.call.pod \notin alive
           [] last.call.op = "RmPod" -> last.call.pod \notin pods /\ ContainersOf(last.call.pod) = {}
           [] last.call.op = "CreateContainer" -> last.listed # <<pods, DOMAIN home, queued>>
           [] last.call.op \in {"StopContainer", "RemoveContainer"} -> last.call.ctr \notin up
           [] last.call.op = "KillContainer" /\ last.call.arg = SIGKILL -> last.call.ctr \notin up
           [] OTHER -> last.listed = <<pods, DOMAIN home, queued>>
=============================================================================
