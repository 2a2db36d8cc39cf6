------------------------------ MODULE PodList ------------------------------
(***************************************************************************)
(* The registry of pods, container ids and container names                 *)
(* (daemon/pod/podlist.go) under the operations that use it: CreatePod,    *)
(* RemovePod, the creation of a container (at once or through the buffer), *)
(* RenameContainer and RemoveContainer.  Every call of the registry is one *)
(* step, since the registry locks itself for a call and no longer; what a  *)
(* thread remembers between two calls may be stale.                        *)
(***************************************************************************)
EXTENDS Integers, FiniteSets

CONSTANTS
  Threads,   \* API requests under way
  XPods,     \* *XPod values that may be created
  PodIds,
  NameOf,    \* the pod id of each XPod
  Ids,       \* container ids, of the engine and of the buffer
  Names,     \* container names
  Calls,     \* the calls that clients make
  Faults,    \* operations outside of the registry that may fail
  PerPod,    \* whether a client waits for its last request on a pod to return
  None

ASSUME PodListAssumption ==
  /\ NameOf \in [XPods -> PodIds]
  /\ None \notin Threads \cup XPods \cup PodIds \cup Ids \cup Names
  /\ Names \cap Ids = {}

VARIABLES
  pods, containers, containerNames,   \* the maps of the registry
  life,         \* of each XPod: not created yet, IsAlive, or not
  held,         \* p.containers
  specName,     \* the name of each container
  engine,       \* containers that the engine knows
  ready,        \* containers whose creation was answered with success
  resourceLock,
  pc,           \* what each thread does next
  arg           \* what each thread works on

vars == <<pods, containers, containerNames, life, held, specName, engine, ready,
          resourceLock, pc, arg>>
registry == <<pods, containers, containerNames>>
world == <<life, held, specName, engine>>   \* of pods and containers

\* The locals of a thread: the pod, a container id (the buffer's id of a buffered
\* creation), a name, and the containers of the spec with those still to be handled.
NoArg == [x |-> None, id |-> None, name |-> None, spec |-> {}, todo |-> {}]

Steps == {"idle", "reserve", "sandbox", "init", "add", "reserve2", "undo2", "undo",
          "name", "buffer", "create", "id", "drop", "newName", "rename", "remove",
          "release", "stop", "removeEach"}

\* The types of the variables; a resourceLock is held exactly by the thread that is between
\* the Lock and the Unlock of DoContainerCreate or of Remove.
TypeOK ==
  /\ pods \in [PodIds -> XPods \cup {None}]
  /\ containers \in [Ids -> PodIds \cup {None}]
  /\ containerNames \in [Names -> PodIds \cup {None}]
  /\ life \in [XPods -> {"new", "starting", "alive", "dead"}]
  /\ held \in [XPods -> SUBSET Ids]
  /\ specName \in [Ids -> Names \cup {None}]
  /\ engine \in SUBSET Ids
  /\ ready \in SUBSET Ids
  /\ resourceLock \in [XPods -> Threads \cup {None}]
  /\ pc \in [Threads -> Steps]
  /\ \A x \in XPods, t \in Threads :
       resourceLock[x] = t <=> arg[t].x = x /\ pc[t] \in {"id", "removeEach"}

\* NewPodList; no pod exists.
Init ==
  /\ pods = [p \in PodIds |-> None]
  /\ containers = [i \in Ids |-> None]
  /\ containerNames = [n \in Names |-> None]
  /\ life = [x \in XPods |-> "new"]
  /\ held = [x \in XPods |-> {}]
  /\ specName = [i \in Ids |-> None]
  /\ engine = {}
  /\ ready = {}
  /\ resourceLock = [x \in XPods |-> None]
  /\ pc = [t \in Threads |-> "idle"]
  /\ arg = [t \in Threads |-> NoArg]

-----------------------------------------------------------------------------
(* The operations of the registry, each under its lock. *)

\* A name or id may be taken when it is free or taken by the same pod.
NameAvailable(n, p) == containerNames[n] \in {None, p}
IdAvailable(i, p) == i # None => containers[i] \in {None, p}

ReserveContainerID(i, p) ==
  containers' = IF IdAvailable(i, p) THEN [containers EXCEPT ![i] = p] ELSE containers

CanReserveContainer(i, n, p) ==
  pods[p] # None /\ NameAvailable(n, p) /\ IdAvailable(i, p)

ReserveContainer(i, n, p) ==
  /\ containerNames' = [containerNames EXCEPT ![n] = p]
  /\ containers' = IF i = None THEN containers ELSE [containers EXCEPT ![i] = p]

\* Mutant: the id of the buffer is left in the registry.
BugChangeContainerId(old, new, p) ==
  containers' = IF pods[p] # None /\ IdAvailable(new, p)
                THEN [containers EXCEPT ![new] = p]
                ELSE containers

ChangeContainerId(old, new, p) ==
  containers' = IF pods[p] # None /\ IdAvailable(new, p)
                THEN [containers EXCEPT ![old] = None, ![new] = p]
                ELSE containers

ReservePod(x) ==
  /\ pods[NameOf[x]] \in {None, x}
  /\ pods' = [pods EXCEPT ![NameOf[x]] = x]

\* Forgets the ids and the names of the pod that is listed, whoever holds them.
Release(p) ==
  LET cs == IF pods[p] = None THEN {} ELSE held[pods[p]]
  IN  /\ pods' = [pods EXCEPT ![p] = None]
      /\ containers' = [i \in Ids |-> IF i \in cs THEN None ELSE containers[i]]
      /\ containerNames' = [n \in Names |-> IF \E i \in cs : specName[i] = n
                                            THEN None ELSE containerNames[n]]

ReleaseContainer(i, n) ==
  /\ containers' = [j \in Ids |-> IF j = i THEN None ELSE containers[j]]
  /\ containerNames' = [containerNames EXCEPT ![n] = None]

\* The container of x that ContainerName2Id finds for a name.
ContainerName2Id(x, n) ==
  IF \E i \in held[x] : specName[i] = n THEN CHOOSE i \in held[x] : specName[i] = n ELSE None

\* GetByContainerIdOrName: a name, an id, or the ids that begin with the key.
Found(key) ==
  LET Hit(p, i) == IF pods[p] = None THEN {} ELSE {<<pods[p], i>>}
      matching == {i \in key : containers[i] # None}
  IN  IF key \in Names THEN
        IF containerNames[key] = None THEN {}
        ELSE IF pods[containerNames[key]] = None THEN {}
        ELSE {<<pods[containerNames[key]], ContainerName2Id(pods[containerNames[key]], key)>>}
      ELSE IF Cardinality(matching) = 1
           THEN UNION {Hit(containers[i], i) : i \in matching} ELSE {}

-----------------------------------------------------------------------------
(* What the steps of threads have in common. *)

Pod(t) == NameOf[arg[t].x]
Goto(t, step) == pc' = [pc EXCEPT ![t] = step] /\ UNCHANGED arg
Return(t) == pc' = [pc EXCEPT ![t] = "idle"] /\ arg' = [arg EXCEPT ![t] = NoArg]
With(t, step, a) == pc' = [pc EXCEPT ![t] = step] /\ arg' = [arg EXCEPT ![t] = a]

Admitted(p) == PerPod => \A u \in Threads : pc[u] # "idle" => Pod(u) # p
\* A client may use again a name that the pod has already.
NewName(p, n) == containerNames[n] = p => "ownName" \in Calls

Lock(t, x) == resourceLock[x] = None /\ resourceLock' = [resourceLock EXCEPT ![x] = t]
Unlock(x) == resourceLock' = [resourceLock EXCEPT ![x] = None]

\* A fresh container id: not known to the engine or to the registry, and no pod has it.
Fresh(i) == /\ specName[i] = None /\ containers[i] = None
            /\ \A u \in Threads : arg[u].id # i

\* External: the engine refuses a second container of the same name.
NameFreeInEngine(n) == \A i \in engine : specName[i] # n

\* newContainer with the engine's ContainerCreate, and its entry in p.containers.
NewContainer(x, i, n) ==
  /\ NameFreeInEngine(n)
  /\ Fresh(i)
  /\ engine' = engine \cup {i}
  /\ specName' = [specName EXCEPT ![i] = n]
  /\ held' = [held EXCEPT ![x] = @ \cup {i}]
  /\ UNCHANGED life

NewContainerFails(n) == ~NameFreeInEngine(n) \/ "engine" \in Faults

-----------------------------------------------------------------------------
(* CreateXPod.  A container of the spec stands for itself by its name until *)
(* the engine has given it an id, and by its id from then on.               *)

IdOf(c) == IF c \in Ids THEN c ELSE None
SpecNameOf(c) == IF c \in Ids THEN specName[c] ELSE c

\* newXPod and the ReservePod of the first reserveNames.
CreatePod(t, x, spec) ==
  /\ "create" \in Calls
  /\ pc[t] = "idle"
  /\ life[x] = "new"
  /\ Admitted(NameOf[x])
  /\ \/ /\ ReservePod(x)
        /\ life' = [life EXCEPT ![x] = "starting"]
        /\ With(t, "reserve", [NoArg EXCEPT !.x = x, !.spec = spec, !.todo = spec])
     \/ /\ pods[NameOf[x]] \notin {None, x}
        /\ life' = [life EXCEPT ![x] = "dead"]
        /\ UNCHANGED <<pods, pc, arg>>
  /\ UNCHANGED <<containers, containerNames, held, specName, engine, resourceLock, ready>>

\* A failing CreateXPod kills the sandbox and releases the names of the whole spec.
Abort(t) ==
  /\ life' = [life EXCEPT ![arg[t].x] = "dead"]
  /\ With(t, "undo", [arg[t] EXCEPT !.todo = arg[t].spec])
  /\ UNCHANGED <<held, specName, engine>>

\* The loop of reserveNames; its deferred releaseNames undoes what was done so far.
ReserveNames(t) ==
  /\ pc[t] \in {"reserve", "reserve2"}
  /\ \E c \in arg[t].todo :
       \/ /\ CanReserveContainer(IdOf(c), SpecNameOf(c), Pod(t))
          /\ ReserveContainer(IdOf(c), SpecNameOf(c), Pod(t))
          /\ With(t, pc[t], [arg[t] EXCEPT !.todo = @ \ {c}])
       \/ /\ ~CanReserveContainer(IdOf(c), SpecNameOf(c), Pod(t))
          /\ With(t, IF pc[t] = "reserve" THEN "undo" ELSE "undo2",
                  [arg[t] EXCEPT !.todo = arg[t].spec \ @])
          /\ UNCHANGED <<containers, containerNames>>
  /\ UNCHANGED <<pods, world, resourceLock, ready>>

\* createSandbox: from here on the pod is alive and takes requests.
CreateSandbox(t) ==
  /\ pc[t] = "reserve" /\ arg[t].todo = {}
  /\ \/ /\ life' = [life EXCEPT ![arg[t].x] = "alive"]
        /\ With(t, "init", [arg[t] EXCEPT !.todo = arg[t].spec])
        /\ UNCHANGED <<held, specName, engine>>
     \/ "sandbox" \in Faults /\ Abort(t)
  /\ UNCHANGED <<registry, resourceLock, ready>>

\* initResources creates the containers of the spec one by one.
InitResources(t) ==
  /\ pc[t] = "init"
  /\ \E n \in arg[t].todo :
       \/ \E i \in Ids :
            /\ NewContainer(arg[t].x, i, n)
            /\ With(t, "init", [arg[t] EXCEPT !.todo = @ \ {n}, !.spec = (@ \ {n}) \cup {i}])
       \/ NewContainerFails(n) /\ Abort(t)
  /\ UNCHANGED <<registry, resourceLock, ready>>

\* prepareResources, addResourcesToSandbox and the second ReservePod.
AddResources(t) ==
  /\ pc[t] = "init" /\ arg[t].todo = {}
  /\ \/ /\ ReservePod(arg[t].x)
        /\ With(t, "reserve2", [arg[t] EXCEPT !.todo = arg[t].spec])
        /\ UNCHANGED world
     \/ /\ pods[Pod(t)] \notin {None, arg[t].x} \/ "provision" \in Faults
        /\ Abort(t)
        /\ UNCHANGED pods
  /\ UNCHANGED <<containers, containerNames, resourceLock, ready>>

\* savePod.
SavePod(t) ==
  /\ pc[t] = "reserve2" /\ arg[t].todo = {}
  /\ \/ Return(t) /\ ready' = ready \cup arg[t].spec /\ UNCHANGED world
     \/ "save" \in Faults /\ Abort(t) /\ UNCHANGED ready
  /\ UNCHANGED <<registry, resourceLock>>

\* Mutant: a failing CreateXPod leaves the pod in the registry.
BugReleaseNames(t) ==
  /\ pc[t] \in {"undo", "undo2"}
  /\ \/ \E c \in arg[t].todo :
          /\ ReleaseContainer(IdOf(c), SpecNameOf(c))
          /\ With(t, pc[t], [arg[t] EXCEPT !.todo = @ \ {c}])
          /\ UNCHANGED <<pods, world>>
     \/ /\ arg[t].todo = {}
        /\ Return(t)
        /\ life' = [life EXCEPT ![arg[t].x] = "dead"]
        /\ UNCHANGED <<registry, held, specName, engine>>
  /\ UNCHANGED <<resourceLock, ready>>

\* releaseNames: every container, and the pod at last.
ReleaseNames(t) ==
  /\ pc[t] \in {"undo", "undo2"}
  /\ \/ \E c \in arg[t].todo :
          /\ ReleaseContainer(IdOf(c), SpecNameOf(c))
          /\ With(t, pc[t], [arg[t] EXCEPT !.todo = @ \ {c}])
          /\ UNCHANGED <<pods, world>>
     \/ /\ arg[t].todo = {}
        /\ Release(Pod(t))
        /\ IF pc[t] = "undo2" THEN Abort(t)
           ELSE /\ Return(t)
                /\ life' = [life EXCEPT ![arg[t].x] = "dead"]
                /\ UNCHANGED <<held, specName, engine>>
  /\ UNCHANGED <<resourceLock, ready>>

-----------------------------------------------------------------------------
(* A container is created in a pod, at once or through the buffer. *)

\* PodList.Get and IsAlive.
CreateContainerInPod(t, p, n) ==
  /\ {"container", "buffered"} \cap Calls # {}
  /\ pc[t] = "idle"
  /\ Admitted(p) /\ NewName(p, n)
  /\ pods[p] # None /\ life[pods[p]] = "alive"
  /\ With(t, "name", [NoArg EXCEPT !.x = pods[p], !.name = n])
  /\ UNCHANGED <<registry, world, resourceLock, ready>>

ReserveContainerName(t) ==
  /\ pc[t] = "name"
  /\ \/ /\ NameAvailable(arg[t].name, Pod(t))
        /\ containerNames' = [containerNames EXCEPT ![arg[t].name] = Pod(t)]
        /\ \E next \in {s \in {"create", "buffer"} :
                          (IF s = "create" THEN "container" ELSE "buffered") \in Calls} :
             Goto(t, next)
     \/ /\ ~NameAvailable(arg[t].name, Pod(t))
        /\ Return(t)
        /\ UNCHANGED containerNames
  /\ UNCHANGED <<pods, containers, world, resourceLock, ready>>

\* The ReserveContainer of AddContainerBuffer, with an id of the buffer.
AddContainerBuffer(t) ==
  /\ pc[t] = "buffer"
  /\ \E b \in Ids :
       /\ Fresh(b)
       /\ IF CanReserveContainer(b, arg[t].name, Pod(t))
          THEN /\ ReserveContainer(b, arg[t].name, Pod(t))
               /\ With(t, "create", [arg[t] EXCEPT !.id = b])
          ELSE Return(t) /\ UNCHANGED <<containers, containerNames>>
  /\ UNCHANGED <<pods, world, resourceLock, ready>>

\* DoContainerCreate failed; the buffer releases the id and the name (RemoveContainerBufferAll).
CreateFailed(t) == IF arg[t].id = None THEN Return(t) ELSE Goto(t, "drop")

\* DoContainerCreate takes the lock and creates the container in the engine.
DoContainerCreate(t) ==
  LET x == arg[t].x IN
  /\ pc[t] = "create"
  /\ resourceLock[x] = None
  /\ \/ \E i \in Ids :
          /\ NewContainer(x, i, arg[t].name)
          /\ With(t, "id", [arg[t] EXCEPT !.todo = {i}])
          /\ Lock(t, x)
     \/ /\ NewContainerFails(arg[t].name)
        /\ CreateFailed(t)
        /\ UNCHANGED <<world, resourceLock>>
  /\ UNCHANGED <<registry, ready>>

\* The rest of it: the container is added to the sandbox and its id is registered.
ContainerCreated(t) ==
  LET x == arg[t].x IN
  /\ pc[t] = "id"
  /\ Unlock(x)
  /\ \/ /\ life[x] = "alive"
        /\ \E i \in arg[t].todo : IF arg[t].id = None THEN ReserveContainerID(i, Pod(t))
                                  ELSE ChangeContainerId(arg[t].id, i, Pod(t))
        /\ ready' = ready \cup arg[t].todo
        /\ Return(t)
     \/ /\ life[x] # "alive" \/ "provision" \in Faults
        /\ CreateFailed(t)
        /\ UNCHANGED <<containers, ready>>
  /\ UNCHANGED <<pods, containerNames, world>>

RemoveContainerBufferAll(t) ==
  /\ pc[t] = "drop"
  /\ ReleaseContainer(arg[t].id, arg[t].name)
  /\ Return(t)
  /\ UNCHANGED <<pods, world, resourceLock, ready>>

-----------------------------------------------------------------------------
(* ContainerRename, RemoveContainer and RemovePod find what they work on in *)
(* the registry first.                                                      *)

Keys == Names \cup {{i} : i \in Ids} \cup {Ids}

Lookup(t, key, call, step, name) ==
  /\ call \in Calls
  /\ pc[t] = "idle"
  /\ \E f \in Found(key) :
       /\ Admitted(NameOf[f[1]]) /\ (name # None => NewName(NameOf[f[1]], name))
       /\ f[2] \in held[f[1]]
       /\ With(t, step, [NoArg EXCEPT !.x = f[1], !.id = f[2], !.name = name])
  /\ UNCHANGED <<registry, world, resourceLock, ready>>

\* rename: the new name is reserved, and the old one noted.
RenameReserve(t) ==
  /\ pc[t] = "newName"
  /\ \/ /\ NameAvailable(arg[t].name, Pod(t))
        /\ containerNames' = [containerNames EXCEPT ![arg[t].name] = Pod(t)]
        /\ With(t, "rename", [arg[t] EXCEPT !.todo = {specName[arg[t].id]}])
     \/ /\ ~NameAvailable(arg[t].name, Pod(t))
        /\ Return(t)
        /\ UNCHANGED containerNames
  /\ UNCHANGED <<pods, containers, world, resourceLock, ready>>

\* rename: the engine's answer decides which of the names is released.
Rename(t) ==
  LET i == arg[t].id
      EngineRenames(old) == i \in engine /\ specName[i] = old /\ NameFreeInEngine(arg[t].name)
  IN
  /\ pc[t] = "rename"
  /\ \E old \in arg[t].todo :
       \/ /\ EngineRenames(old)
          /\ containerNames' = [containerNames EXCEPT ![old] = None]
          /\ specName' = [specName EXCEPT ![i] = arg[t].name]
       \/ /\ ~EngineRenames(old) \/ "engine" \in Faults
          /\ containerNames' = [containerNames EXCEPT ![arg[t].name] = None]
          /\ UNCHANGED specName
  /\ Return(t)
  /\ UNCHANGED <<pods, containers, life, held, engine, resourceLock, ready>>

\* RemoveContainer, under resourceLock.
RemoveContainer(t) ==
  LET x == arg[t].x
      i == arg[t].id
  IN
  /\ pc[t] = "remove"
  /\ resourceLock[x] = None
  /\ \/ /\ i \in held[x]
        /\ engine' = engine \ {i}
        /\ ReleaseContainer(i, specName[i])
        /\ held' = [held EXCEPT ![x] = @ \ {i}]
     \/ /\ i \notin held[x] \/ "engine" \in Faults
        /\ UNCHANGED <<containers, containerNames, held, engine>>
  /\ Return(t)
  /\ UNCHANGED <<pods, life, specName, resourceLock, ready>>

RemovePod(t, p) ==
  /\ "remove" \in Calls
  /\ pc[t] = "idle"
  /\ Admitted(p)
  /\ pods[p] # None
  /\ With(t, "release", [NoArg EXCEPT !.x = pods[p]])
  /\ UNCHANGED <<registry, world, resourceLock, ready>>

ReleasePod(t) ==
  /\ pc[t] = "release"
  /\ Release(Pod(t))
  /\ Goto(t, "stop")
  /\ UNCHANGED <<world, resourceLock, ready>>

\* Stop, and the part of Remove that takes the lock.
StopPod(t) ==
  LET x == arg[t].x IN
  /\ pc[t] = "stop"
  /\ Lock(t, x)
  /\ life' = [life EXCEPT ![x] = "dead"]
  /\ With(t, "removeEach", [arg[t] EXCEPT !.todo = held[x]])
  /\ UNCHANGED <<registry, held, specName, engine, ready>>

\* The loop of Remove over p.containers.
RemoveEach(t) ==
  /\ pc[t] = "removeEach"
  /\ \/ \E i \in arg[t].todo :
          /\ ReleaseContainer(i, specName[i])
          /\ engine' = engine \ {i}
          /\ With(t, "removeEach", [arg[t] EXCEPT !.todo = @ \ {i}])
          /\ UNCHANGED resourceLock
     \/ /\ arg[t].todo = {}
        /\ Unlock(arg[t].x)
        /\ Return(t)
        /\ UNCHANGED <<containers, containerNames, engine>>
  /\ UNCHANGED <<pods, life, held, specName, ready>>

Next ==
  \E t \in Threads :
    \/ \E x \in XPods, spec \in SUBSET Names : CreatePod(t, x, spec)
    \/ ReserveNames(t)
    \/ CreateSandbox(t)
    \/ InitResources(t)
    \/ AddResources(t)
    \/ SavePod(t)
    \/ ReleaseNames(t)
    \/ \E p \in PodIds, n \in Names : CreateContainerInPod(t, p, n)
    \/ ReserveContainerName(t)
    \/ AddContainerBuffer(t)
    \/ DoContainerCreate(t)
    \/ ContainerCreated(t)
    \/ RemoveContainerBufferAll(t)
    \/ \E key \in Keys, n \in Names : Lookup(t, key, "rename", "newName", n)
    \/ RenameReserve(t)
    \/ Rename(t)
    \/ \E key \in Keys : Lookup(t, key, "rmc", "remove", None)
    \/ RemoveContainer(t)
    \/ \E p \in PodIds : RemovePod(t, p)
    \/ ReleasePod(t)
    \/ StopPod(t)
    \/ RemoveEach(t)

Spec == Init /\ [][Next]_vars

-----------------------------------------------------------------------------
(* Properties. *)

\* No request is being worked on.
Quiet == \A t \in Threads : pc[t] = "idle"

\* CreateXPod registers a pod before it starts it and again after it has provisioned it, and
\* unregisters it on every failure; RemovePod unregisters it before it stops it.  Once all
\* requests have returned a pod is registered under its id exactly if it is alive, also when
\* two pods of the same id were created and removed in turns.
ListedIffAlive ==
  Quiet => \A x \in XPods : life[x] = "alive" <=> pods[NameOf[x]] = x

\* GetByContainerIdOrName finds the containers of a pod by their ids, and nothing else under
\* them: the id that a buffered creation reserved has been replaced (ChangeContainerId) or
\* released, whichever steps failed.
IdsExact ==
  Quiet => \A p \in PodIds :
    {i \in Ids : containers[i] = p} = IF pods[p] = None THEN {} ELSE held[pods[p]] \cap ready

\* A container whose creation has succeeded is found by its name: no request on another pod
\* takes the name away.  This is so until a pod with containers is removed or fails to be
\* created: RemovePod releases the names twice (podlist.go Release, then Remove), and by the
\* second time a name may belong to another pod.
NamesFindable ==
  (Quiet /\ \A x \in XPods : life[x] = "dead" => held[x] = {}) =>
    \A p \in PodIds : pods[p] # None =>
      \A i \in held[pods[p]] \cap ready : containerNames[specName[i]] = p

\* GetByContainerIdOrName finds the containers of a pod by their ids and by their names, and
\* the registry and the locks of the pods are well formed (podlist.go).
RegistryExact == TypeOK /\ IdsExact /\ NamesFindable
=============================================================================
