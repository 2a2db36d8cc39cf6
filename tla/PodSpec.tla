------------------------------ MODULE PodSpec -------------------------------
(***************************************************************************)
(* From the specification of a pod to its containers and volumes: the      *)
(* validation (types/validate.go), the resolution of references            *)
(* (types/utils.go), the creation of each container and of its volumes by  *)
(* the engine and the storage (container.go, initResources in              *)
(* provision.go), containers that are added to the pod later, and the way  *)
(* all of this is loaded again when the daemon restarts.                   *)
(*                                                                         *)
(* A volume reference is [volume, path, detail]; a detail is a pointer to  *)
(* a UserVolume: <<"pod", name>> for a volume of the pod, <<"own", c, n>>  *)
(* for one that came with container c or was made for it, or None.  The    *)
(* name of a volume is <<name>>, or that of the container and a path; a    *)
(* detail that comes along has the name of its reference.                  *)
(***************************************************************************)
EXTENDS Naturals, Sequences, SequencesExt, FiniteSets, Functions

CONSTANTS
  Specs,        \* specifications of pods
  Later,        \* specifications of the containers that may be added
  ImageVolumes, \* the paths that each image declares as volumes
  Underscored,  \* what becomes of a path when "/" is replaced by "_"
  HostDns,      \* whether the host has a resolv.conf
  Formats,      \* the known volume drivers
  Caches,       \* the known cache modes
  SpecFaults,   \* what may fail: a subset of {"engine", "describe", "volume"}
  None

VARIABLES
  input,     \* the specification as it was given
  phase,     \* how far its creation got
  containers,\* the specifications of the containers, those added later included
  refs,      \* spec.Volumes of each container, from the first one to the last
  injected,  \* spec.Files of each container, by their paths
  source,    \* Source of each UserVolume: "" until the volume is created
  mounts,    \* descript.Volumes of each container: where each volume is mounted
  volumes,   \* p.volumes: the UserVolume of each name
  saved      \* mounts when the pod was saved

specVars == <<input, phase, containers, refs, injected, source, mounts, volumes, saved>>

Empty == [x \in {} |-> None]

\* The keys of a list are unique.
keySet(keys) == IsInjective(keys)
Names(vs) == [i \in DOMAIN vs |-> vs[i].name]
RefNames(rs) == [i \in DOMAIN rs |-> rs[i].volume]

\* Mutant: a reference to a volume that the specification lacks is accepted.
BugHasVolume(spec, r) == TRUE
HasVolume(spec, r) == r.own # None \/ \E i \in DOMAIN spec.volumes : spec.volumes[i].name = r.volume

Validate(spec) ==
  /\ spec.hostname \in {"", "label"}
  /\ spec.gateways <= 1
  /\ keySet(Names(spec.volumes))
  /\ keySet(spec.files)
  /\ keySet(spec.services)
  /\ \A i \in DOMAIN spec.containers :
       LET c == spec.containers[i]
       IN /\ keySet(RefNames(c.volumes))
          /\ keySet(c.envs)
          /\ \A j \in DOMAIN c.files : c.files[j].name \in ToSet(spec.files) /\ c.files[j].perm # "odd"
          /\ \A j \in DOMAIN c.volumes : HasVolume(spec, c.volumes[j])
          /\ c.cache \in Caches \cup {""}
  /\ \A i \in DOMAIN spec.volumes :
       /\ spec.volumes[i].format \in Formats \cup {""}
       /\ spec.volumes[i].cache \in Caches \cup {""}
  /\ \A i \in DOMAIN spec.dns : spec.dns[i] # "odd"

\* The references of a container as newContainer gets them, with the details that came along.
Own(i, c) ==
  [j \in DOMAIN c.volumes |->
    [volume |-> c.volumes[j].volume, path |-> c.volumes[j].path,
     detail |-> IF c.volumes[j].own = None THEN None ELSE <<"own", i, c.volumes[j].volume>>]]

\* ReorganizeContainers(true): a reference without a detail takes the volume of the pod of that
\* name; one that finds none is dropped.  Files likewise.
ReorganizeContainers(spec) ==
  LET names == {spec.volumes[k].name : k \in DOMAIN spec.volumes}
      resolved(r) == r.detail # None \/ r.volume \in names
      resolve(r) == IF r.detail # None THEN r ELSE [r EXCEPT !.detail = <<"pod", r.volume>>]
      kept(i) == SelectSeq(Own(i, spec.containers[i]), resolved)
  IN [i \in DOMAIN spec.containers |-> [j \in DOMAIN kept(i) |-> resolve(kept(i)[j])]]

FilesOf(spec, c) == {f.path : f \in {x \in ToSet(c.files) : x.name \in ToSet(spec.files)}}

\* The sources that came with details.
OwnSources(i, c) ==
  [o \in {<<"own", i, r.volume>> : r \in {x \in ToSet(c.volumes) : x.own # None}} |->
    (CHOOSE r \in ToSet(c.volumes) : r.volume = o[3] /\ r.own # None).own]
PodSources(spec) ==
  [o \in {<<"pod", v.name>> : v \in ToSet(spec.volumes)} |->
    (CHOOSE v \in ToSet(spec.volumes) : v.name = o[2]).source]
Both(f, g) == [x \in DOMAIN f \cup DOMAIN g |-> IF x \in DOMAIN f THEN f[x] ELSE g[x]]

-----------------------------------------------------------------------------
(* newContainer: the container is made by the engine, or one with the      *)
(* given id is taken over.                                                 *)

\* loaded: an id was given, whether or not the engine knows it under the name of the
\* specification ("same"), knows it under another one, or does not know it.
loaded(c) == c.id # ""
LoadJson(c) == c.id = "same"

\* mergeVolumes: the volumes of the image at paths that have none yet get an empty volume, in
\* no order.
Anonymous(i, p) == [volume |-> <<i, Underscored[p]>>, path |-> p, detail |-> <<"own", i, <<p>>>>]
mergeVolumes(i, rs, image) ==
  LET new == ImageVolumes[image] \ {rs[j].path : j \in DOMAIN rs}
  IN {rs \o [j \in DOMAIN q |-> Anonymous(i, q[j])] : q \in SetToSeqs(new)}
AnonymousSources(i, image) == [o \in {<<"own", i, <<p>>>> : p \in ImageVolumes[image]} |-> ""]

\* createVolumes: every volume that has no source is created.
Uncreated(rs, src) == {r \in ToSet(rs) : r.detail # None /\ src[r.detail] = ""}
createVolumes(rs, src) ==
  [o \in DOMAIN src |-> IF \E r \in Uncreated(rs, src) : r.detail = o THEN "made" ELSE src[o]]

Hosts == [volume |-> <<"etchosts-volume">>, path |-> "/etc/hosts", detail |-> <<"pod", <<"etchosts-volume">>>>]

\* configEtcHosts, unless something is at the path.
configEtcHosts(rs, fs) ==
  IF "/etc/hosts" \in fs \cup {r.path : r \in ToSet(rs)} THEN rs ELSE Append(rs, Hosts)

\* configDNS, unless the pod or the container says something about it.
configDNS(rs, fs) ==
  IF \/ input.dns # <<>>
     \/ ~HostDns
     \/ "/etc/resolv.conf" \in fs \cup {r.path : r \in ToSet(rs)}
  THEN fs ELSE fs \cup {"/etc/resolv.conf"}

\* parseVolumes: the mount points of each volume.
parseVolumes(rs) ==
  [v \in {r.volume : r \in ToSet(rs)} |-> {r.path : r \in {x \in ToSet(rs) : x.volume = v}}]

\* The volumes of a container: the first detail of each name.
volumesOf(rs) ==
  LET named == SelectSeq(rs, LAMBDA r : r.detail # None)
  IN [v \in {r.volume : r \in ToSet(named)} |->
       named[CHOOSE j \in DOMAIN named :
               named[j].volume = v /\ \A k \in 1 .. j - 1 : named[k].volume # v].detail]

\* The container i has been made with the references rs.
Made(i, c, rs, fs) ==
  LET withOwn == Both(source, Both(OwnSources(i, c), Both(AnonymousSources(i, c.image),
                                                          [o \in {Hosts.detail} |-> "hosts"])))
      all == IF loaded(c) THEN rs ELSE configEtcHosts(rs, fs)
      files == IF loaded(c) THEN fs ELSE configDNS(all, fs)
  IN /\ refs' = [j \in DOMAIN refs \cup {i} |-> IF j = i THEN all ELSE refs[j]]
     /\ injected' = [j \in DOMAIN injected \cup {i} |-> IF j = i THEN files ELSE injected[j]]
     /\ source' = IF loaded(c) THEN withOwn ELSE createVolumes(rs, withOwn)
     /\ mounts' = Append(mounts, parseVolumes(all))
     /\ volumes' = Both(volumes, volumesOf(all))

\* The engine does not make the container.
EngineFails(c) == ~LoadJson(c) /\ "engine" \in SpecFaults

\* describeContainer: its mount point can not be found, or its image names an odd user.
DescribeFails == "describe" \in SpecFaults

\* The storage fails to create a volume: those that were created before it are removed.
StorageFails(i, c, rs) ==
  LET withOwn == Both(source, Both(OwnSources(i, c), AnonymousSources(i, c.image)))
  IN "volume" \in SpecFaults /\ ~loaded(c) /\ Uncreated(rs, withOwn) # {}

-----------------------------------------------------------------------------
SpecInit ==
  /\ input \in Specs
  /\ phase = "given"
  /\ containers = input.containers
  /\ refs = <<>>
  /\ injected = <<>>
  /\ source = Empty
  /\ mounts = <<>>
  /\ volumes = Empty
  /\ saved = <<>>

\* CreatePod validates the specification.
CreatePod ==
  /\ phase = "given"
  /\ phase' = IF Validate(input) THEN "valid" ELSE "refused"
  /\ UNCHANGED <<input, containers, refs, injected, source, mounts, volumes, saved>>

\* newXPod; MergePortmappings is in PortSpec.
NewXPod ==
  /\ phase = "valid"
  /\ phase' = "containers"
  /\ refs' = ReorganizeContainers(input)
  /\ injected' = [i \in DOMAIN containers |-> FilesOf(input, containers[i])]
  /\ source' = PodSources(input)
  /\ UNCHANGED <<input, containers, mounts, volumes, saved>>

\* One turn of the loop of initResources; an error ends the creation of the pod.
InitResources ==
  LET i == Len(mounts) + 1
      c == containers[i]
  IN /\ phase = "containers"
     /\ i <= Len(containers)
     /\ \E rs \in mergeVolumes(i, refs[i], c.image) :
          \/ /\ Made(i, c, rs, injected[i])
             /\ UNCHANGED phase
          \/ /\ EngineFails(c) \/ DescribeFails \/ StorageFails(i, c, rs)
             /\ phase' = "failed"
             /\ UNCHANGED <<refs, injected, source, mounts, volumes>>
     /\ UNCHANGED <<input, containers, saved>>

\* The volumes are mounted, which fails for one without a source (ProbeExistingVolume), and
\* savePod writes the containers, with the references that were added, and the volumes.
SavePod ==
  /\ phase = "containers"
  /\ Len(mounts) = Len(containers)
  /\ phase' = IF \A v \in DOMAIN volumes : source[volumes[v]] # "" THEN "saved" ELSE "failed"
  /\ saved' = mounts
  /\ UNCHANGED <<input, containers, refs, injected, source, mounts, volumes>>

\* doContainerCreate: neither validated nor reorganized.  The step is one that succeeds, its
\* volumes could be mounted.  Bound: one container is added.
AddContainer(c) ==
  LET i == Len(containers) + 1
  IN /\ phase = "saved"
     /\ Len(containers) = Len(input.containers)
     /\ \E rs \in mergeVolumes(i, Own(i, c), c.image) : Made(i, c, rs, {f.path : f \in ToSet(c.files)})
     /\ \A v \in DOMAIN volumes' : source'[volumes'[v]] # ""
     /\ containers' = Append(containers, c)
     /\ saved' = mounts'
     /\ UNCHANGED <<input, phase>>

\* LoadXPod: the containers are loaded from their records, the volumes from theirs.
LoadXPod ==
  /\ phase = "saved"
  /\ phase' = "loaded"
  /\ refs' \in {q \in [DOMAIN refs -> UNION {mergeVolumes(i, refs[i], containers[i].image) : i \in DOMAIN refs}] :
                  \A i \in DOMAIN refs : q[i] \in mergeVolumes(i, refs[i], containers[i].image)}
  /\ mounts' = [i \in DOMAIN refs |-> parseVolumes(refs'[i])]
  /\ UNCHANGED <<input, containers, injected, source, volumes, saved>>

SpecNext ==
  \/ CreatePod \/ NewXPod \/ InitResources \/ SavePod \/ LoadXPod
  \/ \E c \in Later : AddContainer(c)

-----------------------------------------------------------------------------
(* What is checked. *)

\* Whatever a valid specification mounts is mounted: each volume that a container refers to is
\* a volume of the pod, has a source and is mounted at the path asked for, and so are the
\* volumes of the image at the paths that are left.  ReorganizeContainers would drop an
\* unknown reference, addToSandbox would not wait for an unknown volume, and a volume without
\* a source can not be mounted.  Pods with a container that came with an id are left out: no
\* volume is created for it (see loaded).
SpecIsKept ==
  (\A i \in DOMAIN containers : ~loaded(containers[i])) =>
    \A i \in DOMAIN mounts :
      /\ \A r \in ToSet(refs[i]) :
           r.detail # None => r.volume \in DOMAIN volumes /\ source[volumes[r.volume]] # ""
      /\ \A r \in ToSet(containers[i].volumes) :
           r.volume \in DOMAIN mounts[i] /\ r.path \in mounts[i][r.volume]
      /\ ImageVolumes[containers[i].image] \subseteq UNION Range(mounts[i])

\* What the daemon mounts of its own accord, volumes of the image and /etc/hosts, takes no path
\* that the specification or another volume uses, and a restart of the daemon, which merges the
\* volumes of the image once more, mounts the same volumes at the same paths.
LoadedAsSaved ==
  /\ \A i \in DOMAIN mounts : \A j, k \in DOMAIN refs[i] :
       j < k /\ Len(containers[i].volumes) < k => refs[i][j].path # refs[i][k].path
  /\ phase \in {"saved", "loaded"} => mounts = saved
=============================================================================
