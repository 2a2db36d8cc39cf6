------------------------------ MODULE MCParts ------------------------------
(***************************************************************************)
(* Instances of the modules that work by themselves.  They share nothing:  *)
(* a behaviour is one of the part that the initial state chooses, and the  *)
(* variables v1, v2, ... stand for those of that part.                     *)
(***************************************************************************)
EXTENDS PortMapping, Services, TLC

CONSTANTS p1, p2, p3, Refused, Gone

VARIABLES part, v1, v2, v3, v4, v5, v6, v7, v8, v9, v10, v11, v12, v13, v14

-----------------------------------------------------------------------------
\* Three pods want the host port 1; one of them has a range and one two
\* mappings with one destination.  The last mapping can not be realised.
tcp(f, t) == [proto |-> "tcp", from |-> f, to |-> t]
One1 == tcp(<<1, 0>>, <<8, 8>>)
One2 == tcp(<<2, 2>>, <<8, 8>>)
Two == tcp(<<1, 2>>, <<8, 9>>)
Mismatch == tcp(<<1, 2>>, <<8, 8>>)
MCSpecOf == p1 :> <<One1>> @@ p2 :> <<Two>> @@ p3 :> <<One1>>
MCAddsOf == p1 :> {<<One2>>, <<One2, Mismatch>>} @@ p2 :> {} @@ p3 :> {}
MCDelsOf == p1 :> {<<One1>>} @@ p2 :> {} @@ p3 :> {}
MCFaults == {{"insert", "crash"}, {"exec"}, {"delete"}}
MCBudgets == {p1 :> 2 @@ p2 :> 1 @@ p3 :> 1, p1 :> 4 @@ p2 :> 0 @@ p3 :> 0}

\* Lists of services that meet: a second spelling of a protocol, another host for
\* a service, a service without an address and one of an unknown protocol.
Service(i, p, h) == [ip |-> i, proto |-> p, hosts |-> h]
MCLists ==
  LET s1 == Service("s", "tcp", {1})
      s2 == Service("s", "tcp", {2})
      s3 == Service("s", "TCP", {1})
      u == Service("u", "udp", {1})
  IN {<<>>, <<s1>>, <<s2>>, <<u>>, <<u, s3>>, <<s1, u>>,
      <<Service("", "tcp", {1})>>, <<Service("s", "sctp", {1})>>}
MCSvFaults == {{}, {"exec", "restore"}}

\* Ports as they are written: none, one, a range, a reversed range, a number that is too large.
PortText(h, c, p) == [host |-> h, container |-> c, proto |-> p]
MCPodPorts ==
  LET hosts == {<<>>, <<2>>, <<3>>, <<4>>, <<2, 3>>}
      maps == {PortText(h, c, p) : h \in hosts \cup {<<3, 3>>, <<3, 2>>, <<9>>},
                                   c \in {<<>>, <<2>>, <<3>>, <<3, 4>>}, p \in {"", "tcp", "udp"}}
                \cup {PortText(<<2>>, <<2>>, "sctp")}
      good == {PortText(h, c, "tcp") : h \in hosts, c \in {<<>>, <<2>>, <<3>>, <<3, 4>>}}
  IN {<<m>> : m \in maps} \cup TupleOf(maps, 2) \cup TupleOf(good, 3)
MCContainerPorts == {<<>>, <<PortText(4, 2, "")>>, <<PortText(4, 2, "tcp")>>}

\* Containers that name their volumes or describe them, with images that declare volumes, and
\* specifications with one thing wrong.
Ref(v, p, o) == [volume |-> v, path |-> p, own |-> o]
Vol(n, s) == [name |-> n, source |-> s, format |-> "", cache |-> ""]
Con(vs) ==
  [id |-> "", image |-> "plain", volumes |-> vs, envs |-> <<>>, files |-> <<>>, cache |-> ""]
MCImageVolumes == "plain" :> {} @@ "db" :> {"/a_b", "/etc/hosts", "/a/b"}
MCUnderscored == "/a_b" :> "_a_b" @@ "/a/b" :> "_a_b" @@ "/etc/hosts" :> "_etc_hosts"
VolumeLists ==
  {<<>>, <<Ref(<<"v">>, "/a_b", None)>>,
   <<Ref(<<"v">>, "/x", None), Ref(<<"w">>, "/a_b", "")>>,
   <<Ref(<<"w">>, "/etc/resolv.conf", "dir")>>,
   <<Ref(<<"v">>, "/x", None), Ref(<<"v">>, "/y", None)>>,
   <<Ref(<<"v">>, "/x", None), Ref(<<"w">>, "/x", "dir")>>}
Ctrs == {[Con(vs) EXCEPT !.id = i, !.image = im] :
           vs \in VolumeLists, i \in {"", "same", "gone"}, im \in {"plain", "db"}}
Base(cs, vs) ==
  [hostname |-> "", gateways |-> 1, volumes |-> vs, files |-> <<"f">>, services |-> <<"s">>,
   dns |-> <<>>, containers |-> cs]
Odd ==
  LET plain == Base(<<Con(<<>>)>>, <<>>)
      file(n, p, m) == [plain EXCEPT !.containers[1].files = <<[name |-> n, path |-> p, perm |-> m]>>]
  IN {[plain EXCEPT !.hostname = "odd"], [plain EXCEPT !.gateways = 2],
      [plain EXCEPT !.dns = <<"odd">>], [plain EXCEPT !.dns = <<"ok">>],
      [plain EXCEPT !.files = <<"f", "f">>], [plain EXCEPT !.services = <<"s", "s">>],
      [plain EXCEPT !.volumes = <<Vol(<<"v">>, ""), Vol(<<"v">>, "")>>],
      [plain EXCEPT !.volumes = <<[Vol(<<"v">>, "") EXCEPT !.format = "odd"]>>],
      [plain EXCEPT !.volumes = <<[Vol(<<"v">>, "") EXCEPT !.cache = "odd"]>>],
      [plain EXCEPT !.containers[1].envs = <<"e", "e">>],
      [plain EXCEPT !.containers[1].cache = "odd"],
      file("f", "/etc/hosts", ""), file("f", "/f", "odd"), file("g", "/f", "")}
MCSpecs ==
  {Base(<<c>>, vs) : c \in Ctrs, vs \in {<<>>, <<Vol(<<"v">>, "")>>, <<Vol(<<"v">>, "dev")>>}}
    \cup {Base(<<c, d>>, <<Vol(<<"v">>, "")>>) : c, d \in Ctrs}
    \cup Odd
MCLater == {[Con(vs) EXCEPT !.image = im] : vs \in VolumeLists, im \in {"plain", "db"}}

\* Pod ids and volume names that are joined to one name with a dash between.
MCVolumes == {<<<<"a">>, <<"c">>>>, <<<<"a", "b">>, <<"c">>>>}

\* Layers that need up to three remounts, files that the image has too.
InjectedFile(p, m, im, n) == [path |-> p, perm |-> m, image |-> im, size |-> n]
MCFileLists ==
  {<<>>, <<InjectedFile("/f", <<0, 6, 4, 4>>, 2, 1)>>,
   <<InjectedFile("/f", <<0, 6, 0, 0>>, 0, 1), InjectedFile("/g", <<0>>, 1, 1)>>}
MCLayerLists == {<<1>>, <<1, 1>>, <<1, 2>>, <<2, 1, 1>>, <<3, 1>>, <<1, 1, 1, 1>>}

\* A section below another, a value that needs quotes and one that refers to a key.
MCSections == {<<"Log">>, <<"Log", "x">>}
MCValues == {[text |-> "plain", var |-> None], [text |-> "tick", var |-> None],
             [text |-> "x", var |-> <<"p", "s">>]}

-----------------------------------------------------------------------------
Ps == INSTANCE PortSpec WITH
  MinPort <- 2, MaxPort <- 4, PodPorts <- MCPodPorts,
  ContainerPorts <- MCContainerPorts,
  given <- v1, ports <- v2, merged <- v3

Sp == INSTANCE PodSpec WITH
  Specs <- MCSpecs, Later <- MCLater, ImageVolumes <- MCImageVolumes, Underscored <- MCUnderscored,
  HostDns <- TRUE, Formats <- {"raw", "vfs"}, Caches <- {"none"},
  SpecFaults <- {"engine", "describe", "volume"},
  input <- v1, phase <- v2, containers <- v3, refs <- v4, injected <- v5, source <- v6, mounts <-
  v7, volumes <- v8, saved <- v9

Dm == INSTANCE DmVolume WITH
  Volumes <- MCVolumes, DevIds <- {1, 2, 3}, MaxReboots <- 1,
  DmFaults <- {"pool", "create_thin", "map", "mkfs", "db", "unmap", "crash", "reboot"},
  pool <- v1, thin <- v2, formatted <- v3, mapped <- v4, recs <- v5, job <- v6, answered <- v7,
  suspect <- v8, reboots <- v9

Rt == INSTANCE RootFs WITH
  Drivers <- {"aufs", "overlay", "btrfs", "devicemapper", "rawblock", "vbox"},
  LayerLists <- MCLayerLists, Room <- 2, FileLists <- MCFileLists, MaxRuns <- 3,
  RootFaults <- {"write", "mount", "umount", "prepare"},
  driver <- v1, layers <- v2, files <- v3, readonly <- v4, at <- v5, next <- v6, mounts <- v7,
  device <- v8, written <- v9, bound <- v10, vdesc <- v11, verror <- v12, stuck <- v13, runs <- v14

Bl == INSTANCE RawBlock WITH
  Layers <- {"l1", "l2"}, BlockUsers <- {"u1", "u2", "u3"}, MaxStuck <- 2,
  BlockFaults <- {"mkfs", "mount", "umount", "crash"},
  block <- v1, active <- v2, mnt <- v3, using <- v4, old <- v5

Cf == INSTANCE ConfigFile WITH
  Sections <- MCSections, KeyNames <- {<<"p">>, <<"r">>}, Values <- MCValues, MaxEdits <- 4,
  data <- v1, sectionList <- v2, keyList <- v3, keyComments <- v4, file <- v5, cfg <- v6, edits <-
  v7

Ap == INSTANCE Api WITH
  PodIds <- {"p1", "p2"}, CtrIds <- {"c1", "c2"}, RunningMax <- 2,
  pods <- v1, alive <- v2, home <- v3, up <- v4, queued <- v5, last <- v6

Lf == INSTANCE DaemonLife WITH
  Pods <- {"p1", "p2"}, Hosts <- {"h1"}, MaxBoots <- 3,
  LifeFaults <- {"init", "list", "migrate", "load", "listen", "die", "serve", "release", "stop", "crash"},
  phase <- v1, boots <- v2, opened <- v3, toLoad <- v4, remains <- v5, cause <- v6, vm <- v7,
  watched <- v8, listed <- v9, layout <- v10, sb <- v11, busy <- v12, torn <- v13, missed <- v14

-----------------------------------------------------------------------------
spare == <<v1, v2, v3, v4, v5, v6, v7, v8, v9, v10, v11, v12, v13, v14>>

\* With two clients and more, rules are inserted or the daemon dies; the other faults are of one.
NetworkInit ==
  /\ part \in {"port mappings", "services"}
  /\ PmInit /\ SvInit
  /\ part = "port mappings" => spec = <<>> /\ svFaults = {}
  /\ "insert" \in faults <=> calls[p2] = 1
  /\ part = "services" => faults = {"exec"}

OtherInit ==
  \/ /\ part = "port specification" /\ Ps!PsInit
     /\ v4 = None /\ v5 = None /\ v6 = None /\ v7 = None /\ v8 = None /\ v9 = None /\ v10 = None
     /\ v11 = None /\ v12 = None /\ v13 = None /\ v14 = None
  \/ /\ part = "pod specification" /\ Sp!SpecInit
     /\ v10 = None /\ v11 = None /\ v12 = None /\ v13 = None /\ v14 = None
  \/ /\ part = "volumes" /\ Dm!DmInit
     /\ v10 = None /\ v11 = None /\ v12 = None /\ v13 = None /\ v14 = None
  \/ /\ part = "root" /\ Rt!RootInit
  \/ /\ part = "rawblock" /\ Bl!BlockInit
     /\ v6 = None /\ v7 = None /\ v8 = None /\ v9 = None /\ v10 = None /\ v11 = None /\ v12 = None
     /\ v13 = None /\ v14 = None
  \/ /\ part = "configuration" /\ Cf!CfInit
     /\ v8 = None /\ v9 = None /\ v10 = None /\ v11 = None /\ v12 = None /\ v13 = None /\ v14 = None
  \/ /\ part = "api" /\ Ap!ApiInit
     /\ v7 = None /\ v8 = None /\ v9 = None /\ v10 = None /\ v11 = None /\ v12 = None /\ v13 = None
     /\ v14 = None
  \/ /\ part = "daemon" /\ Lf!LifeInit

NoNetwork ==
  /\ PmInit /\ SvInit
  /\ faults = {"exec"} /\ calls[p2] = 0 /\ spec = <<>> /\ svFaults = {}

MCInit ==
  \/ /\ NetworkInit
     /\ v1 = None /\ v2 = None /\ v3 = None /\ v4 = None /\ v5 = None /\ v6 = None /\ v7 = None
     /\ v8 = None /\ v9 = None /\ v10 = None /\ v11 = None /\ v12 = None /\ v13 = None /\ v14 = None
  \/ NoNetwork /\ OtherInit

OtherNext ==
  \/ part = "port specification" /\ Ps!PsNext /\ UNCHANGED <<v4, v5, v6, v7, v8, v9, v10, v11, v12, v13, v14>>
  \/ part = "pod specification" /\ Sp!SpecNext /\ UNCHANGED <<v10, v11, v12, v13, v14>>
  \/ part = "volumes" /\ Dm!DmNext /\ UNCHANGED <<v10, v11, v12, v13, v14>>
  \/ part = "root" /\ Rt!RootNext
  \/ part = "rawblock" /\ Bl!BlockNext /\ UNCHANGED <<v6, v7, v8, v9, v10, v11, v12, v13, v14>>
  \/ part = "configuration" /\ Cf!CfNext /\ UNCHANGED <<v8, v9, v10, v11, v12, v13, v14>>
  \/ part = "api" /\ Ap!ApiNext /\ UNCHANGED <<v7, v8, v9, v10, v11, v12, v13, v14>>
  \/ part = "daemon" /\ Lf!LifeNext

MCNext ==
  /\ \/ part = "port mappings" /\ PmNext /\ UNCHANGED <<svVars, spare>>
     \/ part = "services" /\ SvNext /\ UNCHANGED <<pmVars, spare>>
     \/ OtherNext /\ UNCHANGED <<pmVars, svVars>>
  /\ UNCHANGED part

MCSpec == MCInit /\ [][MCNext]_<<pmVars, svVars, spare, part>>

-----------------------------------------------------------------------------
\* The ports of a specification are read, written, merged and read again without a change of
\* what is forwarded (MergePortmappings and mergeContinuousPorts, types/utils.go).
PortsAreKept == part = "port specification" => Ps!PortsReadBack /\ Ps!MergeIsExact

\* A pod has the volumes its specification and its images ask for, and after a restart of the
\* daemon the same ones (ReorganizeContainers, mergeVolumes in daemon/pod).
VolumesAreKept == part = "pod specification" => Sp!SpecIsKept /\ Sp!LoadedAsSaved

\* A device of the thin pool is one volume's and keeps what was put on it
\* (CreateVolume, storage/devicemapper/dm.go).
VolumeIsItsOwn == part = "volumes" => Dm!VolumeIsItsOwn

\* A container runs on all layers of its image, keeps the files injected into it, and nothing
\* stays mounted afterwards (PrepareContainer and InjectFile, daemon/storage.go).
RootIsWhole == part = "root" => Rt!RootIsWhole /\ Rt!NothingLeftMounted /\ Rt!FilesAreKept

\* A raw block layer is mounted as long as it is used (Get and Put, graphdriver/rawblock).
MountedWhileUsed == part = "rawblock" => Bl!MountedWhileUsed

\* A configuration that is saved and loaded is the same (SaveConfigFile, LoadFromReader).
SavedIsLoaded == part = "configuration" => Cf!SavedIsLoaded

\* HTTP and gRPC lead to the same operations, and their answers are true (server, serverrpc).
AnswersAreTrue == part = "api" => Ap!FrontEndsAgree /\ Ap!AnswerIsTrue

\* The sandboxes a daemon leaves behind are found by the next one, and SIGTERM leaves none
\* (mainDaemon, Restore, Shutdown).
SandboxesAreKept == part = "daemon" => Lf!KeptVmsReturn /\ Lf!TermLeavesNoVm
=============================================================================
