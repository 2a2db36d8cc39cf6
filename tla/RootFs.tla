------------------------------- MODULE RootFs -------------------------------
(***************************************************************************)
(* The root file system of one container, as the storage drivers of        *)
(* daemon/storage.go give it to the pod: files are injected into it when   *)
(* the container is made (under the pod's own directory), it is mounted    *)
(* into the directory shared with the sandbox when the pod starts, and     *)
(* unmounted when the sandbox is cleaned up.  A VFS volume of the pod is   *)
(* bound into the same directory and unbound with it.  Mounting on a mount *)
(* point that is already mounted stacks; unmounting takes the top off.     *)
(***************************************************************************)
EXTENDS Naturals, Sequences, SequencesExt

CONSTANTS Drivers,     \* the storage drivers to look at
          LayerLists,  \* the read-only layers: sequences of the room each takes
          Room,        \* the room for layers in the options of the first aufs mount
          FileLists,   \* what to inject: sequences of [path, perm, image, size]
          RootFaults,  \* the calls that may fail
          MaxRuns,     \* bound: how often the pod is started
          None

VARIABLES driver, layers, files, readonly,   \* the container at hand
          at,        \* "new", "inject", "stopped", "mounting", "running", "cleanup"
          next,      \* aufs: the next layer to append; injection: the next file
          mounts,    \* of a directory: the stack of mounts, each the list of its branches
          device,    \* devicemapper: the container's device is mapped
          written,   \* injected so far: of a path, [perm, length]
          bound,     \* VFS volume: it is bound in the shared directory
          vdesc,     \* VFS volume: its description, kept from the last mount, is set
          verror,    \* VFS volume: it is in S_VOLUME_ERROR
          stuck,     \* history: of a directory, the unmounts that failed
          runs

rootVars == <<driver, layers, files, readonly, at, next, mounts, device, written,
              bound, vdesc, verror, stuck, runs>>

volume == <<bound, vdesc, verror>>

setup == <<driver, layers, files, readonly>>

Dirs == {"pod", "share"}

-----------------------------------------------------------------------------
(* The branches of a mounted root, the topmost first.  The container's own  *)
(* layer is "rw", or "ro" when it must not be written.  A read-only overlay *)
(* is given "lowerdir=lower:upper".                                         *)
OwnLayer(ro) == IF ro THEN "ro" ELSE "rw"

aufsBranches(n, ro) == <<OwnLayer(ro)>> \o [i \in 1 .. n |-> i]

overlayBranches(ro) == IF ro THEN <<1, "ro">> ELSE <<"rw", 1>>

btrfsBranches(ro) == <<OwnLayer(ro)>>

Push(d, b) == mounts' = [mounts EXCEPT ![d] = <<b>> \o @]

Pop(d) == mounts' = [mounts EXCEPT ![d] = IF @ = <<>> THEN @ ELSE Tail(@)]

(* How many layers go into the options of the first aufs mount. *)
firstMount ==
    LET room(n) == FoldSeq(LAMBDA x, y : x + y, 0, SubSeq(layers, 1, n))
    IN  CHOOSE n \in 0 .. Len(layers) :
           /\ room(n) <= Room
           /\ n < Len(layers) => room(n + 1) > Room

MountsDir == {"aufs", "overlay", "btrfs"}

-----------------------------------------------------------------------------
(* utils.PermInt on the digits of an octal permission "0d1d2d3": the code   *)
(* parses what follows the second character.                                *)
PermInt(perm) ==
    FoldLeft(LAMBDA n, digit : 8 * n + digit, 0,
             IF Len(perm) = 1 THEN perm ELSE SubSeq(perm, 3, Len(perm)))

(* storage.WriteFile opens without truncating: what a longer file of the    *)
(* image holds beyond the new content stays.                                *)
WriteFile(f) ==
    [written EXCEPT ![f.path] = [perm |-> PermInt(f.perm),
                                 length |-> IF f.image > f.size THEN f.image ELSE f.size]]

Unwritten == [p \in {"/f", "/g"} |-> None]

RootInit == /\ driver \in Drivers
            /\ layers \in LayerLists
            /\ files \in FileLists
            /\ readonly \in BOOLEAN
            /\ driver # "aufs" => Len(layers) = 1
            /\ at = "new" /\ next = 1
            /\ mounts = [d \in Dirs |-> <<>>]
            /\ device = FALSE
            /\ written = Unwritten
            /\ bound = FALSE /\ vdesc = FALSE /\ verror = FALSE
            /\ stuck = [d \in Dirs |-> 0]
            /\ runs = 0

(* injectFiles: each file is written through a mount of its own; the first  *)
(* error ends the injection (and is dropped by Container.init).             *)
InjectFile ==
    /\ at = "new" /\ next <= Len(files) /\ driver # "vbox"
    /\ CASE driver = "devicemapper" -> device' = TRUE /\ UNCHANGED mounts
         [] driver = "aufs" -> Push("pod", aufsBranches(Len(layers), FALSE)) /\ UNCHANGED device
         [] driver = "overlay" -> Push("pod", overlayBranches(FALSE)) /\ UNCHANGED device
         [] driver = "rawblock" -> Push("pod", <<"rw">>) /\ UNCHANGED device
         [] driver = "btrfs" -> UNCHANGED <<mounts, device>>
    /\ at' = "inject"
    /\ UNCHANGED <<setup, next, written, volume, stuck, runs>>

(* The file is written (or not) and the deferred unmount follows.  PutImage *)
(* of rawblock then removes all that it finds on the mount point: below a   *)
(* mount that an earlier file left there, the container's own files.        *)
Wipes == driver = "rawblock" /\ Len(mounts["pod"]) > 1

Injected ==
    /\ at = "inject"
    /\ \E ok \in {TRUE, "write" \notin RootFaults} :
         LET now == IF ok THEN WriteFile(files[next]) ELSE written
         IN  /\ next' = IF ok THEN next + 1 ELSE Len(files) + 1
             /\ \/ /\ driver \in {"aufs", "overlay", "rawblock"}
                   /\ Pop("pod")
                   /\ written' = IF Wipes THEN Unwritten ELSE now
                   /\ UNCHANGED stuck
                \/ /\ driver \in {"aufs", "overlay", "rawblock"} /\ "umount" \in RootFaults
                   /\ stuck' = [stuck EXCEPT !["pod"] = @ + 1]
                   /\ written' = now
                   /\ UNCHANGED mounts
                \/ /\ driver \in {"devicemapper", "btrfs"}
                   /\ written' = now
                   /\ UNCHANGED <<mounts, stuck>>
    /\ at' = "new"
    /\ UNCHANGED <<setup, device, volume, runs>>

(* Mounting for the injection fails: aufs and rawblock clear the target on  *)
(* their way out, whatever is mounted there.  vbox refuses every injection. *)
InjectFails ==
    /\ at = "new" /\ next <= Len(files)
    /\ "mount" \in RootFaults \/ driver = "vbox"
    /\ next' = Len(files) + 1
    /\ IF driver = "aufs" THEN Pop("pod") ELSE UNCHANGED mounts
    /\ written' = IF driver = "rawblock" /\ mounts["pod"] # <<>> THEN Unwritten ELSE written
    /\ UNCHANGED <<setup, at, device, volume, stuck, runs>>

InitDone ==
    /\ at = "new" /\ next > Len(files)
    /\ at' = "stopped"
    /\ UNCHANGED <<setup, next, mounts, device, written, volume, stuck, runs>>

-----------------------------------------------------------------------------
(* MountVFSVolume, called by Volume.mount when the volume is added. *)
MountVFSVolume == bound' = TRUE /\ vdesc' = TRUE /\ UNCHANGED verror

(* PrepareContainer into the shared directory of a new sandbox, the volume  *)
(* being added beside it.  aufs mounts as many layers as the options     *)
(* hold and appends the others one remount at a time.                       *)
PrepareContainer ==
    /\ at = "stopped" /\ runs < MaxRuns /\ ~verror
    /\ runs' = runs + 1
    /\ MountVFSVolume
    /\ CASE driver = "aufs" ->
              /\ Push("share", aufsBranches(firstMount, readonly))
              /\ next' = firstMount + 1
              /\ at' = IF firstMount = Len(layers) THEN "running" ELSE "mounting"
              /\ UNCHANGED device
         [] driver \in {"overlay", "btrfs"} ->
              /\ Push("share", IF driver = "overlay" THEN overlayBranches(readonly)
                                                     ELSE btrfsBranches(readonly))
              /\ at' = "running"
              /\ UNCHANGED <<next, device>>
         [] OTHER ->
              /\ device' = (driver = "devicemapper")
              /\ at' = "running"
              /\ UNCHANGED <<mounts, next>>
    /\ UNCHANGED <<setup, written, stuck>>

(* The mount fails: aufsMount unmounts the target on its way out, whatever  *)
(* is mounted there; btrfs detaches a bind it cannot make read-only.        *)
PrepareFails ==
    /\ at = "stopped" /\ runs < MaxRuns
    /\ "mount" \in RootFaults /\ driver \in MountsDir
    /\ IF driver = "aufs" THEN Pop("share") ELSE UNCHANGED mounts
    /\ IF verror THEN UNCHANGED volume ELSE MountVFSVolume
    /\ runs' = runs + 1
    /\ at' = "cleanup"
    /\ UNCHANGED <<setup, next, device, written, stuck>>

(* The start fails before anything is mounted (prepareResources), or the    *)
(* volume in error refuses to be added.                                     *)
StartFails ==
    /\ at = "stopped" /\ runs < MaxRuns
    /\ "prepare" \in RootFaults \/ verror
    /\ runs' = runs + 1
    /\ at' = "cleanup"
    /\ UNCHANGED <<setup, next, mounts, device, written, volume, stuck>>

\* Mutant: a remount puts the layer above those that are mounted already.
BugAppendLayer ==
    /\ at = "mounting"
    /\ mounts' = [mounts EXCEPT !["share"][1] = <<Head(@), next>> \o Tail(@)]
    /\ next' = next + 1
    /\ at' = IF next = Len(layers) THEN "running" ELSE "mounting"
    /\ UNCHANGED <<setup, device, written, volume, stuck, runs>>

AppendLayer ==
    /\ at = "mounting"
    /\ mounts' = [mounts EXCEPT !["share"][1] = Append(@, next)]
    /\ next' = next + 1
    /\ at' = IF next = Len(layers) THEN "running" ELSE "mounting"
    /\ UNCHANGED <<setup, device, written, volume, stuck, runs>>

AppendFails ==
    /\ at = "mounting" /\ "mount" \in RootFaults
    /\ Pop("share")
    /\ at' = "cleanup"
    /\ UNCHANGED <<setup, next, device, written, volume, stuck, runs>>

(* The pod stops, or its start has failed: decommissionResources calls      *)
(* umountRootVol and Volume.umount; their errors do not stop the cleanup.   *)
CleanupContainer ==
    \/ driver \in MountsDir /\ Pop("share") /\ UNCHANGED <<device, stuck>>
    \/ /\ driver \in MountsDir /\ "umount" \in RootFaults
       /\ stuck' = [stuck EXCEPT !["share"] = @ + 1]
       /\ UNCHANGED <<mounts, device>>
    \/ driver = "devicemapper" /\ device' = FALSE /\ UNCHANGED <<mounts, stuck>>
    \/ driver \in {"rawblock", "vbox"} /\ UNCHANGED <<mounts, device, stuck>>

(* Volume.umount goes by the description, which a stop does not reset: a    *)
(* busy mount is detached lazily, one that is not there is an error.        *)
UmountVFSVolume == /\ bound' = FALSE
                   /\ verror' = (vdesc /\ ~bound)
                   /\ UNCHANGED vdesc

Cleanup ==
    /\ at \in {"running", "cleanup"}
    /\ CleanupContainer
    /\ UmountVFSVolume
    /\ at' = "stopped"
    /\ UNCHANGED <<setup, next, written, runs>>

RootNext == \/ InjectFile \/ Injected \/ InjectFails \/ InitDone
            \/ PrepareContainer \/ PrepareFails \/ StartFails \/ AppendLayer \/ AppendFails \/ Cleanup

RootSpec == RootInit /\ [][RootNext]_rootVars

-----------------------------------------------------------------------------
(* A running container sees its own layer first and every layer of its      *)
(* image below it, in the image's order, however many remounts that took;   *)
(* the driver that stacks a read-only root the other way is overlay.        *)
RootIsWhole ==
    at = "running" /\ driver \in MountsDir /\ ~(driver = "overlay" /\ readonly) =>
        /\ mounts["share"] # <<>>
        /\ Head(mounts["share"]) =
              <<OwnLayer(readonly)>> \o [i \in 1 .. (IF driver = "btrfs" THEN 0 ELSE Len(layers)) |-> i]

(* Between runs nothing of the container stays mounted but what an unmount  *)
(* failed to take off: every path through injection, a failed start and a   *)
(* stop unmounts what it mounted.                                           *)
NothingLeftMounted ==
    at = "stopped" => ~bound /\ \A d \in Dirs : Len(mounts[d]) <= stuck[d]

(* The files are injected in their order, and one that was injected stays   *)
(* unless an unmount has failed: a container has a first part of its list.  *)
FilesAreKept ==
    stuck["pod"] = 0 =>
        \A i, j \in 1 .. Len(files) :
            i < j /\ written[files[j].path] # None => written[files[i].path] # None
=============================================================================
