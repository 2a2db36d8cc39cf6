------------------------------ MODULE DmVolume ------------------------------
(***************************************************************************)
(* The volumes that the devicemapper storage driver makes for pods         *)
(* (daemon/storage.go, DevMapperStorage; storage/devicemapper/dm.go).  A   *)
(* volume is a thin device of a pool, known by a random device id, mapped  *)
(* under a name computed from the pod and the volume, and recorded in the  *)
(* daemon's database as "name:id".  Creating one is a series of dmsetup    *)
(* commands, each of which may fail, and the daemon may die between two of *)
(* them; the pool itself does not outlive a reboot, the records do.        *)
(***************************************************************************)
EXTENDS Naturals, Sequences, SequencesExt

CONSTANTS Volumes,     \* the volumes of the pods: pairs <<pod id, name>>
          DevIds,      \* what randDevId may return
          DmFaults,    \* the commands that may fail, and "crash", "reboot"
          MaxReboots,  \* bound: reboots of the host
          None

VARIABLES pool,       \* the thin pool: "absent", "loops" (half made), "up"
          thin,       \* of a device id in the pool: the device name it was created for
          formatted,  \* the device ids with a file system
          mapped,     \* /dev/mapper: of a device name, the device id behind it
          recs,       \* the database: of <<pod id, device name>>, the device id
          job,        \* of a volume: how far CreateVolume has come
          answered,   \* volumes whose CreateVolume returned nil, until unmapped
          suspect,    \* history: device names whose creation was cut short
                      \* once mapped, or whose pool was made anew
          reboots

dmVars == <<pool, thin, formatted, mapped, recs, job, answered, suspect, reboots>>

-----------------------------------------------------------------------------
(* The name of a volume's device: the pool's, and a digest of podId + name. *)
deviceName(v) == <<"pool">> \o v[1] \o v[2]

Devices == {deviceName(v) : v \in Volumes}

Keys == {<<v[1], deviceName(v)>> : v \in Volumes}

Idle == [st |-> "idle", id |-> None, restore |-> FALSE]

(* The device id recorded for a name by any pod whose id starts with podId: *)
(* the prefix the records are listed by does not end the pod's id.          *)
getPersistedId(podId, d) ==
    {recs[k] : k \in {k \in Keys : IsPrefix(podId, k[1]) /\ k[2] = d}} \ {None}

DmInit == /\ pool = "absent"
          /\ thin = [i \in DevIds |-> None]
          /\ formatted = {}
          /\ mapped = [d \in Devices |-> None]
          /\ recs = [k \in Keys |-> None]
          /\ job = [v \in Volumes |-> Idle]
          /\ answered = {}
          /\ suspect = {}
          /\ reboots = 0

-----------------------------------------------------------------------------
(* DevMapperStorage.Init, whose error the daemon drops: a pool that exists *)
(* is kept; otherwise it is made anew, file systems and zeroed metadata    *)
(* included.  Once the loop devices are set up, a failure leaves them      *)
(* behind and losetup refuses every later attempt.                         *)
CreatePool ==
    /\ pool = "absent"
    /\ \/ /\ pool' = "up"
          /\ thin' = [i \in DevIds |-> None]
          /\ formatted' = {}
       \/ "pool" \in DmFaults /\ pool' = "loops" /\ UNCHANGED <<thin, formatted>>
    /\ UNCHANGED <<mapped, recs, job, answered, suspect, reboots>>

Step(v, st) == job' = [job EXCEPT ![v].st = st]

(* The records whose devices RemoveVolume(podId, name) deletes, then the    *)
(* records themselves.  They are kept under device names, so a short name   *)
(* finds nothing.                                                           *)
RemoveVolume(podId, name) == {k \in Keys : k = <<podId, name>> /\ recs[k] # None}

(* CreateVolume returns an error; createVolumes then removes the volumes it *)
(* made before, by the names the container gives them.                      *)
Fail(v) ==
    LET gone == UNION {RemoveVolume(w[1], w[2]) : w \in {w \in answered : w[1] = v[1]}}
    IN  /\ thin' = [i \in DevIds |-> IF \E k \in gone : recs[k] = i THEN None ELSE thin[i]]
        /\ recs' = [k \in Keys |-> IF k \in gone THEN None ELSE recs[k]]
        /\ job' = [job EXCEPT ![v] = Idle]
        /\ UNCHANGED <<pool, formatted, mapped, answered, reboots>>

(* DevMapperStorage.CreateVolume reads the record: one found is restored. *)
CreateVolume(v) ==
    /\ job[v].st = "idle" /\ v \notin answered
    /\ \/ /\ getPersistedId(v[1], deviceName(v)) = {}
          /\ job' = [job EXCEPT ![v].st = "create"]
       \/ \E i \in getPersistedId(v[1], deviceName(v)) :
             job' = [job EXCEPT ![v] = [st |-> "create", id |-> i, restore |-> TRUE]]
    /\ UNCHANGED <<pool, thin, formatted, mapped, recs, answered, suspect, reboots>>

(* Mutant: "File exists" is taken for a success. *)
BugCreateThin(v) ==
    /\ job[v].st = "create" /\ ~job[v].restore /\ mapped[deviceName(v)] = None /\ pool = "up"
    /\ \E i \in DevIds :
          /\ thin' = IF thin[i] = None THEN [thin EXCEPT ![i] = deviceName(v)] ELSE thin
          /\ job' = [job EXCEPT ![v].st = "map", ![v].id = i]
    /\ UNCHANGED <<pool, formatted, mapped, recs, answered, suspect, reboots>>

(* dm.CreateVolume up to create_thin.  A name that is mapped already counts *)
(* as created, whatever the id; a new id that the pool knows is "File       *)
(* exists" and another one is drawn.                                        *)
CreateThin(v) ==
    /\ job[v].st = "create"
    /\ \/ /\ mapped[deviceName(v)] # None
          /\ IF job[v].restore
               THEN Step(v, "record")
               ELSE \E i \in DevIds : job' = [job EXCEPT ![v].st = "record", ![v].id = i]
          /\ UNCHANGED thin
       \/ /\ mapped[deviceName(v)] = None /\ job[v].restore
          /\ Step(v, "map")
          /\ UNCHANGED thin
       \/ /\ mapped[deviceName(v)] = None /\ ~job[v].restore /\ pool = "up"
          /\ \E i \in DevIds :
                /\ thin[i] = None
                /\ thin' = [thin EXCEPT ![i] = deviceName(v)]
                /\ job' = [job EXCEPT ![v].st = "map", ![v].id = i]
    /\ UNCHANGED <<pool, formatted, mapped, recs, answered, suspect, reboots>>

CreateThinFails(v) ==
    /\ job[v].st = "create" /\ mapped[deviceName(v)] = None /\ ~job[v].restore
    /\ "create_thin" \in DmFaults \/ pool # "up"
    /\ Fail(v)
    /\ UNCHANGED suspect

(* "dmsetup create": a table may name only a device that the pool has. *)
MapDevice(v) ==
    /\ job[v].st = "map"
    /\ pool = "up" /\ thin[job[v].id] # None
    /\ mapped' = [mapped EXCEPT ![deviceName(v)] = job[v].id]
    /\ Step(v, IF job[v].restore THEN "record" ELSE "mkfs")
    /\ UNCHANGED <<pool, thin, formatted, recs, answered, suspect, reboots>>

MapDeviceFails(v) ==
    /\ job[v].st = "map"
    /\ "map" \in DmFaults \/ pool # "up" \/ thin[job[v].id] = None
    /\ Fail(v)
    /\ UNCHANGED suspect

Mkfs(v) ==
    /\ job[v].st = "mkfs"
    /\ formatted' = formatted \cup {job[v].id}
    /\ Step(v, "record")
    /\ UNCHANGED <<pool, thin, mapped, recs, answered, suspect, reboots>>

(* A failed mkfs leaves the device mapped: the next attempt stops at it. *)
MkfsFails(v) ==
    /\ job[v].st = "mkfs" /\ "mkfs" \in DmFaults
    /\ Fail(v)
    /\ suspect' = suspect \cup {deviceName(v)}

(* UpdatePodVolume, whose error is dropped, and the answer. *)
Record(v) ==
    /\ job[v].st = "record"
    /\ \/ /\ recs' = [recs EXCEPT ![<<v[1], deviceName(v)>>] = job[v].id]
          /\ UNCHANGED suspect
       \/ /\ "db" \in DmFaults
          /\ suspect' = suspect \cup {deviceName(v)}
          /\ UNCHANGED recs
    /\ job' = [job EXCEPT ![v] = Idle]
    /\ answered' = answered \cup {v}
    /\ UNCHANGED <<pool, thin, formatted, mapped, reboots>>

(* Stopping the pod: Volume.umount -> UmountExistingVolume -> UnmapVolume;  *)
(* the volume is asked for again when a pod of that id is created.          *)
UnmapVolume(v) ==
    /\ v \in answered
    /\ \/ mapped' = [mapped EXCEPT ![deviceName(v)] = None]
       \/ "unmap" \in DmFaults /\ UNCHANGED mapped
    /\ answered' = answered \ {v}
    /\ UNCHANGED <<pool, thin, formatted, recs, job, suspect, reboots>>

-----------------------------------------------------------------------------
(* The daemon dies: what it was doing to a mapped device stays half done. *)
Crash ==
    /\ "crash" \in DmFaults
    /\ \E v \in Volumes : job[v] # Idle
    /\ job' = [v \in Volumes |-> Idle]
    /\ suspect' = suspect \cup
          {deviceName(v) : v \in {v \in Volumes : job[v].st \in {"mkfs", "record"}}}
    /\ UNCHANGED <<pool, thin, formatted, mapped, recs, answered, reboots>>

(* The host reboots: no mapping and no loop device is left.  The records    *)
(* stay, and name device ids of a pool that will be made anew.              *)
Reboot ==
    /\ "reboot" \in DmFaults /\ reboots < MaxReboots
    /\ pool' = "absent"
    /\ mapped' = [d \in Devices |-> None]
    /\ job' = [v \in Volumes |-> Idle]
    /\ answered' = {}
    /\ suspect' = {k[2] : k \in {k \in Keys : recs[k] # None}}
    /\ reboots' = reboots + 1
    /\ UNCHANGED <<thin, formatted, recs>>

DmNext == \/ CreatePool \/ Crash \/ Reboot
          \/ \E v \in Volumes :
                \/ CreateVolume(v) \/ CreateThin(v) \/ CreateThinFails(v)
                \/ MapDevice(v) \/ MapDeviceFails(v)
                \/ Mkfs(v) \/ MkfsFails(v) \/ Record(v) \/ UnmapVolume(v)

DmSpec == DmInit /\ [][DmNext]_dmVars

-----------------------------------------------------------------------------
(* A volume that CreateVolume answered for is the device created for it and *)
(* for no other volume, holds the file system made for it and is found      *)
(* under its record, across random ids that collide, failing commands, a    *)
(* dying daemon and restored volumes; what is lost when a creation is cut   *)
(* short or the pool is made anew is confined to the volumes concerned.     *)
VolumeIsItsOwn ==
    \A v \in answered : LET d == deviceName(v)
                            i == mapped[d]
                        IN  d \notin suspect =>
        /\ i # None /\ thin[i] = d
        /\ i \in formatted
        /\ recs[<<v[1], d>>] = i
        /\ \A e \in Devices \ (suspect \cup {d}) : mapped[e] # i
=============================================================================
