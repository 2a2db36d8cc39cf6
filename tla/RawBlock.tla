------------------------------ MODULE RawBlock ------------------------------
(***************************************************************************)
(* The rawblock graph driver (storage/graphdriver/rawblock/driver.go): a   *)
(* layer is a block file, made with mkfs or copied from its parent, and    *)
(* mounted while somebody uses it.  The engine's threads call Get and Put  *)
(* concurrently; a mutex protects the count of users of each layer.        *)
(***************************************************************************)
EXTENDS Naturals, Sequences, FiniteSets

CONSTANTS Layers,       \* ids of layers
          BlockUsers,   \* the engine's threads
          BlockFaults,  \* the commands that may fail, and "crash"
          MaxStuck,     \* bound: unmounts that fail
          None,
          Gone          \* a layer that was removed

VARIABLES block,    \* of a layer: the layers whose content its block holds, or None or Gone
          active,   \* Driver.active
          mnt,      \* of a layer: how many times its block is mounted on its mount point
          using,    \* of a thread: the layers it has got and not yet put
          old       \* history: mounts that are nobody's: left by a daemon that died,
                    \* or by an unmount that failed

blockVars == <<block, active, mnt, using, old>>

InUse(id) == Cardinality({u \in BlockUsers : id \in using[u]})

BlockInit == /\ block = [i \in Layers |-> None]
             /\ active = [i \in Layers |-> 0]
             /\ mnt = [i \in Layers |-> 0]
             /\ using = [u \in BlockUsers |-> {}]
             /\ old = [i \in Layers |-> 0]

-----------------------------------------------------------------------------
(* CreateBlock: truncate and mkfs -f; a failed mkfs removes the block. *)
CreateBlock(id) == \/ block' = [block EXCEPT ![id] = {id}]
                   \/ "mkfs" \in BlockFaults /\ block' = [block EXCEPT ![id] = None]

(* Driver.Create: the first layer is formatted, another one is a copy of    *)
(* its parent's block.  The engine creates an id once.                      *)
Create(id, parent) ==
    /\ block[id] = None
    /\ IF parent = None
         THEN CreateBlock(id)
         ELSE /\ block[parent] \notin {None, Gone}
              /\ block' = [block EXCEPT ![id] = block[parent] \cup {id}]
    /\ UNCHANGED <<active, mnt, using, old>>

(* Driver.Remove deletes the block and looks at no count; the engine        *)
(* removes a layer that no thread of it uses.                               *)
RemoveBlock(id) ==
    /\ block[id] \notin {None, Gone} /\ InUse(id) = 0
    /\ block' = [block EXCEPT ![id] = Gone]
    /\ UNCHANGED <<active, mnt, using, old>>

(* os.RemoveAll of the mount point, once a mount or an unmount is over: a   *)
(* mount that is still there, of the same block, loses all it holds.        *)
RemoveAll(id, mounted) ==
    block' = IF mounted > 0 /\ block[id] \notin {None, Gone} THEN [block EXCEPT ![id] = {}] ELSE block

(* Driver.Get under the lock: the first user mounts (GetImage).             *)
Get(u, id) ==
    /\ id \notin using[u]
    /\ active[id] = 0 => block[id] \notin {None, Gone}
    /\ mnt' = [mnt EXCEPT ![id] = IF active[id] = 0 THEN @ + 1 ELSE @]
    /\ active' = [active EXCEPT ![id] = @ + 1]
    /\ using' = [using EXCEPT ![u] = @ \cup {id}]
    /\ UNCHANGED <<block, old>>

(* The mount fails, or the directory for the root cannot be made in it. *)
GetFails(u, id) ==
    /\ id \notin using[u] /\ active[id] = 0
    /\ "mount" \in BlockFaults
    /\ RemoveAll(id, mnt[id])
    /\ UNCHANGED <<active, mnt, using, old>>

\* Mutant: every user that puts a layer unmounts it.
BugPut(u, id) ==
    /\ id \in using[u]
    /\ using' = [using EXCEPT ![u] = @ \ {id}]
    /\ mnt' = [mnt EXCEPT ![id] = @ - 1]
    /\ active' = [active EXCEPT ![id] = @ - 1]
    /\ UNCHANGED <<block, old>>

(* Driver.Put under the lock: the last user unmounts (PutImage).  When that *)
(* fails the count stays at one for a user that has gone.                   *)
Put(u, id) ==
    /\ id \in using[u]
    /\ using' = [using EXCEPT ![u] = @ \ {id}]
    /\ \/ active[id] > 1 /\ active' = [active EXCEPT ![id] = @ - 1] /\ UNCHANGED <<block, mnt, old>>
       \/ /\ active[id] <= 1 /\ mnt[id] > 0
          /\ mnt' = [mnt EXCEPT ![id] = @ - 1]
          /\ active' = [active EXCEPT ![id] = 0]
          /\ RemoveAll(id, mnt[id] - 1)
          /\ UNCHANGED old
       \/ /\ active[id] <= 1 /\ "umount" \in BlockFaults /\ old[id] < MaxStuck
          /\ old' = [old EXCEPT ![id] = @ + 1]
          /\ UNCHANGED <<block, mnt, active>>

(* The daemon dies: the counts are gone, the mounts and the blocks are not. *)
BlockCrash ==
    /\ "crash" \in BlockFaults
    /\ \A i \in Layers : mnt[i] <= MaxStuck
    /\ active' = [i \in Layers |-> 0]
    /\ using' = [u \in BlockUsers |-> {}]
    /\ old' = mnt
    /\ UNCHANGED <<block, mnt>>

BlockNext == \/ \E i \in Layers, p \in Layers \cup {None} : Create(i, p)
             \/ \E i \in Layers : RemoveBlock(i)
             \/ \E u \in BlockUsers, i \in Layers : Get(u, i) \/ GetFails(u, i) \/ Put(u, i)
             \/ BlockCrash

BlockSpec == BlockInit /\ [][BlockNext]_blockVars

-----------------------------------------------------------------------------
(* A layer is mounted while a thread uses it, and once when it is not a     *)
(* matter of old mounts: no Put takes the mount from under another user, no *)
(* Get stacks a second one; failed unmounts and crashes account for the     *)
(* rest.  A block loses its content only below such an old mount.           *)
MountedWhileUsed ==
    \A i \in Layers : /\ InUse(i) > 0 => mnt[i] > 0 /\ active[i] >= InUse(i)
                      /\ mnt[i] <= old[i] + (IF InUse(i) > 0 THEN 1 ELSE 0)
                      /\ block[i] = {} => old[i] > 0
=============================================================================
