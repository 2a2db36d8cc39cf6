--------------------------- MODULE RawBlockProofs ---------------------------
(***************************************************************************)
(* The rawblock driver keeps a layer mounted while a thread uses it, for   *)
(* any number of layers, threads, failures and crashes.                    *)
(***************************************************************************)
EXTENDS RawBlock, FiniteSetTheorems, TLAPS

\* The engine has finitely many threads, and the marks of a layer without a block are no sets
\* of layers.
BlockAssumption ==
  /\ IsFiniteSet(BlockUsers)
  /\ None \notin SUBSET Layers
  /\ Gone \notin SUBSET Layers
  /\ MaxStuck \in Nat

Users(i) == {u \in BlockUsers : i \in using[u]}

BlockTypeOK ==
  /\ block \in [Layers -> (SUBSET Layers) \cup {None, Gone}]
  /\ active \in [Layers -> Nat]
  /\ mnt \in [Layers -> Nat]
  /\ using \in [BlockUsers -> SUBSET Layers]
  /\ old \in [Layers -> Nat]

\* Driver.active counts the threads that use the layer, or one more: a thread whose unmount has
\* failed is counted until the daemon ends, and its mount is then an old one.
Counted(i) ==
  \/ active[i] = InUse(i) /\ mnt[i] = old[i] + (IF InUse(i) > 0 THEN 1 ELSE 0)
  \/ active[i] = InUse(i) + 1 /\ mnt[i] = old[i] /\ old[i] > 0

\* The inductive invariant.
BlockIInv ==
  /\ BlockTypeOK
  /\ \A i \in Layers : Counted(i) /\ (block[i] = {} => old[i] > 0)

-----------------------------------------------------------------------------
\* The number of users of a layer is a number.
LEMMA InUseNat ==
  ASSUME BlockAssumption, NEW i
  PROVE  InUse(i) \in Nat /\ (InUse(i) = 0 <=> Users(i) = {}) /\ IsFiniteSet(Users(i))
<1>1. IsFiniteSet(Users(i))
  BY FS_Subset DEF BlockAssumption, Users
<1>2. InUse(i) = Cardinality(Users(i))
  BY DEF InUse, Users
<1>3. QED BY <1>1, <1>2, FS_CardinalityType, FS_EmptySet

\* A thread that gets a layer becomes one more user of it, and of no other layer.
LEMMA OneMore ==
  ASSUME BlockAssumption, BlockTypeOK, NEW u \in BlockUsers, NEW id \in Layers,
         id \notin using[u], using' = [using EXCEPT ![u] = @ \cup {id}],
         NEW i \in Layers
  PROVE  InUse(i)' = IF i = id THEN InUse(i) + 1 ELSE InUse(i)
<1>1. Users(i)' = IF i = id THEN Users(i) \cup {u} ELSE Users(i)
  BY DEF Users, BlockTypeOK
<1>2. u \notin Users(id)
  BY DEF Users
<1>3. IsFiniteSet(Users(id))
  BY InUseNat
<1>4. Cardinality(Users(id) \cup {u}) = Cardinality(Users(id)) + 1
  BY <1>2, <1>3, FS_AddElement
<1>5. InUse(i) = Cardinality(Users(i)) /\ InUse(i)' = Cardinality(Users(i)')
  BY DEF InUse, Users
<1>6. QED BY <1>1, <1>4, <1>5

\* A thread that puts a layer is a user of it no more.
LEMMA OneLess ==
  ASSUME BlockAssumption, BlockTypeOK, NEW u \in BlockUsers, NEW id \in Layers,
         id \in using[u], using' = [using EXCEPT ![u] = @ \ {id}],
         NEW i \in Layers
  PROVE  InUse(i)' = IF i = id THEN InUse(i) - 1 ELSE InUse(i)
<1>1. Users(i)' = IF i = id THEN Users(i) \ {u} ELSE Users(i)
  BY DEF Users, BlockTypeOK
<1>2. u \in Users(id)
  BY DEF Users
<1>3. IsFiniteSet(Users(id))
  BY InUseNat
<1>4. Cardinality(Users(id) \ {u}) = Cardinality(Users(id)) - 1
  BY <1>2, <1>3, FS_RemoveElement
<1>5. InUse(i) = Cardinality(Users(i)) /\ InUse(i)' = Cardinality(Users(i)')
  BY DEF InUse, Users
<1>6. QED BY <1>1, <1>4, <1>5

\* A step that leaves the users alone leaves their numbers alone.
LEMMA SameUsers ==
  ASSUME UNCHANGED using, NEW i
  PROVE  InUse(i)' = InUse(i)
BY DEF InUse

\* What os.RemoveAll leaves of the blocks: the content of one layer may be lost, and only below
\* a mount.
LEMMA RemoveAllBlock ==
  ASSUME BlockTypeOK, NEW id \in Layers, NEW n \in Nat, RemoveAll(id, n), NEW i \in Layers
  PROVE  /\ block' \in [Layers -> (SUBSET Layers) \cup {None, Gone}]
         /\ block'[i] = {} => block[i] = {} \/ (i = id /\ n > 0)
BY DEF BlockTypeOK, RemoveAll
-----------------------------------------------------------------------------
\* Without users there is no mount but the old ones.
LEMMA InitInv ==
  ASSUME BlockAssumption
  PROVE  BlockInit => BlockIInv
<1> SUFFICES ASSUME BlockInit PROVE BlockIInv
  OBVIOUS
<1>1. BlockTypeOK
  BY DEF BlockInit, BlockTypeOK
<1>2. ASSUME NEW i \in Layers PROVE InUse(i) = 0
  <2>1. Users(i) = {}
    BY DEF Users, BlockInit
  <2>2. QED BY <2>1, InUseNat
<1>3. ASSUME NEW i \in Layers PROVE Counted(i) /\ (block[i] = {} => old[i] > 0)
  BY <1>2 DEF Counted, BlockInit, BlockAssumption
<1>4. QED BY <1>1, <1>3 DEF BlockIInv

\* Create and Remove change blocks, none to an empty one.
LEMMA CreateInv ==
  ASSUME BlockAssumption, BlockIInv, NEW id \in Layers, NEW parent \in Layers \cup {None},
         Create(id, parent) \/ RemoveBlock(id)
  PROVE  BlockIInv'
<1>1. UNCHANGED <<active, mnt, using, old>>
  BY DEF Create, RemoveBlock
<1>2. PICK b \in (SUBSET Layers) \cup {None, Gone} :
        b # {} /\ block' = [block EXCEPT ![id] = b]
  <2>1. CASE RemoveBlock(id)
    BY <2>1 DEF RemoveBlock, BlockAssumption
  <2>2. CASE Create(id, parent) /\ parent = None
    <3>1. {id} \in SUBSET Layers /\ {id} # {} /\ None # {}
      BY DEF BlockAssumption
    <3>2. QED BY <2>2, <3>1 DEF Create, CreateBlock
  <2>3. CASE Create(id, parent) /\ parent # None
    <3>1. block[parent] \in SUBSET Layers
      BY <2>3 DEF Create, BlockIInv, BlockTypeOK
    <3>2. block[parent] \cup {id} \in SUBSET Layers /\ block[parent] \cup {id} # {}
      BY <3>1
    <3>3. QED BY <2>3, <3>2 DEF Create
  <2>4. QED BY <2>1, <2>2, <2>3
<1>3. ASSUME NEW i \in Layers PROVE Counted(i)'
  BY <1>1, SameUsers DEF BlockIInv, Counted
<1>4. QED BY <1>1, <1>2, <1>3 DEF BlockIInv, BlockTypeOK

\* Get mounts for the first user, and a Get that fails touches no count.
LEMMA GetInv ==
  ASSUME BlockAssumption, BlockIInv, NEW u \in BlockUsers, NEW id \in Layers,
         Get(u, id)
  PROVE  BlockIInv'
<1>1. BlockTypeOK'
  BY DEF Get, BlockIInv, BlockTypeOK
<1>2. ASSUME NEW i \in Layers
      PROVE  Counted(i)' /\ (block'[i] = {} => old'[i] > 0)
  <2>1. InUse(i)' = IF i = id THEN InUse(i) + 1 ELSE InUse(i)
    BY OneMore DEF Get, BlockIInv
  <2>2. InUse(i) \in Nat
    BY InUseNat
  <2>3. QED BY <2>1, <2>2 DEF Get, BlockIInv, BlockTypeOK, Counted
<1>3. QED BY <1>1, <1>2 DEF BlockIInv

\* A Get that fails may empty a block that an older mount shows.
LEMMA GetFailsInv ==
  ASSUME BlockAssumption, BlockIInv, NEW u \in BlockUsers, NEW id \in Layers,
         GetFails(u, id)
  PROVE  BlockIInv'
<1>1. UNCHANGED <<active, mnt, using, old>> /\ active[id] = 0
  BY DEF GetFails
<1>2. InUse(id) \in Nat
  BY InUseNat
<1>3. mnt[id] \in Nat /\ mnt[id] = old[id]
  BY <1>1, <1>2 DEF BlockIInv, BlockTypeOK, Counted
<1>4. ASSUME NEW i \in Layers
      PROVE  /\ block' \in [Layers -> (SUBSET Layers) \cup {None, Gone}]
             /\ block'[i] = {} => block[i] = {} \/ (i = id /\ mnt[id] > 0)
  BY <1>3, RemoveAllBlock DEF GetFails, BlockIInv
<1>5. ASSUME NEW i \in Layers PROVE Counted(i)' /\ (block'[i] = {} => old'[i] > 0)
  BY <1>1, <1>3, <1>4, SameUsers DEF BlockIInv, Counted
<1>6. BlockTypeOK'
  <2>1. block' \in [Layers -> (SUBSET Layers) \cup {None, Gone}]
    BY <1>4
  <2>2. QED BY <1>1, <2>1 DEF BlockIInv, BlockTypeOK
<1>7. QED BY <1>5, <1>6 DEF BlockIInv

\* Put unmounts for the last user only, and its mount then is not an old one.
LEMMA PutInv ==
  ASSUME BlockAssumption, BlockIInv, NEW u \in BlockUsers, NEW id \in Layers,
         Put(u, id)
  PROVE  BlockIInv'
<1>1. \A i \in Layers : InUse(i)' = IF i = id THEN InUse(i) - 1 ELSE InUse(i)
  BY OneLess DEF Put, BlockIInv
<1>2. \A i \in Layers : InUse(i) \in Nat /\ InUse(i)' \in Nat
  <2>1. \A i \in Layers : InUse(i) \in Nat
    BY InUseNat
  <2>2. InUse(id) > 0
    <3>1. u \in Users(id)
      BY DEF Users, Put
    <3>2. QED BY <3>1, <2>1, InUseNat
  <2>3. QED BY <1>1, <2>1, <2>2
<1>3. CASE active[id] > 1 /\ active' = [active EXCEPT ![id] = @ - 1] /\ UNCHANGED <<block, mnt, old>>
  <2>1. BlockTypeOK'
    BY <1>3 DEF Put, BlockIInv, BlockTypeOK
  <2>2. ASSUME NEW i \in Layers PROVE Counted(i)' /\ (block'[i] = {} => old'[i] > 0)
    BY <1>1, <1>2, <1>3 DEF BlockIInv, BlockTypeOK, Counted
  <2>3. QED BY <2>1, <2>2 DEF BlockIInv
<1>4. CASE /\ active[id] <= 1 /\ mnt[id] > 0
           /\ mnt' = [mnt EXCEPT ![id] = @ - 1]
           /\ active' = [active EXCEPT ![id] = 0]
           /\ RemoveAll(id, mnt[id] - 1)
           /\ UNCHANGED old
  <2>1. mnt[id] - 1 \in Nat /\ active[id] = InUse(id) /\ InUse(id) = 1 /\ mnt[id] - 1 = old[id]
    BY <1>1, <1>2, <1>4 DEF BlockIInv, BlockTypeOK, Counted
  <2>2. ASSUME NEW i \in Layers
        PROVE  /\ block' \in [Layers -> (SUBSET Layers) \cup {None, Gone}]
               /\ block'[i] = {} => block[i] = {} \/ (i = id /\ mnt[id] - 1 > 0)
    BY <1>4, <2>1, RemoveAllBlock DEF BlockIInv
  <2>3. block' \in [Layers -> (SUBSET Layers) \cup {None, Gone}]
    BY <2>2
  <2>4. BlockTypeOK'
    BY <1>4, <2>1, <2>3 DEF Put, BlockIInv, BlockTypeOK
  <2>5. ASSUME NEW i \in Layers PROVE Counted(i)'
    BY <1>1, <1>2, <1>4, <2>1 DEF BlockIInv, BlockTypeOK, Counted
  <2>6. ASSUME NEW i \in Layers PROVE block'[i] = {} => old'[i] > 0
    BY <1>4, <2>1, <2>2 DEF BlockIInv
  <2>7. QED BY <2>4, <2>5, <2>6 DEF BlockIInv
<1>5. CASE /\ active[id] <= 1 /\ "umount" \in BlockFaults /\ old[id] < MaxStuck
           /\ old' = [old EXCEPT ![id] = @ + 1]
           /\ UNCHANGED <<block, mnt, active>>
  <2>1. BlockTypeOK'
    BY <1>5 DEF Put, BlockIInv, BlockTypeOK
  <2>2. ASSUME NEW i \in Layers PROVE Counted(i)' /\ (block'[i] = {} => old'[i] > 0)
    BY <1>1, <1>2, <1>5 DEF BlockIInv, BlockTypeOK, Counted
  <2>3. QED BY <2>1, <2>2 DEF BlockIInv
<1>6. QED BY <1>3, <1>4, <1>5 DEF Put

\* A daemon that dies leaves its mounts as old ones.
LEMMA CrashInv ==
  ASSUME BlockAssumption, BlockIInv, BlockCrash
  PROVE  BlockIInv'
<1>1. BlockTypeOK'
  BY DEF BlockCrash, BlockIInv, BlockTypeOK
<1>2. ASSUME NEW i \in Layers PROVE Counted(i)' /\ (block'[i] = {} => old'[i] > 0)
  <2>1. Users(i)' = {}
    BY DEF Users, BlockCrash
  <2>2. InUse(i)' = Cardinality(Users(i)')
    BY DEF InUse, Users
  <2>3. InUse(i)' = 0
    BY <2>1, <2>2, FS_EmptySet
  <2>4. InUse(i) \in Nat
    BY InUseNat
  <2>5. QED BY <2>3, <2>4 DEF BlockCrash, BlockIInv, BlockTypeOK, Counted
<1>3. QED BY <1>1, <1>2 DEF BlockIInv

\* The counts agree with the users and the mounts in every reachable state.
THEOREM BlockInvariance ==
  ASSUME BlockAssumption
  PROVE  BlockSpec => []BlockIInv
<1>1. BlockInit => BlockIInv
  BY InitInv
<1>2. BlockIInv /\ [BlockNext]_blockVars => BlockIInv'
  <2> SUFFICES ASSUME BlockIInv, [BlockNext]_blockVars
               PROVE  BlockIInv'
    OBVIOUS
  <2>1. CASE \E i \in Layers, p \in Layers \cup {None} : Create(i, p)
    BY <2>1, CreateInv
  <2>2. CASE \E i \in Layers : RemoveBlock(i)
    BY <2>2, CreateInv
  <2>3. CASE \E u \in BlockUsers, i \in Layers : Get(u, i) \/ GetFails(u, i) \/ Put(u, i)
    BY <2>3, GetInv, GetFailsInv, PutInv
  <2>4. CASE BlockCrash
    BY <2>4, CrashInv
  <2>5. CASE UNCHANGED blockVars
    <3>1. UNCHANGED <<block, active, mnt, using, old>>
      BY <2>5 DEF blockVars
    <3>2. ASSUME NEW i \in Layers PROVE Counted(i)'
      BY <3>1, SameUsers DEF BlockIInv, Counted
    <3>3. QED BY <3>1, <3>2 DEF BlockIInv, BlockTypeOK
  <2>6. QED BY <2>1, <2>2, <2>3, <2>4, <2>5 DEF BlockNext
<1>3. QED BY <1>1, <1>2, PTL DEF BlockSpec

\* No Put takes the mount from under another user of a layer, no Get stacks a second one, and a
\* block loses its content only below a mount that is nobody's (Driver.Get and Put).
THEOREM LayerStaysMounted ==
  ASSUME BlockAssumption
  PROVE  BlockSpec => []MountedWhileUsed
<1>1. BlockIInv => MountedWhileUsed
  <2> SUFFICES ASSUME BlockIInv, NEW i \in Layers
               PROVE  /\ InUse(i) > 0 => mnt[i] > 0 /\ active[i] >= InUse(i)
                      /\ mnt[i] <= old[i] + (IF InUse(i) > 0 THEN 1 ELSE 0)
                      /\ block[i] = {} => old[i] > 0
    BY DEF MountedWhileUsed
  <2>1. InUse(i) \in Nat
    BY InUseNat
  <2>2. QED BY <2>1 DEF BlockIInv, BlockTypeOK, Counted
<1>2. QED BY <1>1, BlockInvariance, PTL
=============================================================================
