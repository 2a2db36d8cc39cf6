----------------------------- MODULE MCRecords -----------------------------
(***************************************************************************)
(* The registry of pods in memory, with two container names or with three  *)
(* container ids, and the records of a pod in the database, of this daemon *)
(* or of an older one.  They share nothing here: a behaviour is one of     *)
(* the four.                                                               *)
(***************************************************************************)
EXTENDS PodList, Sequences, TLC

CONSTANTS x3, p, q, i3, v1, n3

VARIABLES db, vms, up, mem, job, lock, watch, ghosts, crashed, part

dbVars == <<db, vms, up, mem, job, lock, watch, ghosts, crashed>>

\* Two pods of the same id and one of another.
MCNameOf == [x \in XPods |-> IF x = x3 THEN q ELSE p]

Three == INSTANCE PodList WITH Ids <- Ids \cup {i3}, Names <- {n3}, Calls <- Calls \ {"container"}

\* A pod of two containers that share a volume.  The values that are threads and names in the
\* registry are sandboxes and containers in the database, so that one symmetry serves both.
D == INSTANCE Persist WITH
  Containers <- Names, Volumes <- {v1}, VolsOf <- [c \in Names |-> {v1}], VMs <- Threads,
  Legacy <- FALSE, Faults <- {"start", "remove", "release"}

\* An older daemon may have left the database; its pod has one container.
Old == INSTANCE Persist WITH
  Containers <- {n3}, Volumes <- {v1}, VolsOf <- [c \in {n3} |-> {v1}], VMs <- {i3},
  Legacy <- TRUE, Faults <- {}

MCInit ==
  /\ part \in {"names", "ids", "database", "migration"}
  /\ IF part = "ids" THEN Three!Init ELSE Init
  /\ IF part = "migration" THEN Old!Init ELSE D!Init

MCNext ==
  /\ \/ part = "names" /\ Next /\ UNCHANGED dbVars
     \/ part = "ids" /\ Three!Next /\ UNCHANGED dbVars
     \/ part = "database" /\ D!Next /\ UNCHANGED vars
     \/ part = "migration" /\ Old!Next /\ UNCHANGED vars
  /\ UNCHANGED part

MCSpec == MCInit /\ [][MCNext]_<<vars, dbVars, part>>

Symmetry == Permutations(Threads) \cup Permutations(Names) \cup Permutations(Ids)

\* A pod is registered under its id exactly if it is alive, once requests have returned
\* (podlist.go, rm.go, provision.go).
ListedAsAlive == IF part = "ids" THEN Three!ListedIffAlive ELSE ListedIffAlive

\* Containers are found by their ids and names, and nothing else is (podlist.go).
RegistryIsExact == IF part = "ids" THEN Three!RegistryExact ELSE RegistryExact

\* Wherever savePod or removeFromDB is interrupted, what a layout lists is there (persist.go).
HalfDoneIsInvisible ==
  IF part = "migration" THEN Old!HalfDoneIsInvisible ELSE D!HalfDoneIsInvisible

\* When no request is under way the database says what memory says of the pod (persist.go).
SavedImageIsCurrent ==
  IF part = "migration" THEN Old!SavedImageIsCurrent ELSE D!SavedImageIsCurrent

\* An interrupted migration of an old database loses no pod, sandbox or volume (migration.go).
MigrationLosesNothing == part = "migration" => Old!MigrationLosesNothing
=============================================================================
