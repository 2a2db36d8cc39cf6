----------------------------- MODULE WorkerPool -----------------------------
(***************************************************************************)
(* What daemon/buffer promises of a pool of workers, without the counter   *)
(* and the phases that it keeps: a job runs at once while a worker is      *)
(* free, waits its turn while there is room, and is refused otherwise; a   *)
(* worker that ends a job begins the oldest waiting one in the same step.  *)
(***************************************************************************)
EXTENDS Naturals, Sequences, FiniteSets

CONSTANTS Jobs, Workers, Room

VARIABLES
  waiting,   \* accepted jobs, in the order in which they will run
  running,   \* jobs in the hands of a worker
  left       \* jobs that are over, refused ones too

poolVars == <<waiting, running, left>>

Arriving(j) ==
  /\ j \notin running \cup left
  /\ \A i \in 1 .. Len(waiting) : waiting[i] # j

Init == waiting = <<>> /\ running = {} /\ left = {}

Run(j) ==
  /\ Arriving(j) /\ waiting = <<>> /\ Cardinality(running) < Workers
  /\ running' = running \cup {j}
  /\ UNCHANGED <<waiting, left>>

Wait(j) ==
  /\ Arriving(j) /\ Cardinality(running) = Workers /\ Len(waiting) < Room
  /\ waiting' = Append(waiting, j)
  /\ UNCHANGED <<running, left>>

Refuse(j) ==
  /\ Arriving(j)
  /\ left' = left \cup {j}
  /\ UNCHANGED <<waiting, running>>

Finish(j) ==
  /\ j \in running
  /\ left' = left \cup {j}
  /\ IF waiting = <<>> THEN running' = running \ {j} /\ UNCHANGED waiting
     ELSE running' = (running \ {j}) \cup {Head(waiting)} /\ waiting' = Tail(waiting)

Next == \E j \in Jobs : Run(j) \/ Wait(j) \/ Refuse(j) \/ Finish(j)

Spec == Init /\ [][Next]_poolVars
=============================================================================
