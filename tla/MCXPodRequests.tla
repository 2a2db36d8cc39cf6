--------------------------- MODULE MCXPodRequests ---------------------------
(***************************************************************************)
(* The pod with the requests of two clients at a time, and with those of   *)
(* one client, each after the other has returned.                          *)
(***************************************************************************)
EXTENDS MCXPod

VARIABLE mode

One == INSTANCE XPod WITH
  MayCall <- OneClient @@ c2 :> {}, Faults <- {"launch", "provision", "stop", "timeout"}

MCInit ==
  \/ mode = "concurrent" /\ Init
  \/ mode = "serial" /\ One!Init

MCNext ==
  /\ \/ mode = "concurrent" /\ Next
     \/ mode = "serial" /\ One!Next
  /\ UNCHANGED mode

MCSpec == MCInit /\ [][MCNext]_<<vars, mode>>

\* Requests that do not overlap leave the pod neither STARTING nor STOPPING, and a removed pod
\* without a virtual machine (StopPod, RemovePod, KillPod).
SerialSettles == mode = "serial" => StatusSettles /\ NoOrphanVm

\* With such requests the first StopPod returns when the pod is STOPPED (waitStopDone).
FirstStopStops == [][mode = "serial" => FirstStopStep]_<<vars, mode>>
=============================================================================
