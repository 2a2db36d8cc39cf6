------------------------------- MODULE MCXPod -------------------------------
(* Instances of XPod for TLC: who issues which requests. *)
EXTENDS XPod, TLC

CONSTANTS c1, c2

\* One client, one request after the other.
OneClient == [t \in {c1} |-> {"create", "start", "stop", "remove", "kill", "rmc"}]
StartStop == [t \in {c1} |-> {"create", "start", "stop"}]
StartOnly == [t \in {c1} |-> {"create", "start"}]
PauseRemove == [t \in {c1} |-> {"create", "pause", "remove"}]

\* Two clients that start and stop the pod.
TwoStarters == [t \in {c1, c2} |-> {"create", "start", "stop"}]

\* One client creates, stops and removes the pod, another one starts, pauses and resumes it.
StartersAndPauser ==
  c1 :> {"create", "stop", "remove", "rmc"} @@ c2 :> {"start", "pause", "unpause"}

\* One client starts and pauses the pod, another one takes it down.
UpAndDown ==
  c1 :> {"create", "start", "pause", "unpause"} @@ c2 :> {"stop", "remove", "kill", "rmc"}
=============================================================================
