---------------------------- MODULE MCProvision ----------------------------
(* Provision with containers that share a volume; what fails is chosen in the initial state. *)
EXTENDS Provision

MCVolsOf == [c \in Containers |-> Volumes]
MCFaultSets == {{"alloc", "nic", "mount", "rootfs", "container", "umount"}, {"insert"}, {"timeout"}}
=============================================================================
