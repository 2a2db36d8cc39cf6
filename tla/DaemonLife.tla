----------------------------- MODULE DaemonLife -----------------------------
(***************************************************************************)
(* The life of the hyperd process: NewDaemon, Restore, the listeners, the  *)
(* requests that are being served, the signals, Shutdown, and the next     *)
(* process after it (cmd/hyperd/hyperd.go, daemon/daemon.go,               *)
(* server/server.go).  A sandbox is a process of its own: it survives      *)
(* hyperd, and only its record in the database leads the next hyperd to it.*)
(*                                                                         *)
(* A pod is reduced to four facts: whether its sandbox runs (vm), whether  *)
(* this process listens to it (watched), whether PodList has it (listed),  *)
(* and which records the database holds (layout, sb).                      *)
(***************************************************************************)
EXTENDS Naturals, FiniteSets

CONSTANTS Pods, Hosts, LifeFaults, MaxBoots

VARIABLES
  phase,     \* where mainDaemon is
  boots,     \* processes started so far, at most MaxBoots
  opened,    \* the listeners server.New has made
  toLoad,    \* layouts Restore has still to load
  remains,   \* the snapshot DestroyAllVm or ReleaseAllVms works through
  cause,     \* what ended the last process
  vm, watched, listed, layout, sb,
  busy,      \* the request being served for a pod, and how far it is
  torn,      \* pods whose request was cut by the end of a process
  missed     \* pods this process could not load or could not stop

daemonVars == <<phase, boots, opened, toLoad, remains, cause>>
podVars == <<vm, watched, listed, layout, sb>>
lifeVars == <<daemonVars, podVars, busy, torn, missed>>

LifeInit ==
  /\ phase = "off" /\ boots = 0 /\ cause = "none"
  /\ opened = {} /\ toLoad = {} /\ remains = {}
  /\ vm = {} /\ watched = {} /\ listed = {} /\ layout = {} /\ sb = {}
  /\ busy = [p \in Pods |-> "idle"]
  /\ torn = {} /\ missed = {}

Idle(p) == busy[p] = "idle"
Busy == {p \in Pods : ~Idle(p)}

\* A process ends: all it had in memory goes, the sandboxes stay.
Exit(why) ==
  /\ phase' = "off" /\ cause' = why
  /\ opened' = {} /\ toLoad' = {} /\ remains' = {}
  /\ watched' = {} /\ listed' = {}
  /\ busy' = [p \in Pods |-> "idle"]
  /\ torn' = torn \cup Busy
  /\ UNCHANGED <<boots, vm, layout, sb, missed>>

--------------------------------------------------------------------------
(* Start of the process.                                                   *)

\* The engine, the storage driver, the hypervisor or the bridge may be
\* missing; the error of Storage.Init is not looked at.
NewDaemon ==
  /\ phase = "off" /\ boots < MaxBoots
  /\ boots' = boots + 1
  /\ \/ phase' = "restore" /\ cause' = "none" /\ missed' = {}
     \/ "init" \in LifeFaults /\ UNCHANGED <<phase, cause, missed>>
  /\ UNCHANGED <<opened, toLoad, remains, podVars, busy, torn>>

\* GetPodNum answers 0 when the keys cannot be listed: then nothing is loaded.
GetPodNum(n) == n = Cardinality(layout) \/ ("list" \in LifeFaults /\ n = 0)

Restore ==
  /\ phase = "restore"
  /\ \/ /\ GetPodNum(0) /\ missed' = layout
        /\ phase' = "listen" /\ UNCHANGED toLoad
     \/ /\ GetPodNum(Cardinality(layout)) /\ layout # {}
        /\ phase' = "load" /\ toLoad' = layout /\ UNCHANGED missed
  /\ UNCHANGED <<boots, opened, remains, cause, podVars, busy, torn>>

\* A migration that fails, or a database that cannot be iterated, ends the
\* process without Shutdown.
RestoreFails == phase = "restore" /\ "migrate" \in LifeFaults /\ Exit("error")

\* The sandbox record is found or not, and its sandbox answers or not; a
\* record nobody answers for is removed and the pod left out until the next
\* start.  A pod that fails to load is skipped.
LoadXPod(p) ==
  /\ phase = "load" /\ p \in toLoad
  /\ toLoad' = toLoad \ {p}
  /\ \/ /\ p \in sb \cap vm
        /\ listed' = listed \cup {p} /\ watched' = watched \cup {p}
        /\ UNCHANGED <<sb, missed>>
     \/ /\ p \in sb \ vm
        /\ sb' = sb \ {p} /\ missed' = missed \cup {p}
        /\ UNCHANGED <<listed, watched>>
     \/ /\ p \notin sb
        /\ listed' = listed \cup {p}
        /\ UNCHANGED <<sb, watched, missed>>
     \/ /\ "load" \in LifeFaults
        /\ missed' = missed \cup {p}
        /\ UNCHANGED <<sb, listed, watched>>
  /\ UNCHANGED <<phase, boots, opened, remains, cause, vm, layout, busy, torn>>

Loaded ==
  /\ phase = "load" /\ toLoad = {}
  /\ phase' = "listen"
  /\ UNCHANGED <<boots, opened, toLoad, remains, cause, podVars, busy, torn, missed>>

\* server.New opens one listener per host, in order; an address that cannot
\* be had ends the process.
New(h) ==
  /\ phase = "listen" /\ h \in Hosts \ opened
  /\ opened' = opened \cup {h}
  /\ UNCHANGED <<phase, boots, toLoad, remains, cause, podVars, busy, torn, missed>>

NewFails == phase = "listen" /\ opened # Hosts /\ "listen" \in LifeFaults /\ Exit("error")

ServeAPI ==
  /\ phase = "listen" /\ opened = Hosts
  /\ phase' = "serving"
  /\ UNCHANGED <<boots, opened, toLoad, remains, cause, podVars, busy, torn, missed>>

--------------------------------------------------------------------------
(* The requests.  They are begun only through an open listener, and go on  *)
(* after the listeners are closed: nothing waits for them.                 *)

Begin(p, op) ==
  /\ phase = "serving" /\ Idle(p) /\ p \notin missed \cup torn
  /\ CASE op = "create" -> p \notin layout \cup vm
       [] op = "start" -> p \in listed \ vm
       [] op = "stop" -> p \in listed \cap vm
       [] op = "remove" -> p \in listed
  /\ listed' = IF op = "create" THEN listed \cup {p} ELSE listed
  /\ busy' = [busy EXCEPT ![p] = op]
  /\ UNCHANGED <<daemonVars, vm, watched, layout, sb, torn, missed>>

Running == phase \notin {"off", "restore", "load", "listen"}

\* createSandbox: the sandbox runs before anything is written.
CreateSandbox(p) ==
  /\ Running /\ busy[p] \in {"create", "start"} /\ p \notin vm
  /\ vm' = vm \cup {p} /\ watched' = watched \cup {p}
  /\ UNCHANGED <<daemonVars, listed, layout, sb, busy, torn, missed>>

\* savePod writes the sandbox record before the layout; a start only saves
\* the sandbox.  With the database closed a create kills its sandbox again,
\* and a start leaves it.
Save(p) ==
  /\ Running /\ busy[p] \in {"create", "start"} /\ p \in vm
  /\ busy' = [busy EXCEPT ![p] = "idle"]
  /\ \/ /\ phase # "closed"
        /\ sb' = sb \cup {p}
        /\ layout' = IF busy[p] = "create" THEN layout \cup {p} ELSE layout
        /\ UNCHANGED <<vm, watched, listed, torn>>
     \/ /\ phase = "closed"
        /\ IF busy[p] = "create"
           THEN /\ vm' = vm \ {p} /\ watched' = watched \ {p} /\ listed' = listed \ {p}
                /\ UNCHANGED torn
           ELSE torn' = torn \cup {p} /\ UNCHANGED <<vm, watched, listed>>
        /\ UNCHANGED <<sb, layout>>
  /\ UNCHANGED <<daemonVars, missed>>

\* The sandbox goes down, by itself or because it is told to.
Down(p) ==
  /\ p \in vm /\ (busy[p] \in {"stop", "remove"} \/ (Idle(p) /\ "die" \in LifeFaults))
  /\ vm' = vm \ {p}
  /\ UNCHANGED <<daemonVars, watched, listed, layout, sb, busy, torn, missed>>

\* waitVMStop and cleanup, in the process that watches the sandbox.
Cleanup(p) ==
  /\ p \in watched \ vm /\ busy[p] \notin {"create", "start"}
  /\ watched' = watched \ {p}
  /\ sb' = IF phase = "closed" THEN sb ELSE sb \ {p}
  /\ UNCHANGED <<daemonVars, vm, listed, layout, busy, torn, missed>>

\* A stop answers when cleanup is done; a remove then drops the records.
Finish(p) ==
  /\ busy[p] \in {"stop", "remove"} /\ p \notin vm \cup watched
  /\ busy' = [busy EXCEPT ![p] = "idle"]
  /\ listed' = IF busy[p] = "remove" THEN listed \ {p} ELSE listed
  /\ layout' = IF busy[p] = "remove" /\ phase # "closed" THEN layout \ {p} ELSE layout
  /\ UNCHANGED <<daemonVars, vm, watched, sb, torn, missed>>

--------------------------------------------------------------------------
(* The end of the process.                                                 *)

\* stopServer closes the listeners; then the pods of that moment are
\* collected.  What is being served is not waited for.
StopServer(why) ==
  /\ phase = "serving" /\ why \in {"hup", "term"}
  /\ cause' = why /\ phase' = "ending"
  /\ remains' = listed /\ torn' = torn \cup Busy
  /\ UNCHANGED <<boots, opened, toLoad, podVars, busy, missed>>

\* An error of a listener ends the process with no word to the sandboxes.
ServeFails ==
  /\ phase = "serving" /\ "serve" \in LifeFaults
  /\ cause' = "error" /\ phase' = "ending" /\ torn' = torn \cup Busy
  /\ UNCHANGED <<boots, opened, toLoad, remains, podVars, busy, missed>>

\* Mutant: releasing the sandbox also forgets its record.
BugDissociate(p) ==
  /\ phase = "ending" /\ cause = "hup" /\ p \in remains
  /\ remains' = remains \ {p}
  /\ watched' = watched \ {p} /\ listed' = listed \ {p} /\ sb' = sb \ {p}
  /\ UNCHANGED <<phase, boots, opened, toLoad, cause, vm, layout, busy, torn, missed>>

\* Dissociate lets the sandbox go; one that cannot be released is killed.
Dissociate(p) ==
  /\ phase = "ending" /\ cause = "hup" /\ p \in remains
  /\ remains' = remains \ {p}
  /\ listed' = listed \ {p}
  /\ \/ watched' = watched \ {p} /\ UNCHANGED vm
     \/ "release" \in LifeFaults /\ vm' = vm \ {p} /\ UNCHANGED watched
  /\ UNCHANGED <<phase, boots, opened, toLoad, cause, layout, sb, busy, torn, missed>>

\* DestroyAllVm stops one pod after the other and goes on when a Stop(5)
\* fails.  The stop is seen through waitStopDone, after cleanup.
DestroyVm(p) ==
  /\ phase = "ending" /\ cause = "term" /\ p \in remains
  /\ remains' = remains \ {p}
  /\ \/ /\ vm' = vm \ {p}
        /\ IF p \in watched THEN watched' = watched \ {p} /\ sb' = sb \ {p}
           ELSE UNCHANGED <<watched, sb>>
        /\ UNCHANGED missed
     \/ /\ "stop" \in LifeFaults /\ p \in vm /\ missed' = missed \cup {p}
        /\ UNCHANGED <<vm, watched, sb>>
  /\ UNCHANGED <<phase, boots, opened, toLoad, cause, listed, layout, busy, torn>>

\* Shutdown closes the database; the process is gone a moment later.
Shutdown ==
  /\ phase = "ending" /\ (remains = {} \/ cause = "error")
  /\ phase' = "closed"
  /\ UNCHANGED <<boots, opened, toLoad, remains, cause, podVars, busy, torn, missed>>

Return == phase = "closed" /\ Exit(cause)

Crash == phase # "off" /\ "crash" \in LifeFaults /\ Exit("crash")

LifeNext ==
  \/ NewDaemon \/ Restore \/ RestoreFails \/ Loaded \/ NewFails \/ ServeAPI
  \/ \E h \in Hosts : New(h)
  \/ \E p \in Pods :
       \/ LoadXPod(p) \/ CreateSandbox(p) \/ Save(p) \/ Down(p) \/ Cleanup(p)
       \/ Finish(p) \/ Dissociate(p) \/ DestroyVm(p)
       \/ \E op \in {"create", "start", "stop", "remove"} : Begin(p, op)
  \/ \E why \in {"hup", "term"} : StopServer(why)
  \/ ServeFails \/ Shutdown \/ Return \/ Crash

LifeSpec == LifeInit /\ [][LifeNext]_lifeVars

--------------------------------------------------------------------------
(* Properties.                                                             *)

Settled(p) == Idle(p) /\ p \notin torn

\* A sandbox that runs and is in nobody's hands can be found again: its
\* records are in the database whatever ended the process (SIGHUP, an error,
\* a crash), and a process that has restored its pods lists and watches it,
\* unless it failed to load it.
KeptVmsReturn ==
  \A p \in Pods :
    Settled(p) /\ p \in vm =>
      /\ p \in layout \cap sb
      /\ phase = "serving" /\ p \notin missed => p \in listed \cap watched

\* After SIGTERM no sandbox is left running but those whose Stop failed, those
\* this process never loaded, and those a request was still working on when
\* the listeners were closed.
TermLeavesNoVm ==
  phase = "off" /\ cause = "term" =>
    \A p \in vm : p \in torn \cup missed
=============================================================================
