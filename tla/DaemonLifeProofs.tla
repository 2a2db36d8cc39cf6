-------------------------- MODULE DaemonLifeProofs --------------------------
(***************************************************************************)
(* No sandbox is lost over the ends and the starts of hyperd, for any pods *)
(* and listeners, any number of processes and whatever fails.              *)
(***************************************************************************)
EXTENDS DaemonLife, TLAPS

LifeTypeOK ==
  /\ phase \in {"off", "restore", "load", "listen", "serving", "ending", "closed"}
  /\ vm \subseteq Pods /\ watched \subseteq Pods /\ listed \subseteq Pods
  /\ layout \subseteq Pods /\ sb \subseteq Pods
  /\ torn \subseteq Pods /\ missed \subseteq Pods /\ toLoad \subseteq Pods
  /\ busy \in [Pods -> {"idle", "create", "start", "stop", "remove"}]

\* Requests are served only by a process that is up, and those that are still served when its
\* listeners are closed count as torn.  What is to be loaded has a layout.
ServedInv ==
  /\ ~Running => \A p \in Pods : Idle(p)
  /\ phase \in {"ending", "closed"} => \A p \in Pods : Idle(p) \/ p \in torn
  /\ phase = "load" => toLoad \subseteq layout

\* The records of a pod: a sandbox has both, and a pod that is listed, or is being started, has
\* its layout, but for the pod that is being created.
RecordInv ==
  \A p \in Pods :
    /\ Settled(p) /\ p \in vm => p \in layout /\ p \in sb
    /\ p \notin torn /\ p \in listed /\ busy[p] # "create" => p \in layout
    /\ p \notin torn /\ busy[p] = "start" => p \in layout

\* A process that has loaded a pod lists it and watches its sandbox, and does so before a
\* request for it is answered.
HandInv ==
  \A p \in Pods :
    /\ phase \in {"load", "listen", "serving"} /\ Settled(p) /\ p \in vm /\ p \notin missed =>
         (phase = "load" /\ p \in toLoad) \/ (p \in listed /\ p \in watched)
    /\ phase = "serving" /\ busy[p] \in {"create", "start"} =>
         p \in listed /\ (p \in vm => p \in watched)

\* Between SIGTERM and the end of the process, a sandbox that DestroyAllVm still has to stop is
\* in its snapshot.
TermInv ==
  cause = "term" =>
    /\ phase = "ending" => vm \subseteq torn \cup missed \cup remains
    /\ phase \in {"closed", "off"} => vm \subseteq torn \cup missed

\* The inductive invariant.
LifeInv == LifeTypeOK /\ ServedInv /\ RecordInv /\ HandInv /\ TermInv

\* Before the first process there is nothing.
LEMMA LifeBegins == LifeInit => LifeInv
BY DEF LifeInit, LifeInv, LifeTypeOK, ServedInv, RecordInv, HandInv, TermInv, Idle, Settled, Running

\* Every step keeps the types.
LEMMA LifeTypes ==
  ASSUME LifeTypeOK, LifeNext
  PROVE  LifeTypeOK'
<1>1. CASE NewDaemon
  BY <1>1 DEF NewDaemon, LifeTypeOK, Busy, daemonVars, podVars
<1>2. CASE Restore
  BY <1>2 DEF Restore, LifeTypeOK, Busy, daemonVars, podVars
<1>3. CASE RestoreFails
  BY <1>3 DEF RestoreFails, Exit, LifeTypeOK, Busy, daemonVars, podVars
<1>4. CASE Loaded
  BY <1>4 DEF Loaded, LifeTypeOK, Busy, daemonVars, podVars
<1>5. CASE NewFails
  BY <1>5 DEF NewFails, Exit, LifeTypeOK, Busy, daemonVars, podVars
<1>6. CASE ServeAPI
  BY <1>6 DEF ServeAPI, LifeTypeOK, Busy, daemonVars, podVars
<1>7. CASE ServeFails
  BY <1>7 DEF ServeFails, LifeTypeOK, Busy, daemonVars, podVars
<1>8. CASE Shutdown
  BY <1>8 DEF Shutdown, LifeTypeOK, Busy, daemonVars, podVars
<1>9. CASE Return
  BY <1>9 DEF Return, Exit, LifeTypeOK, Busy, daemonVars, podVars
<1>10. CASE Crash
  BY <1>10 DEF Crash, Exit, LifeTypeOK, Busy, daemonVars, podVars
<1>11. ASSUME NEW h \in Hosts, New(h) PROVE LifeTypeOK'
  BY <1>11 DEF New, LifeTypeOK, Busy, daemonVars, podVars
<1>12. ASSUME NEW p \in Pods, LoadXPod(p) PROVE LifeTypeOK'
  BY <1>12 DEF LoadXPod, LifeTypeOK, Busy, daemonVars, podVars
<1>13. ASSUME NEW p \in Pods, CreateSandbox(p) PROVE LifeTypeOK'
  BY <1>13 DEF CreateSandbox, LifeTypeOK, Busy, daemonVars, podVars
<1>14. ASSUME NEW p \in Pods, Save(p) PROVE LifeTypeOK'
  BY <1>14 DEF Save, LifeTypeOK, Busy, daemonVars, podVars
<1>15. ASSUME NEW p \in Pods, Down(p) PROVE LifeTypeOK'
  BY <1>15 DEF Down, LifeTypeOK, Busy, daemonVars, podVars
<1>16. ASSUME NEW p \in Pods, Cleanup(p) PROVE LifeTypeOK'
  BY <1>16 DEF Cleanup, LifeTypeOK, Busy, daemonVars, podVars
<1>17. ASSUME NEW p \in Pods, Finish(p) PROVE LifeTypeOK'
  BY <1>17 DEF Finish, LifeTypeOK, Busy, daemonVars, podVars
<1>18. ASSUME NEW p \in Pods, Dissociate(p) PROVE LifeTypeOK'
  BY <1>18 DEF Dissociate, LifeTypeOK, Busy, daemonVars, podVars
<1>19. ASSUME NEW p \in Pods, DestroyVm(p) PROVE LifeTypeOK'
  BY <1>19 DEF DestroyVm, LifeTypeOK, Busy, daemonVars, podVars
<1>20. ASSUME NEW p \in Pods, NEW o \in {"create", "start", "stop", "remove"}, Begin(p, o) PROVE LifeTypeOK'
  BY <1>20 DEF Begin, LifeTypeOK, Busy, daemonVars, podVars
<1>21. ASSUME NEW why \in {"hup", "term"}, StopServer(why) PROVE LifeTypeOK'
  BY <1>21 DEF StopServer, LifeTypeOK, Busy, daemonVars, podVars
<1>22. QED BY <1>1, <1>2, <1>3, <1>4, <1>5, <1>6, <1>7, <1>8, <1>9, <1>10, <1>11, <1>12, <1>13, <1>14, <1>15, <1>16, <1>17, <1>18, <1>19, <1>20, <1>21 DEF LifeNext

\* Every step keeps requests within the life of a process.
LEMMA ServedStep ==
  ASSUME LifeTypeOK, ServedInv, LifeNext
  PROVE  ServedInv'
<1>1. CASE NewDaemon
  BY <1>1 DEF NewDaemon, LifeTypeOK, ServedInv, Busy, Idle, Running, daemonVars, podVars
<1>2. CASE Restore
  BY <1>2 DEF Restore, LifeTypeOK, ServedInv, Busy, Idle, Running, daemonVars, podVars
<1>3. CASE RestoreFails
  BY <1>3 DEF RestoreFails, Exit, LifeTypeOK, ServedInv, Busy, Idle, Running, daemonVars, podVars
<1>4. CASE Loaded
  BY <1>4 DEF Loaded, LifeTypeOK, ServedInv, Busy, Idle, Running, daemonVars, podVars
<1>5. CASE NewFails
  BY <1>5 DEF NewFails, Exit, LifeTypeOK, ServedInv, Busy, Idle, Running, daemonVars, podVars
<1>6. CASE ServeAPI
  BY <1>6 DEF ServeAPI, LifeTypeOK, ServedInv, Busy, Idle, Running, daemonVars, podVars
<1>7. CASE ServeFails
  BY <1>7 DEF ServeFails, LifeTypeOK, ServedInv, Busy, Idle, Running, daemonVars, podVars
<1>8. CASE Shutdown
  BY <1>8 DEF Shutdown, LifeTypeOK, ServedInv, Busy, Idle, Running, daemonVars, podVars
<1>9. CASE Return
  BY <1>9 DEF Return, Exit, LifeTypeOK, ServedInv, Busy, Idle, Running, daemonVars, podVars
<1>10. CASE Crash
  BY <1>10 DEF Crash, Exit, LifeTypeOK, ServedInv, Busy, Idle, Running, daemonVars, podVars
<1>11. ASSUME NEW h \in Hosts, New(h) PROVE ServedInv'
  BY <1>11 DEF New, LifeTypeOK, ServedInv, Busy, Idle, Running, daemonVars, podVars
<1>12. ASSUME NEW p \in Pods, LoadXPod(p) PROVE ServedInv'
  BY <1>12 DEF LoadXPod, LifeTypeOK, ServedInv, Busy, Idle, Running, daemonVars, podVars
<1>13. ASSUME NEW p \in Pods, CreateSandbox(p) PROVE ServedInv'
  BY <1>13 DEF CreateSandbox, LifeTypeOK, ServedInv, Busy, Idle, Running, daemonVars, podVars
<1>14. ASSUME NEW p \in Pods, Save(p) PROVE ServedInv'
  BY <1>14 DEF Save, LifeTypeOK, ServedInv, Busy, Idle, Running, daemonVars, podVars
<1>15. ASSUME NEW p \in Pods, Down(p) PROVE ServedInv'
  BY <1>15 DEF Down, LifeTypeOK, ServedInv, Busy, Idle, Running, daemonVars, podVars
<1>16. ASSUME NEW p \in Pods, Cleanup(p) PROVE ServedInv'
  BY <1>16 DEF Cleanup, LifeTypeOK, ServedInv, Busy, Idle, Running, daemonVars, podVars
<1>17. ASSUME NEW p \in Pods, Finish(p) PROVE ServedInv'
  BY <1>17 DEF Finish, LifeTypeOK, ServedInv, Busy, Idle, Running, daemonVars, podVars
<1>18. ASSUME NEW p \in Pods, Dissociate(p) PROVE ServedInv'
  BY <1>18 DEF Dissociate, LifeTypeOK, ServedInv, Busy, Idle, Running, daemonVars, podVars
<1>19. ASSUME NEW p \in Pods, DestroyVm(p) PROVE ServedInv'
  BY <1>19 DEF DestroyVm, LifeTypeOK, ServedInv, Busy, Idle, Running, daemonVars, podVars
<1>20. ASSUME NEW p \in Pods, NEW o \in {"create", "start", "stop", "remove"}, Begin(p, o) PROVE ServedInv'
  BY <1>20 DEF Begin, LifeTypeOK, ServedInv, Busy, Idle, Running, daemonVars, podVars
<1>21. ASSUME NEW why \in {"hup", "term"}, StopServer(why) PROVE ServedInv'
  BY <1>21 DEF StopServer, LifeTypeOK, ServedInv, Busy, Idle, Running, daemonVars, podVars
<1>22. QED BY <1>1, <1>2, <1>3, <1>4, <1>5, <1>6, <1>7, <1>8, <1>9, <1>10, <1>11, <1>12, <1>13, <1>14, <1>15, <1>16, <1>17, <1>18, <1>19, <1>20, <1>21 DEF LifeNext

\* Every step keeps the records: savePod writes before a request is answered, cleanup and
\* Remove delete after the sandbox is down.
LEMMA RecordStep ==
  ASSUME LifeTypeOK, ServedInv, RecordInv, LifeNext
  PROVE  RecordInv'
<1>1. CASE NewDaemon
  BY <1>1 DEF NewDaemon, LifeTypeOK, ServedInv, RecordInv, Busy, Idle, Settled, Running, daemonVars, podVars
<1>2. CASE Restore
  BY <1>2 DEF Restore, LifeTypeOK, ServedInv, RecordInv, Busy, Idle, Settled, Running, daemonVars, podVars
<1>3. CASE RestoreFails
  BY <1>3 DEF RestoreFails, Exit, LifeTypeOK, ServedInv, RecordInv, Busy, Idle, Settled, Running, daemonVars, podVars
<1>4. CASE Loaded
  BY <1>4 DEF Loaded, LifeTypeOK, ServedInv, RecordInv, Busy, Idle, Settled, Running, daemonVars, podVars
<1>5. CASE NewFails
  BY <1>5 DEF NewFails, Exit, LifeTypeOK, ServedInv, RecordInv, Busy, Idle, Settled, Running, daemonVars, podVars
<1>6. CASE ServeAPI
  BY <1>6 DEF ServeAPI, LifeTypeOK, ServedInv, RecordInv, Busy, Idle, Settled, Running, daemonVars, podVars
<1>7. CASE ServeFails
  BY <1>7 DEF ServeFails, LifeTypeOK, ServedInv, RecordInv, Busy, Idle, Settled, Running, daemonVars, podVars
<1>8. CASE Shutdown
  BY <1>8 DEF Shutdown, LifeTypeOK, ServedInv, RecordInv, Busy, Idle, Settled, Running, daemonVars, podVars
<1>9. CASE Return
  BY <1>9 DEF Return, Exit, LifeTypeOK, ServedInv, RecordInv, Busy, Idle, Settled, Running, daemonVars, podVars
<1>10. CASE Crash
  BY <1>10 DEF Crash, Exit, LifeTypeOK, ServedInv, RecordInv, Busy, Idle, Settled, Running, daemonVars, podVars
<1>11. ASSUME NEW h \in Hosts, New(h) PROVE RecordInv'
  BY <1>11 DEF New, LifeTypeOK, ServedInv, RecordInv, Busy, Idle, Settled, Running, daemonVars, podVars
<1>12. ASSUME NEW p \in Pods, LoadXPod(p) PROVE RecordInv'
  BY <1>12 DEF LoadXPod, LifeTypeOK, ServedInv, RecordInv, Busy, Idle, Settled, Running, daemonVars, podVars
<1>13. ASSUME NEW p \in Pods, CreateSandbox(p) PROVE RecordInv'
  BY <1>13 DEF CreateSandbox, LifeTypeOK, ServedInv, RecordInv, Busy, Idle, Settled, Running, daemonVars, podVars
<1>14. ASSUME NEW p \in Pods, Save(p) PROVE RecordInv'
  BY <1>14 DEF Save, LifeTypeOK, ServedInv, RecordInv, Busy, Idle, Settled, Running, daemonVars, podVars
<1>15. ASSUME NEW p \in Pods, Down(p) PROVE RecordInv'
  BY <1>15 DEF Down, LifeTypeOK, ServedInv, RecordInv, Busy, Idle, Settled, Running, daemonVars, podVars
<1>16. ASSUME NEW p \in Pods, Cleanup(p) PROVE RecordInv'
  BY <1>16 DEF Cleanup, LifeTypeOK, ServedInv, RecordInv, Busy, Idle, Settled, Running, daemonVars, podVars
<1>17. ASSUME NEW p \in Pods, Finish(p) PROVE RecordInv'
  BY <1>17 DEF Finish, LifeTypeOK, ServedInv, RecordInv, Busy, Idle, Settled, Running, daemonVars, podVars
<1>18. ASSUME NEW p \in Pods, Dissociate(p) PROVE RecordInv'
  BY <1>18 DEF Dissociate, LifeTypeOK, ServedInv, RecordInv, Busy, Idle, Settled, Running, daemonVars, podVars
<1>19. ASSUME NEW p \in Pods, DestroyVm(p) PROVE RecordInv'
  BY <1>19 DEF DestroyVm, LifeTypeOK, ServedInv, RecordInv, Busy, Idle, Settled, Running, daemonVars, podVars
<1>20. ASSUME NEW p \in Pods, NEW o \in {"create", "start", "stop", "remove"}, Begin(p, o) PROVE RecordInv'
  BY <1>20 DEF Begin, LifeTypeOK, ServedInv, RecordInv, Busy, Idle, Settled, Running, daemonVars, podVars
<1>21. ASSUME NEW why \in {"hup", "term"}, StopServer(why) PROVE RecordInv'
  BY <1>21 DEF StopServer, LifeTypeOK, ServedInv, RecordInv, Busy, Idle, Settled, Running, daemonVars, podVars
<1>22. QED BY <1>1, <1>2, <1>3, <1>4, <1>5, <1>6, <1>7, <1>8, <1>9, <1>10, <1>11, <1>12, <1>13, <1>14, <1>15, <1>16, <1>17, <1>18, <1>19, <1>20, <1>21 DEF LifeNext

\* Every step keeps the sandboxes in the hands of the process that has loaded them.
LEMMA HandStep ==
  ASSUME LifeTypeOK, ServedInv, RecordInv, HandInv, LifeNext
  PROVE  HandInv'
<1>1. CASE NewDaemon
  BY <1>1 DEF NewDaemon, LifeTypeOK, ServedInv, RecordInv, HandInv, Busy, Idle, Settled, Running, daemonVars, podVars
<1>2. CASE Restore
  BY <1>2 DEF Restore, LifeTypeOK, ServedInv, RecordInv, HandInv, Busy, Idle, Settled, Running, daemonVars, podVars
<1>3. CASE RestoreFails
  BY <1>3 DEF RestoreFails, Exit, LifeTypeOK, ServedInv, RecordInv, HandInv, Busy, Idle, Settled, Running, daemonVars, podVars
<1>4. CASE Loaded
  BY <1>4 DEF Loaded, LifeTypeOK, ServedInv, RecordInv, HandInv, Busy, Idle, Settled, Running, daemonVars, podVars
<1>5. CASE NewFails
  BY <1>5 DEF NewFails, Exit, LifeTypeOK, ServedInv, RecordInv, HandInv, Busy, Idle, Settled, Running, daemonVars, podVars
<1>6. CASE ServeAPI
  BY <1>6 DEF ServeAPI, LifeTypeOK, ServedInv, RecordInv, HandInv, Busy, Idle, Settled, Running, daemonVars, podVars
<1>7. CASE ServeFails
  BY <1>7 DEF ServeFails, LifeTypeOK, ServedInv, RecordInv, HandInv, Busy, Idle, Settled, Running, daemonVars, podVars
<1>8. CASE Shutdown
  BY <1>8 DEF Shutdown, LifeTypeOK, ServedInv, RecordInv, HandInv, Busy, Idle, Settled, Running, daemonVars, podVars
<1>9. CASE Return
  BY <1>9 DEF Return, Exit, LifeTypeOK, ServedInv, RecordInv, HandInv, Busy, Idle, Settled, Running, daemonVars, podVars
<1>10. CASE Crash
  BY <1>10 DEF Crash, Exit, LifeTypeOK, ServedInv, RecordInv, HandInv, Busy, Idle, Settled, Running, daemonVars, podVars
<1>11. ASSUME NEW h \in Hosts, New(h) PROVE HandInv'
  BY <1>11 DEF New, LifeTypeOK, ServedInv, RecordInv, HandInv, Busy, Idle, Settled, Running, daemonVars, podVars
<1>12. ASSUME NEW p \in Pods, LoadXPod(p) PROVE HandInv'
  BY <1>12 DEF LoadXPod, LifeTypeOK, ServedInv, RecordInv, HandInv, Busy, Idle, Settled, Running, daemonVars, podVars
<1>13. ASSUME NEW p \in Pods, CreateSandbox(p) PROVE HandInv'
  BY <1>13 DEF CreateSandbox, LifeTypeOK, ServedInv, RecordInv, HandInv, Busy, Idle, Settled, Running, daemonVars, podVars
<1>14. ASSUME NEW p \in Pods, Save(p) PROVE HandInv'
  BY <1>14 DEF Save, LifeTypeOK, ServedInv, RecordInv, HandInv, Busy, Idle, Settled, Running, daemonVars, podVars
<1>15. ASSUME NEW p \in Pods, Down(p) PROVE HandInv'
  BY <1>15 DEF Down, LifeTypeOK, ServedInv, RecordInv, HandInv, Busy, Idle, Settled, Running, daemonVars, podVars
<1>16. ASSUME NEW p \in Pods, Cleanup(p) PROVE HandInv'
  BY <1>16 DEF Cleanup, LifeTypeOK, ServedInv, RecordInv, HandInv, Busy, Idle, Settled, Running, daemonVars, podVars
<1>17. ASSUME NEW p \in Pods, Finish(p) PROVE HandInv'
  BY <1>17 DEF Finish, LifeTypeOK, ServedInv, RecordInv, HandInv, Busy, Idle, Settled, Running, daemonVars, podVars
<1>18. ASSUME NEW p \in Pods, Dissociate(p) PROVE HandInv'
  BY <1>18 DEF Dissociate, LifeTypeOK, ServedInv, RecordInv, HandInv, Busy, Idle, Settled, Running, daemonVars, podVars
<1>19. ASSUME NEW p \in Pods, DestroyVm(p) PROVE HandInv'
  BY <1>19 DEF DestroyVm, LifeTypeOK, ServedInv, RecordInv, HandInv, Busy, Idle, Settled, Running, daemonVars, podVars
<1>20. ASSUME NEW p \in Pods, NEW o \in {"create", "start", "stop", "remove"}, Begin(p, o) PROVE HandInv'
  BY <1>20 DEF Begin, LifeTypeOK, ServedInv, RecordInv, HandInv, Busy, Idle, Settled, Running, daemonVars, podVars
<1>21. ASSUME NEW why \in {"hup", "term"}, StopServer(why) PROVE HandInv'
  BY <1>21 DEF StopServer, LifeTypeOK, ServedInv, RecordInv, HandInv, Busy, Idle, Settled, Running, daemonVars, podVars
<1>22. QED BY <1>1, <1>2, <1>3, <1>4, <1>5, <1>6, <1>7, <1>8, <1>9, <1>10, <1>11, <1>12, <1>13, <1>14, <1>15, <1>16, <1>17, <1>18, <1>19, <1>20, <1>21 DEF LifeNext

\* Every step keeps the sandboxes that SIGTERM has to end in the snapshot.
LEMMA TermStep ==
  ASSUME LifeTypeOK, ServedInv, HandInv, TermInv, LifeNext
  PROVE  TermInv'
<1>1. CASE NewDaemon
  BY <1>1 DEF NewDaemon, LifeTypeOK, ServedInv, HandInv, TermInv, Busy, Idle, Settled, Running, daemonVars, podVars
<1>2. CASE Restore
  BY <1>2 DEF Restore, LifeTypeOK, ServedInv, HandInv, TermInv, Busy, Idle, Settled, Running, daemonVars, podVars
<1>3. CASE RestoreFails
  BY <1>3 DEF RestoreFails, Exit, LifeTypeOK, ServedInv, HandInv, TermInv, Busy, Idle, Settled, Running, daemonVars, podVars
<1>4. CASE Loaded
  BY <1>4 DEF Loaded, LifeTypeOK, ServedInv, HandInv, TermInv, Busy, Idle, Settled, Running, daemonVars, podVars
<1>5. CASE NewFails
  BY <1>5 DEF NewFails, Exit, LifeTypeOK, ServedInv, HandInv, TermInv, Busy, Idle, Settled, Running, daemonVars, podVars
<1>6. CASE ServeAPI
  BY <1>6 DEF ServeAPI, LifeTypeOK, ServedInv, HandInv, TermInv, Busy, Idle, Settled, Running, daemonVars, podVars
<1>7. CASE ServeFails
  BY <1>7 DEF ServeFails, LifeTypeOK, ServedInv, HandInv, TermInv, Busy, Idle, Settled, Running, daemonVars, podVars
<1>8. CASE Shutdown
  BY <1>8 DEF Shutdown, LifeTypeOK, ServedInv, HandInv, TermInv, Busy, Idle, Settled, Running, daemonVars, podVars
<1>9. CASE Return
  BY <1>9 DEF Return, Exit, LifeTypeOK, ServedInv, HandInv, TermInv, Busy, Idle, Settled, Running, daemonVars, podVars
<1>10. CASE Crash
  BY <1>10 DEF Crash, Exit, LifeTypeOK, ServedInv, HandInv, TermInv, Busy, Idle, Settled, Running, daemonVars, podVars
<1>11. ASSUME NEW h \in Hosts, New(h) PROVE TermInv'
  BY <1>11 DEF New, LifeTypeOK, ServedInv, HandInv, TermInv, Busy, Idle, Settled, Running, daemonVars, podVars
<1>12. ASSUME NEW p \in Pods, LoadXPod(p) PROVE TermInv'
  BY <1>12 DEF LoadXPod, LifeTypeOK, ServedInv, HandInv, TermInv, Busy, Idle, Settled, Running, daemonVars, podVars
<1>13. ASSUME NEW p \in Pods, CreateSandbox(p) PROVE TermInv'
  BY <1>13 DEF CreateSandbox, LifeTypeOK, ServedInv, HandInv, TermInv, Busy, Idle, Settled, Running, daemonVars, podVars
<1>14. ASSUME NEW p \in Pods, Save(p) PROVE TermInv'
  BY <1>14 DEF Save, LifeTypeOK, ServedInv, HandInv, TermInv, Busy, Idle, Settled, Running, daemonVars, podVars
<1>15. ASSUME NEW p \in Pods, Down(p) PROVE TermInv'
  BY <1>15 DEF Down, LifeTypeOK, ServedInv, HandInv, TermInv, Busy, Idle, Settled, Running, daemonVars, podVars
<1>16. ASSUME NEW p \in Pods, Cleanup(p) PROVE TermInv'
  BY <1>16 DEF Cleanup, LifeTypeOK, ServedInv, HandInv, TermInv, Busy, Idle, Settled, Running, daemonVars, podVars
<1>17. ASSUME NEW p \in Pods, Finish(p) PROVE TermInv'
  BY <1>17 DEF Finish, LifeTypeOK, ServedInv, HandInv, TermInv, Busy, Idle, Settled, Running, daemonVars, podVars
<1>18. ASSUME NEW p \in Pods, Dissociate(p) PROVE TermInv'
  BY <1>18 DEF Dissociate, LifeTypeOK, ServedInv, HandInv, TermInv, Busy, Idle, Settled, Running, daemonVars, podVars
<1>19. ASSUME NEW p \in Pods, DestroyVm(p) PROVE TermInv'
  BY <1>19 DEF DestroyVm, LifeTypeOK, ServedInv, HandInv, TermInv, Busy, Idle, Settled, Running, daemonVars, podVars
<1>20. ASSUME NEW p \in Pods, NEW o \in {"create", "start", "stop", "remove"}, Begin(p, o) PROVE TermInv'
  BY <1>20 DEF Begin, LifeTypeOK, ServedInv, HandInv, TermInv, Busy, Idle, Settled, Running, daemonVars, podVars
<1>21. ASSUME NEW why \in {"hup", "term"}, StopServer(why) PROVE TermInv'
  BY <1>21 DEF StopServer, LifeTypeOK, ServedInv, HandInv, TermInv, Busy, Idle, Settled, Running, daemonVars, podVars
<1>22. QED BY <1>1, <1>2, <1>3, <1>4, <1>5, <1>6, <1>7, <1>8, <1>9, <1>10, <1>11, <1>12, <1>13, <1>14, <1>15, <1>16, <1>17, <1>18, <1>19, <1>20, <1>21 DEF LifeNext

\* The invariant holds in every state.
LEMMA LifeInvariance == LifeSpec => []LifeInv
<1>1. LifeInv /\ LifeNext => LifeInv'
  BY LifeTypes, ServedStep, RecordStep, HandStep, TermStep DEF LifeInv
<1>2. LifeInv /\ UNCHANGED lifeVars => LifeInv'
  BY DEF LifeInv, lifeVars, daemonVars, podVars, LifeTypeOK, ServedInv, RecordInv, HandInv, TermInv,
         Idle, Settled, Running
<1>3. QED BY LifeBegins, <1>1, <1>2, PTL DEF LifeSpec

\* However a process ended, a running sandbox has the records that lead the next process to it,
\* and a process that serves has it listed and watched (Restore, LoadXPod, Dissociate).
THEOREM SandboxesReturn == LifeSpec => []KeptVmsReturn
<1>1. LifeInv => KeptVmsReturn
  BY DEF LifeInv, RecordInv, HandInv, KeptVmsReturn
<1>2. QED BY <1>1, LifeInvariance, PTL

\* SIGTERM leaves no sandbox but those whose stop failed, that were never loaded, or whose
\* request was being served (mainDaemon, DestroyAllVm).
THEOREM TermEndsSandboxes == LifeSpec => []TermLeavesNoVm
<1>1. LifeInv => TermLeavesNoVm
  BY DEF LifeInv, TermInv, TermLeavesNoVm
<1>2. QED BY <1>1, LifeInvariance, PTL
=============================================================================
