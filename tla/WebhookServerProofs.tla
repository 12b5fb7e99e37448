------------------------ MODULE WebhookServerProofs ------------------------
(***************************************************************************)
(* Safety of the webhook daemon for every set of deliveries and            *)
(* applications: type correctness, mutual exclusion, the clean exit, the   *)
(* order of revisions, and the refinement of DeployQueue.                  *)
(***************************************************************************)
EXTENDS WebhookServer, TLAPS

Dispatched == {"dispatching", "spawned", "answered"}
Counted    == {"queued"} \cup Working

(* What a deploy goroutine knows about the handler that spawned it.        *)
HandlerInv ==
  \A r \in Requests :
    /\ handler[r] \in Dispatched =>
         /\ target[r] \in Apps
         /\ mutex[r] \in Requests
         /\ mutex[r] = locks[target[r]]
    /\ stage[r] = "none" <=> handler[r] \notin {"spawned", "answered"}

(* A working deploy holds its mutex, and two of them hold different ones.  *)
LockInv ==
  /\ \A r \in Requests : stage[r] \in Working => mutex[r] \in held
  /\ \A r, s \in Requests :
       stage[r] \in Working /\ stage[s] \in Working /\ mutex[r] = mutex[s] => r = s

WaitGroupInv == wg = {r \in Requests : stage[r] \in Counted}

(* How far the main goroutine is, and what http's Shutdown guarantees.     *)
ShutdownInv ==
  /\ main \in {"select", "shutdown"} => ~inShutdown
  /\ main \in {"draining", "waiting"} => inShutdown
  /\ serverErr = "nil" => inShutdown
  /\ main = "waiting" => HandlersDrained
  /\ main = "awaiting" /\ inShutdown => HandlersDrained /\ wg = {}
  /\ main = "exited" /\ result = "nil" => HandlersDrained /\ wg = {}
  /\ main # "exited" => result = "none"

(* The revisions a deploy moves never overtake each other.                 *)
RevisionInv ==
  /\ \A a \in Apps : running[a] <= image[a] /\ image[a] <= clone[a] /\ clone[a] <= head[a]
  /\ \A r \in Requests : stage[r] = "building" =>
       image[target[r]] <= built[r] /\ built[r] <= clone[target[r]]

(* How far the announced revision of a delivery got.                       *)
AnnouncedInv ==
  \A r \in Requests :
    /\ target[r] \in Apps => sentRev[r] <= head[target[r]]
    /\ stage[r] = "pulled" => sentRev[r] <= clone[target[r]]
    /\ stage[r] = "building" => sentRev[r] <= built[r]
    /\ stage[r] = "tagged" => sentRev[r] <= image[target[r]]
    /\ stage[r] \in {"restarted", "succeeded"} => sentRev[r] <= running[target[r]]

IInv == /\ TypeOK /\ HandlerInv /\ LockInv /\ WaitGroupInv /\ ShutdownInv
        /\ RevisionInv /\ AnnouncedInv
-----------------------------------------------------------------------------
(* Server.Start and the main goroutine touch no handler, deploy or revision. *)
LEMMA DaemonStep ==
  ASSUME StartNext \/ MainNext
  PROVE  ServerStep
BY
  DEF StartNext, MainNext, ListenFails, PublishServer, Serve, ServerClosed,
     ServeFails,
       ReceiveServerErr, ReceiveSignal, ShutdownUnpublished, ShutdownPublished, Drained,
       WaitReturns, ShutdownTimeout

(* Every step keeps the types; the mutex a deploy locks is a real one.     *)
LEMMA TypeStep ==
  ASSUME TypeOK, HandlerInv, [Next]_vars
  PROVE  TypeOK'
<1> USE ServerAssumption DEF TypeOK, HandlerInv, Dispatched, Idle, Working, Ended, Alive
<1>1. ASSUME NEW a \in Apps, Push(a) PROVE TypeOK'
  BY <1>1 DEF Push, handlerVars, lockVars, deployVars, mainVars, revVars
<1>2. ASSUME NEW r \in Requests, NEW a \in Apps \cup {Refused}, Arrive(r, a) PROVE TypeOK'
  BY <1>2 DEF Arrive, lockVars, deployVars, mainVars, revVars
<1>3. ASSUME Signal PROVE TypeOK'
  BY <1>3 DEF Signal, handlerVars, lockVars, deployVars, revVars
<1>4. ASSUME NEW r \in Requests, HandlerRefuse(r) PROVE TypeOK'
  BY <1>4 DEF HandlerRefuse, handlerVars, lockVars, deployVars, mainVars, revVars
<1>5. ASSUME NEW r \in Requests, GetAppLock(r) PROVE TypeOK'
  BY <1>5
    DEF GetAppLock, LoadOrStore, handlerVars, lockVars, deployVars, mainVars,
       revVars
<1>6. ASSUME NEW r \in Requests, DispatchDeploy(r) PROVE TypeOK'
  BY <1>6 DEF DispatchDeploy, handlerVars, lockVars, deployVars, mainVars, revVars
<1>7. ASSUME NEW r \in Requests, HandlerAnswer(r) PROVE TypeOK'
  BY <1>7 DEF HandlerAnswer, handlerVars, lockVars, deployVars, mainVars, revVars
<1>8. ASSUME NEW r \in Requests, LockApp(r) PROVE TypeOK'
  BY <1>8 DEF LockApp, AtStage, handlerVars, lockVars, deployVars, mainVars, revVars
<1>9. ASSUME NEW r \in Requests, Pull(r) PROVE TypeOK'
  BY <1>9 DEF Pull, AtStage, handlerVars, lockVars, deployVars, mainVars, revVars
<1>10. ASSUME NEW r \in Requests, BuildStart(r) PROVE TypeOK'
  BY <1>10
    DEF BuildStart, AtStage, handlerVars, lockVars, deployVars, mainVars, revVars
<1>11. ASSUME NEW r \in Requests, BuildEnd(r) PROVE TypeOK'
  BY <1>11
    DEF BuildEnd, AtStage, handlerVars, lockVars, deployVars, mainVars, revVars
<1>12. ASSUME NEW r \in Requests, Restart(r) PROVE TypeOK'
  BY <1>12
    DEF Restart, AtStage, handlerVars, lockVars, deployVars, mainVars, revVars
<1>13. ASSUME NEW r \in Requests, Succeed(r) PROVE TypeOK'
  BY <1>13
    DEF Succeed, AtStage, EndDeploy, handlerVars, lockVars, deployVars, mainVars,
       revVars
<1>14. ASSUME NEW r \in Requests, Fail(r) PROVE TypeOK'
  BY <1>14 DEF Fail, EndDeploy, handlerVars, lockVars, deployVars, mainVars, revVars
<1>15. ASSUME ListenFails PROVE TypeOK'
  BY <1>15 DEF ListenFails, ServerStep, handlerVars, lockVars, deployVars, revVars
<1>16. ASSUME PublishServer PROVE TypeOK'
  BY <1>16 DEF PublishServer, ServerStep, handlerVars, lockVars, deployVars, revVars
<1>17. ASSUME Serve PROVE TypeOK'
  BY <1>17 DEF Serve, ServerStep, handlerVars, lockVars, deployVars, revVars
<1>18. ASSUME ServerClosed PROVE TypeOK'
  BY <1>18 DEF ServerClosed, ServerStep, handlerVars, lockVars, deployVars, revVars
<1>19. ASSUME ServeFails PROVE TypeOK'
  BY <1>19 DEF ServeFails, ServerStep, handlerVars, lockVars, deployVars, revVars
<1>20. ASSUME ReceiveServerErr PROVE TypeOK'
  BY <1>20
    DEF ReceiveServerErr, Exit, ServerStep, handlerVars, lockVars, deployVars,
       revVars
<1>21. ASSUME ReceiveSignal PROVE TypeOK'
  BY <1>21 DEF ReceiveSignal, ServerStep, handlerVars, lockVars, deployVars, revVars
<1>22. ASSUME ShutdownUnpublished PROVE TypeOK'
  BY <1>22
    DEF ShutdownUnpublished, ServerStep, handlerVars, lockVars, deployVars, revVars
<1>23. ASSUME ShutdownPublished PROVE TypeOK'
  BY <1>23
    DEF ShutdownPublished, ServerStep, handlerVars, lockVars, deployVars, revVars
<1>24. ASSUME Drained PROVE TypeOK'
  BY <1>24 DEF Drained, ServerStep, handlerVars, lockVars, deployVars, revVars
<1>25. ASSUME WaitReturns PROVE TypeOK'
  BY <1>25 DEF WaitReturns, ServerStep, handlerVars, lockVars, deployVars, revVars
<1>26. ASSUME ShutdownTimeout PROVE TypeOK'
  BY <1>26
    DEF ShutdownTimeout, Exit, ServerStep, handlerVars, lockVars, deployVars,
       revVars
<1>27. CASE UNCHANGED vars
  BY <1>27 DEF vars, handlerVars, lockVars, deployVars, mainVars, revVars
<1> QED
  BY <1>1, <1>2, <1>3, <1>4, <1>5, <1>6, <1>7, <1>8, <1>9, <1>10, <1>11, <1>12,
       <1>13, <1>14, <1>15, <1>16, <1>17, <1>18, <1>19, <1>20, <1>21, <1>22, <1>23,
       <1>24, <1>25, <1>26, <1>27
  DEF Next, HandlerNext, DeployNext, StartNext, MainNext

(* getAppLock hands out the one mutex of the application for good.         *)
LEMMA HandlerStep ==
  ASSUME TypeOK, HandlerInv, [Next]_vars
  PROVE  HandlerInv'
<1> USE ServerAssumption DEF TypeOK, HandlerInv, Dispatched, Idle, Working, Ended, Alive
<1>1. ASSUME NEW a \in Apps, Push(a) PROVE HandlerInv'
  BY <1>1 DEF Push, handlerVars, lockVars, deployVars, mainVars, revVars
<1>2. ASSUME NEW r \in Requests, NEW a \in Apps \cup {Refused}, Arrive(r, a) PROVE HandlerInv'
  BY <1>2 DEF Arrive, lockVars, deployVars, mainVars, revVars
<1>3. ASSUME Signal PROVE HandlerInv'
  BY <1>3 DEF Signal, handlerVars, lockVars, deployVars, revVars
<1>4. ASSUME NEW r \in Requests, HandlerRefuse(r) PROVE HandlerInv'
  BY <1>4 DEF HandlerRefuse, handlerVars, lockVars, deployVars, mainVars, revVars
<1>5. ASSUME NEW r \in Requests, GetAppLock(r) PROVE HandlerInv'
  BY <1>5
    DEF GetAppLock, LoadOrStore, handlerVars, lockVars, deployVars, mainVars,
       revVars
<1>6. ASSUME NEW r \in Requests, DispatchDeploy(r) PROVE HandlerInv'
  BY <1>6 DEF DispatchDeploy, handlerVars, lockVars, deployVars, mainVars, revVars
<1>7. ASSUME NEW r \in Requests, HandlerAnswer(r) PROVE HandlerInv'
  BY <1>7 DEF HandlerAnswer, handlerVars, lockVars, deployVars, mainVars, revVars
<1>8. ASSUME NEW r \in Requests, LockApp(r) PROVE HandlerInv'
  BY <1>8 DEF LockApp, AtStage, handlerVars, lockVars, deployVars, mainVars, revVars
<1>9. ASSUME NEW r \in Requests, Pull(r) PROVE HandlerInv'
  BY <1>9 DEF Pull, AtStage, handlerVars, lockVars, deployVars, mainVars, revVars
<1>10. ASSUME NEW r \in Requests, BuildStart(r) PROVE HandlerInv'
  BY <1>10
    DEF BuildStart, AtStage, handlerVars, lockVars, deployVars, mainVars, revVars
<1>11. ASSUME NEW r \in Requests, BuildEnd(r) PROVE HandlerInv'
  BY <1>11
    DEF BuildEnd, AtStage, handlerVars, lockVars, deployVars, mainVars, revVars
<1>12. ASSUME NEW r \in Requests, Restart(r) PROVE HandlerInv'
  BY <1>12
    DEF Restart, AtStage, handlerVars, lockVars, deployVars, mainVars, revVars
<1>13. ASSUME NEW r \in Requests, Succeed(r) PROVE HandlerInv'
  BY <1>13
    DEF Succeed, AtStage, EndDeploy, handlerVars, lockVars, deployVars, mainVars,
       revVars
<1>14. ASSUME NEW r \in Requests, Fail(r) PROVE HandlerInv'
  BY <1>14 DEF Fail, EndDeploy, handlerVars, lockVars, deployVars, mainVars, revVars
<1>15. ASSUME StartNext \/ MainNext PROVE HandlerInv'
  BY <1>15, DaemonStep DEF ServerStep, handlerVars, lockVars, deployVars, revVars
<1>16. CASE UNCHANGED vars
  BY <1>16 DEF vars, handlerVars, lockVars, deployVars, mainVars, revVars
<1> QED
  BY <1>1, <1>2, <1>3, <1>4, <1>5, <1>6, <1>7, <1>8, <1>9, <1>10, <1>11, <1>12,
       <1>13, <1>14, <1>15, <1>16
  DEF Next, HandlerNext, DeployNext

(* Only Lock takes a free mutex, only the deploy that holds it frees it.   *)
LEMMA LockStep ==
  ASSUME TypeOK, HandlerInv, LockInv, [Next]_vars
  PROVE  LockInv'
<1> USE ServerAssumption DEF TypeOK, HandlerInv, LockInv, Dispatched, Idle, Working, Ended, Alive
<1>1. ASSUME NEW a \in Apps, Push(a) PROVE LockInv'
  BY <1>1 DEF Push, handlerVars, lockVars, deployVars, mainVars, revVars
<1>2. ASSUME NEW r \in Requests, NEW a \in Apps \cup {Refused}, Arrive(r, a) PROVE LockInv'
  BY <1>2 DEF Arrive, lockVars, deployVars, mainVars, revVars
<1>3. ASSUME Signal PROVE LockInv'
  BY <1>3 DEF Signal, handlerVars, lockVars, deployVars, revVars
<1>4. ASSUME NEW r \in Requests, HandlerRefuse(r) PROVE LockInv'
  BY <1>4 DEF HandlerRefuse, handlerVars, lockVars, deployVars, mainVars, revVars
<1>5. ASSUME NEW r \in Requests, GetAppLock(r) PROVE LockInv'
  BY <1>5
    DEF GetAppLock, LoadOrStore, handlerVars, lockVars, deployVars, mainVars,
       revVars
<1>6. ASSUME NEW r \in Requests, DispatchDeploy(r) PROVE LockInv'
  BY <1>6 DEF DispatchDeploy, handlerVars, lockVars, deployVars, mainVars, revVars
<1>7. ASSUME NEW r \in Requests, HandlerAnswer(r) PROVE LockInv'
  BY <1>7 DEF HandlerAnswer, handlerVars, lockVars, deployVars, mainVars, revVars
<1>8. ASSUME NEW r \in Requests, LockApp(r) PROVE LockInv'
  BY <1>8 DEF LockApp, AtStage, handlerVars, lockVars, deployVars, mainVars, revVars
<1>9. ASSUME NEW r \in Requests, Pull(r) PROVE LockInv'
  BY <1>9 DEF Pull, AtStage, handlerVars, lockVars, deployVars, mainVars, revVars
<1>10. ASSUME NEW r \in Requests, BuildStart(r) PROVE LockInv'
  BY <1>10
    DEF BuildStart, AtStage, handlerVars, lockVars, deployVars, mainVars, revVars
<1>11. ASSUME NEW r \in Requests, BuildEnd(r) PROVE LockInv'
  BY <1>11
    DEF BuildEnd, AtStage, handlerVars, lockVars, deployVars, mainVars, revVars
<1>12. ASSUME NEW r \in Requests, Restart(r) PROVE LockInv'
  BY <1>12
    DEF Restart, AtStage, handlerVars, lockVars, deployVars, mainVars, revVars
<1>13. ASSUME NEW r \in Requests, Succeed(r) PROVE LockInv'
  BY <1>13
    DEF Succeed, AtStage, EndDeploy, handlerVars, lockVars, deployVars, mainVars,
       revVars
<1>14. ASSUME NEW r \in Requests, Fail(r) PROVE LockInv'
  BY <1>14 DEF Fail, EndDeploy, handlerVars, lockVars, deployVars, mainVars, revVars
<1>15. ASSUME StartNext \/ MainNext PROVE LockInv'
  BY <1>15, DaemonStep DEF ServerStep, handlerVars, lockVars, deployVars, revVars
<1>16. CASE UNCHANGED vars
  BY <1>16 DEF vars, handlerVars, lockVars, deployVars, mainVars, revVars
<1> QED
  BY <1>1, <1>2, <1>3, <1>4, <1>5, <1>6, <1>7, <1>8, <1>9, <1>10, <1>11, <1>12,
       <1>13, <1>14, <1>15, <1>16
  DEF Next, HandlerNext, DeployNext

(* wg.Go and the end of its function keep the count exact.                 *)
LEMMA WaitGroupStep ==
  ASSUME TypeOK, HandlerInv, WaitGroupInv, [Next]_vars
  PROVE  WaitGroupInv'
<1> USE ServerAssumption DEF TypeOK, HandlerInv, WaitGroupInv, Counted, Dispatched, Idle, Working, Ended, Alive
<1>1. ASSUME NEW a \in Apps, Push(a) PROVE WaitGroupInv'
  BY <1>1 DEF Push, handlerVars, lockVars, deployVars, mainVars, revVars
<1>2. ASSUME NEW r \in Requests, NEW a \in Apps \cup {Refused}, Arrive(r, a) PROVE WaitGroupInv'
  BY <1>2 DEF Arrive, lockVars, deployVars, mainVars, revVars
<1>3. ASSUME Signal PROVE WaitGroupInv'
  BY <1>3 DEF Signal, handlerVars, lockVars, deployVars, revVars
<1>4. ASSUME NEW r \in Requests, HandlerRefuse(r) PROVE WaitGroupInv'
  BY <1>4 DEF HandlerRefuse, handlerVars, lockVars, deployVars, mainVars, revVars
<1>5. ASSUME NEW r \in Requests, GetAppLock(r) PROVE WaitGroupInv'
  BY <1>5
    DEF GetAppLock, LoadOrStore, handlerVars, lockVars, deployVars, mainVars,
       revVars
<1>6. ASSUME NEW r \in Requests, DispatchDeploy(r) PROVE WaitGroupInv'
  BY <1>6 DEF DispatchDeploy, handlerVars, lockVars, deployVars, mainVars, revVars
<1>7. ASSUME NEW r \in Requests, HandlerAnswer(r) PROVE WaitGroupInv'
  BY <1>7 DEF HandlerAnswer, handlerVars, lockVars, deployVars, mainVars, revVars
<1>8. ASSUME NEW r \in Requests, LockApp(r) PROVE WaitGroupInv'
  BY <1>8 DEF LockApp, AtStage, handlerVars, lockVars, deployVars, mainVars, revVars
<1>9. ASSUME NEW r \in Requests, Pull(r) PROVE WaitGroupInv'
  BY <1>9 DEF Pull, AtStage, handlerVars, lockVars, deployVars, mainVars, revVars
<1>10. ASSUME NEW r \in Requests, BuildStart(r) PROVE WaitGroupInv'
  BY <1>10
    DEF BuildStart, AtStage, handlerVars, lockVars, deployVars, mainVars, revVars
<1>11. ASSUME NEW r \in Requests, BuildEnd(r) PROVE WaitGroupInv'
  BY <1>11
    DEF BuildEnd, AtStage, handlerVars, lockVars, deployVars, mainVars, revVars
<1>12. ASSUME NEW r \in Requests, Restart(r) PROVE WaitGroupInv'
  BY <1>12
    DEF Restart, AtStage, handlerVars, lockVars, deployVars, mainVars, revVars
<1>13. ASSUME NEW r \in Requests, Succeed(r) PROVE WaitGroupInv'
  BY <1>13
    DEF Succeed, AtStage, EndDeploy, handlerVars, lockVars, deployVars, mainVars,
       revVars
<1>14. ASSUME NEW r \in Requests, Fail(r) PROVE WaitGroupInv'
  BY <1>14 DEF Fail, EndDeploy, handlerVars, lockVars, deployVars, mainVars, revVars
<1>15. ASSUME StartNext \/ MainNext PROVE WaitGroupInv'
  BY <1>15, DaemonStep DEF ServerStep, handlerVars, lockVars, deployVars, revVars
<1>16. CASE UNCHANGED vars
  BY <1>16 DEF vars, handlerVars, lockVars, deployVars, mainVars, revVars
<1> QED
  BY <1>1, <1>2, <1>3, <1>4, <1>5, <1>6, <1>7, <1>8, <1>9, <1>10, <1>11, <1>12,
       <1>13, <1>14, <1>15, <1>16
  DEF Next, HandlerNext, DeployNext

(* Once http's Shutdown returned no handler starts, so wg only shrinks.    *)
LEMMA ShutdownStep ==
  ASSUME TypeOK, HandlerInv, WaitGroupInv, ShutdownInv, [Next]_vars
  PROVE  ShutdownInv'
<1> USE ServerAssumption DEF TypeOK, HandlerInv, WaitGroupInv, Counted, ShutdownInv, HandlersDrained,
           Dispatched, Idle, Working, Ended, Alive
<1>1. ASSUME NEW a \in Apps, Push(a) PROVE ShutdownInv'
  BY <1>1 DEF Push, handlerVars, lockVars, deployVars, mainVars, revVars
<1>2. ASSUME NEW r \in Requests, NEW a \in Apps \cup {Refused}, Arrive(r, a) PROVE ShutdownInv'
  BY <1>2 DEF Arrive, lockVars, deployVars, mainVars, revVars
<1>3. ASSUME Signal PROVE ShutdownInv'
  BY <1>3 DEF Signal, handlerVars, lockVars, deployVars, revVars
<1>4. ASSUME NEW r \in Requests, HandlerRefuse(r) PROVE ShutdownInv'
  BY <1>4 DEF HandlerRefuse, handlerVars, lockVars, deployVars, mainVars, revVars
<1>5. ASSUME NEW r \in Requests, GetAppLock(r) PROVE ShutdownInv'
  BY <1>5
    DEF GetAppLock, LoadOrStore, handlerVars, lockVars, deployVars, mainVars,
       revVars
<1>6. ASSUME NEW r \in Requests, DispatchDeploy(r) PROVE ShutdownInv'
  BY <1>6 DEF DispatchDeploy, handlerVars, lockVars, deployVars, mainVars, revVars
<1>7. ASSUME NEW r \in Requests, HandlerAnswer(r) PROVE ShutdownInv'
  BY <1>7 DEF HandlerAnswer, handlerVars, lockVars, deployVars, mainVars, revVars
<1>8. ASSUME NEW r \in Requests, LockApp(r) PROVE ShutdownInv'
  BY <1>8 DEF LockApp, AtStage, handlerVars, lockVars, deployVars, mainVars, revVars
<1>9. ASSUME NEW r \in Requests, Pull(r) PROVE ShutdownInv'
  BY <1>9 DEF Pull, AtStage, handlerVars, lockVars, deployVars, mainVars, revVars
<1>10. ASSUME NEW r \in Requests, BuildStart(r) PROVE ShutdownInv'
  BY <1>10
    DEF BuildStart, AtStage, handlerVars, lockVars, deployVars, mainVars, revVars
<1>11. ASSUME NEW r \in Requests, BuildEnd(r) PROVE ShutdownInv'
  BY <1>11
    DEF BuildEnd, AtStage, handlerVars, lockVars, deployVars, mainVars, revVars
<1>12. ASSUME NEW r \in Requests, Restart(r) PROVE ShutdownInv'
  BY <1>12
    DEF Restart, AtStage, handlerVars, lockVars, deployVars, mainVars, revVars
<1>13. ASSUME NEW r \in Requests, Succeed(r) PROVE ShutdownInv'
  BY <1>13
    DEF Succeed, AtStage, EndDeploy, handlerVars, lockVars, deployVars, mainVars,
       revVars
<1>14. ASSUME NEW r \in Requests, Fail(r) PROVE ShutdownInv'
  BY <1>14 DEF Fail, EndDeploy, handlerVars, lockVars, deployVars, mainVars, revVars
<1>15. ASSUME ListenFails PROVE ShutdownInv'
  BY <1>15 DEF ListenFails, ServerStep, handlerVars, lockVars, deployVars, revVars
<1>16. ASSUME PublishServer PROVE ShutdownInv'
  BY <1>16 DEF PublishServer, ServerStep, handlerVars, lockVars, deployVars, revVars
<1>17. ASSUME Serve PROVE ShutdownInv'
  BY <1>17 DEF Serve, ServerStep, handlerVars, lockVars, deployVars, revVars
<1>18. ASSUME ServerClosed PROVE ShutdownInv'
  BY <1>18 DEF ServerClosed, ServerStep, handlerVars, lockVars, deployVars, revVars
<1>19. ASSUME ServeFails PROVE ShutdownInv'
  BY <1>19 DEF ServeFails, ServerStep, handlerVars, lockVars, deployVars, revVars
<1>20. ASSUME ReceiveServerErr PROVE ShutdownInv'
  BY <1>20
    DEF ReceiveServerErr, Exit, ServerStep, handlerVars, lockVars, deployVars,
       revVars
<1>21. ASSUME ReceiveSignal PROVE ShutdownInv'
  BY <1>21 DEF ReceiveSignal, ServerStep, handlerVars, lockVars, deployVars, revVars
<1>22. ASSUME ShutdownUnpublished PROVE ShutdownInv'
  BY <1>22
    DEF ShutdownUnpublished, ServerStep, handlerVars, lockVars, deployVars, revVars
<1>23. ASSUME ShutdownPublished PROVE ShutdownInv'
  BY <1>23
    DEF ShutdownPublished, ServerStep, handlerVars, lockVars, deployVars, revVars
<1>24. ASSUME Drained PROVE ShutdownInv'
  BY <1>24 DEF Drained, ServerStep, handlerVars, lockVars, deployVars, revVars
<1>25. ASSUME WaitReturns PROVE ShutdownInv'
  BY <1>25 DEF WaitReturns, ServerStep, handlerVars, lockVars, deployVars, revVars
<1>26. ASSUME ShutdownTimeout PROVE ShutdownInv'
  BY <1>26
    DEF ShutdownTimeout, Exit, ServerStep, handlerVars, lockVars, deployVars,
       revVars
<1>27. CASE UNCHANGED vars
  BY <1>27 DEF vars, handlerVars, lockVars, deployVars, mainVars, revVars
<1> QED
  BY <1>1, <1>2, <1>3, <1>4, <1>5, <1>6, <1>7, <1>8, <1>9, <1>10, <1>11, <1>12,
       <1>13, <1>14, <1>15, <1>16, <1>17, <1>18, <1>19, <1>20, <1>21, <1>22, <1>23,
       <1>24, <1>25, <1>26, <1>27
  DEF Next, HandlerNext, DeployNext, StartNext, MainNext

(* The mutex keeps a second build away between the read and the tag.       *)
LEMMA RevisionStep ==
  ASSUME TypeOK, HandlerInv, LockInv, RevisionInv, [Next]_vars
  PROVE  RevisionInv'
<1> USE ServerAssumption DEF TypeOK, HandlerInv, LockInv, RevisionInv, Dispatched, Idle, Working, Ended, Alive
<1>1. ASSUME NEW a \in Apps, Push(a) PROVE RevisionInv'
  BY <1>1 DEF Push, handlerVars, lockVars, deployVars, mainVars, revVars
<1>2. ASSUME NEW r \in Requests, NEW a \in Apps \cup {Refused}, Arrive(r, a) PROVE RevisionInv'
  BY <1>2 DEF Arrive, lockVars, deployVars, mainVars, revVars
<1>3. ASSUME Signal PROVE RevisionInv'
  BY <1>3 DEF Signal, handlerVars, lockVars, deployVars, revVars
<1>4. ASSUME NEW r \in Requests, HandlerRefuse(r) PROVE RevisionInv'
  BY <1>4 DEF HandlerRefuse, handlerVars, lockVars, deployVars, mainVars, revVars
<1>5. ASSUME NEW r \in Requests, GetAppLock(r) PROVE RevisionInv'
  BY <1>5
    DEF GetAppLock, LoadOrStore, handlerVars, lockVars, deployVars, mainVars,
       revVars
<1>6. ASSUME NEW r \in Requests, DispatchDeploy(r) PROVE RevisionInv'
  BY <1>6 DEF DispatchDeploy, handlerVars, lockVars, deployVars, mainVars, revVars
<1>7. ASSUME NEW r \in Requests, HandlerAnswer(r) PROVE RevisionInv'
  BY <1>7 DEF HandlerAnswer, handlerVars, lockVars, deployVars, mainVars, revVars
<1>8. ASSUME NEW r \in Requests, LockApp(r) PROVE RevisionInv'
  BY <1>8 DEF LockApp, AtStage, handlerVars, lockVars, deployVars, mainVars, revVars
<1>9. ASSUME NEW r \in Requests, Pull(r) PROVE RevisionInv'
  BY <1>9 DEF Pull, AtStage, handlerVars, lockVars, deployVars, mainVars, revVars
<1>10. ASSUME NEW r \in Requests, BuildStart(r) PROVE RevisionInv'
  BY <1>10
    DEF BuildStart, AtStage, handlerVars, lockVars, deployVars, mainVars, revVars
<1>11. ASSUME NEW r \in Requests, BuildEnd(r) PROVE RevisionInv'
  BY <1>11
    DEF BuildEnd, AtStage, handlerVars, lockVars, deployVars, mainVars, revVars
<1>12. ASSUME NEW r \in Requests, Restart(r) PROVE RevisionInv'
  BY <1>12
    DEF Restart, AtStage, handlerVars, lockVars, deployVars, mainVars, revVars
<1>13. ASSUME NEW r \in Requests, Succeed(r) PROVE RevisionInv'
  BY <1>13
    DEF Succeed, AtStage, EndDeploy, handlerVars, lockVars, deployVars, mainVars,
       revVars
<1>14. ASSUME NEW r \in Requests, Fail(r) PROVE RevisionInv'
  BY <1>14 DEF Fail, EndDeploy, handlerVars, lockVars, deployVars, mainVars, revVars
<1>15. ASSUME StartNext \/ MainNext PROVE RevisionInv'
  BY <1>15, DaemonStep DEF ServerStep, handlerVars, lockVars, deployVars, revVars
<1>16. CASE UNCHANGED vars
  BY <1>16 DEF vars, handlerVars, lockVars, deployVars, mainVars, revVars
<1> QED
  BY <1>1, <1>2, <1>3, <1>4, <1>5, <1>6, <1>7, <1>8, <1>9, <1>10, <1>11, <1>12,
       <1>13, <1>14, <1>15, <1>16
  DEF Next, HandlerNext, DeployNext

(* Each stage of a deploy carries the revision its delivery announced.     *)
LEMMA AnnouncedStep ==
  ASSUME TypeOK, HandlerInv, LockInv, RevisionInv, AnnouncedInv, [Next]_vars
  PROVE  AnnouncedInv'
<1> USE ServerAssumption DEF TypeOK, HandlerInv, LockInv, RevisionInv, AnnouncedInv,
           Dispatched, Idle, Working, Ended, Alive
<1>1. ASSUME NEW a \in Apps, Push(a) PROVE AnnouncedInv'
  BY <1>1 DEF Push, handlerVars, lockVars, deployVars, mainVars, revVars
<1>2. ASSUME NEW r \in Requests, NEW a \in Apps \cup {Refused}, Arrive(r, a) PROVE AnnouncedInv'
  BY <1>2 DEF Arrive, lockVars, deployVars, mainVars, revVars
<1>3. ASSUME Signal PROVE AnnouncedInv'
  BY <1>3 DEF Signal, handlerVars, lockVars, deployVars, revVars
<1>4. ASSUME NEW r \in Requests, HandlerRefuse(r) PROVE AnnouncedInv'
  BY <1>4 DEF HandlerRefuse, handlerVars, lockVars, deployVars, mainVars, revVars
<1>5. ASSUME NEW r \in Requests, GetAppLock(r) PROVE AnnouncedInv'
  BY <1>5
    DEF GetAppLock, LoadOrStore, handlerVars, lockVars, deployVars, mainVars,
       revVars
<1>6. ASSUME NEW r \in Requests, DispatchDeploy(r) PROVE AnnouncedInv'
  BY <1>6 DEF DispatchDeploy, handlerVars, lockVars, deployVars, mainVars, revVars
<1>7. ASSUME NEW r \in Requests, HandlerAnswer(r) PROVE AnnouncedInv'
  BY <1>7 DEF HandlerAnswer, handlerVars, lockVars, deployVars, mainVars, revVars
<1>8. ASSUME NEW r \in Requests, LockApp(r) PROVE AnnouncedInv'
  BY <1>8 DEF LockApp, AtStage, handlerVars, lockVars, deployVars, mainVars, revVars
<1>9. ASSUME NEW r \in Requests, Pull(r) PROVE AnnouncedInv'
  BY <1>9 DEF Pull, AtStage, handlerVars, lockVars, deployVars, mainVars, revVars
<1>10. ASSUME NEW r \in Requests, BuildStart(r) PROVE AnnouncedInv'
  BY <1>10
    DEF BuildStart, AtStage, handlerVars, lockVars, deployVars, mainVars, revVars
<1>11. ASSUME NEW r \in Requests, BuildEnd(r) PROVE AnnouncedInv'
  BY <1>11
    DEF BuildEnd, AtStage, handlerVars, lockVars, deployVars, mainVars, revVars
<1>12. ASSUME NEW r \in Requests, Restart(r) PROVE AnnouncedInv'
  BY <1>12
    DEF Restart, AtStage, handlerVars, lockVars, deployVars, mainVars, revVars
<1>13. ASSUME NEW r \in Requests, Succeed(r) PROVE AnnouncedInv'
  BY <1>13
    DEF Succeed, AtStage, EndDeploy, handlerVars, lockVars, deployVars, mainVars,
       revVars
<1>14. ASSUME NEW r \in Requests, Fail(r) PROVE AnnouncedInv'
  BY <1>14 DEF Fail, EndDeploy, handlerVars, lockVars, deployVars, mainVars, revVars
<1>15. ASSUME StartNext \/ MainNext PROVE AnnouncedInv'
  BY <1>15, DaemonStep DEF ServerStep, handlerVars, lockVars, deployVars, revVars
<1>16. CASE UNCHANGED vars
  BY <1>16 DEF vars, handlerVars, lockVars, deployVars, mainVars, revVars
<1> QED
  BY <1>1, <1>2, <1>3, <1>4, <1>5, <1>6, <1>7, <1>8, <1>9, <1>10, <1>11, <1>12,
       <1>13, <1>14, <1>15, <1>16
  DEF Next, HandlerNext, DeployNext

(* The one step that changes what runs takes it from the image.            *)
LEMMA RunningStep ==
  ASSUME TypeOK, HandlerInv, RevisionInv, [Next]_vars
  PROVE  (\A b \in Apps : running'[b] >= running[b])
<1> USE ServerAssumption DEF TypeOK, HandlerInv, RevisionInv, Dispatched, Idle, Working, Ended, Alive
<1>1. ASSUME NEW a \in Apps, Push(a) PROVE (\A b \in Apps : running'[b] >= running[b])
  BY <1>1 DEF Push, handlerVars, lockVars, deployVars, mainVars, revVars
<1>2. ASSUME NEW r \in Requests, NEW a \in Apps \cup {Refused}, Arrive(r, a) PROVE (\A b \in Apps : running'[b] >= running[b])
  BY <1>2 DEF Arrive, lockVars, deployVars, mainVars, revVars
<1>3. ASSUME Signal PROVE (\A b \in Apps : running'[b] >= running[b])
  BY <1>3 DEF Signal, handlerVars, lockVars, deployVars, revVars
<1>4. ASSUME NEW r \in Requests, HandlerRefuse(r) PROVE (\A b \in Apps : running'[b] >= running[b])
  BY <1>4 DEF HandlerRefuse, handlerVars, lockVars, deployVars, mainVars, revVars
<1>5. ASSUME NEW r \in Requests, GetAppLock(r) PROVE (\A b \in Apps : running'[b] >= running[b])
  BY <1>5
    DEF GetAppLock, LoadOrStore, handlerVars, lockVars, deployVars, mainVars,
       revVars
<1>6. ASSUME NEW r \in Requests, DispatchDeploy(r) PROVE (\A b \in Apps : running'[b] >= running[b])
  BY <1>6 DEF DispatchDeploy, handlerVars, lockVars, deployVars, mainVars, revVars
<1>7. ASSUME NEW r \in Requests, HandlerAnswer(r) PROVE (\A b \in Apps : running'[b] >= running[b])
  BY <1>7 DEF HandlerAnswer, handlerVars, lockVars, deployVars, mainVars, revVars
<1>8. ASSUME NEW r \in Requests, LockApp(r) PROVE (\A b \in Apps : running'[b] >= running[b])
  BY <1>8 DEF LockApp, AtStage, handlerVars, lockVars, deployVars, mainVars, revVars
<1>9. ASSUME NEW r \in Requests, Pull(r) PROVE (\A b \in Apps : running'[b] >= running[b])
  BY <1>9 DEF Pull, AtStage, handlerVars, lockVars, deployVars, mainVars, revVars
<1>10. ASSUME NEW r \in Requests, BuildStart(r) PROVE (\A b \in Apps : running'[b] >= running[b])
  BY <1>10
    DEF BuildStart, AtStage, handlerVars, lockVars, deployVars, mainVars, revVars
<1>11. ASSUME NEW r \in Requests, BuildEnd(r) PROVE (\A b \in Apps : running'[b] >= running[b])
  BY <1>11
    DEF BuildEnd, AtStage, handlerVars, lockVars, deployVars, mainVars, revVars
<1>12. ASSUME NEW r \in Requests, Restart(r) PROVE (\A b \in Apps : running'[b] >= running[b])
  BY <1>12
    DEF Restart, AtStage, handlerVars, lockVars, deployVars, mainVars, revVars
<1>13. ASSUME NEW r \in Requests, Succeed(r) PROVE (\A b \in Apps : running'[b] >= running[b])
  BY <1>13
    DEF Succeed, AtStage, EndDeploy, handlerVars, lockVars, deployVars, mainVars,
       revVars
<1>14. ASSUME NEW r \in Requests, Fail(r) PROVE (\A b \in Apps : running'[b] >= running[b])
  BY <1>14 DEF Fail, EndDeploy, handlerVars, lockVars, deployVars, mainVars, revVars
<1>15. ASSUME StartNext \/ MainNext PROVE (\A b \in Apps : running'[b] >= running[b])
  BY <1>15, DaemonStep DEF ServerStep, handlerVars, lockVars, deployVars, revVars
<1>16. CASE UNCHANGED vars
  BY <1>16 DEF vars, handlerVars, lockVars, deployVars, mainVars, revVars
<1> QED
  BY <1>1, <1>2, <1>3, <1>4, <1>5, <1>6, <1>7, <1>8, <1>9, <1>10, <1>11, <1>12,
       <1>13, <1>14, <1>15, <1>16
  DEF Next, HandlerNext, DeployNext

(* The one step that adds to wg belongs to a handler in flight.            *)
LEMMA SpawnStep ==
  ASSUME TypeOK, HandlerInv, WaitGroupInv, ShutdownInv, inShutdown, main \in {"waiting", "awaiting"}, [Next]_vars
  PROVE  (wg' \subseteq wg)
<1> USE ServerAssumption DEF TypeOK, HandlerInv, ShutdownInv, HandlersDrained, Idle, Working, Ended, Alive
<1>1. ASSUME NEW a \in Apps, Push(a) PROVE (wg' \subseteq wg)
  BY <1>1 DEF Push, handlerVars, lockVars, deployVars, mainVars, revVars
<1>2. ASSUME NEW r \in Requests, NEW a \in Apps \cup {Refused}, Arrive(r, a) PROVE (wg' \subseteq wg)
  BY <1>2 DEF Arrive, lockVars, deployVars, mainVars, revVars
<1>3. ASSUME Signal PROVE (wg' \subseteq wg)
  BY <1>3 DEF Signal, handlerVars, lockVars, deployVars, revVars
<1>4. ASSUME NEW r \in Requests, HandlerRefuse(r) PROVE (wg' \subseteq wg)
  BY <1>4 DEF HandlerRefuse, handlerVars, lockVars, deployVars, mainVars, revVars
<1>5. ASSUME NEW r \in Requests, GetAppLock(r) PROVE (wg' \subseteq wg)
  BY <1>5
    DEF GetAppLock, LoadOrStore, handlerVars, lockVars, deployVars, mainVars,
       revVars
<1>6. ASSUME NEW r \in Requests, DispatchDeploy(r) PROVE (wg' \subseteq wg)
  BY <1>6 DEF DispatchDeploy, handlerVars, lockVars, deployVars, mainVars, revVars
<1>7. ASSUME NEW r \in Requests, HandlerAnswer(r) PROVE (wg' \subseteq wg)
  BY <1>7 DEF HandlerAnswer, handlerVars, lockVars, deployVars, mainVars, revVars
<1>8. ASSUME NEW r \in Requests, LockApp(r) PROVE (wg' \subseteq wg)
  BY <1>8 DEF LockApp, AtStage, handlerVars, lockVars, deployVars, mainVars, revVars
<1>9. ASSUME NEW r \in Requests, Pull(r) PROVE (wg' \subseteq wg)
  BY <1>9 DEF Pull, AtStage, handlerVars, lockVars, deployVars, mainVars, revVars
<1>10. ASSUME NEW r \in Requests, BuildStart(r) PROVE (wg' \subseteq wg)
  BY <1>10
    DEF BuildStart, AtStage, handlerVars, lockVars, deployVars, mainVars, revVars
<1>11. ASSUME NEW r \in Requests, BuildEnd(r) PROVE (wg' \subseteq wg)
  BY <1>11
    DEF BuildEnd, AtStage, handlerVars, lockVars, deployVars, mainVars, revVars
<1>12. ASSUME NEW r \in Requests, Restart(r) PROVE (wg' \subseteq wg)
  BY <1>12
    DEF Restart, AtStage, handlerVars, lockVars, deployVars, mainVars, revVars
<1>13. ASSUME NEW r \in Requests, Succeed(r) PROVE (wg' \subseteq wg)
  BY <1>13
    DEF Succeed, AtStage, EndDeploy, handlerVars, lockVars, deployVars, mainVars,
       revVars
<1>14. ASSUME NEW r \in Requests, Fail(r) PROVE (wg' \subseteq wg)
  BY <1>14 DEF Fail, EndDeploy, handlerVars, lockVars, deployVars, mainVars, revVars
<1>15. ASSUME StartNext \/ MainNext PROVE (wg' \subseteq wg)
  BY <1>15, DaemonStep DEF ServerStep, handlerVars, lockVars, deployVars, revVars
<1>16. CASE UNCHANGED vars
  BY <1>16 DEF vars, handlerVars, lockVars, deployVars, mainVars, revVars
<1> QED
  BY <1>1, <1>2, <1>3, <1>4, <1>5, <1>6, <1>7, <1>8, <1>9, <1>10, <1>11, <1>12,
       <1>13, <1>14, <1>15, <1>16
  DEF Next, HandlerNext, DeployNext


(* The inductive invariant holds of every behaviour of the daemon.         *)
THEOREM Invariance == Spec => []IInv
<1>1. Init => IInv
  <2> SUFFICES ASSUME Init PROVE IInv
    OBVIOUS
  <2> USE ServerAssumption DEF Init, Idle, Working, Ended
  <2>1. TypeOK
    <3>1. 0 \in 0..MaxRev
      OBVIOUS
    <3>2. QED
      BY <3>1 DEF TypeOK
  <2>2. HandlerInv /\ LockInv /\ WaitGroupInv
    BY DEF HandlerInv, LockInv, WaitGroupInv, Dispatched, Counted
  <2>3. ShutdownInv
    BY DEF ShutdownInv
  <2>4. RevisionInv /\ AnnouncedInv
    BY DEF RevisionInv, AnnouncedInv
  <2>5. QED
    BY <2>1, <2>2, <2>3, <2>4 DEF IInv
<1>2. IInv /\ [Next]_vars => IInv'
  BY TypeStep, HandlerStep, LockStep, WaitGroupStep, ShutdownStep, RevisionStep,
     AnnouncedStep DEF IInv
<1>3. QED
  BY <1>1, <1>2, PTL DEF Spec

(* Type correctness of the daemon's state.                                 *)
THEOREM TypeCorrect == Spec => []TypeOK
<1>1. IInv => TypeOK
  BY DEF IInv
<1>2. QED
  BY <1>1, Invariance, PTL

(* dispatchDeploy never runs two deploys of one application together:      *)
(* both would hold the mutex the application was given first.              *)
THEOREM Exclusion == Spec => []MutualExclusion
<1>1. IInv => MutualExclusion
  <2> SUFFICES ASSUME IInv, NEW r \in Requests, NEW s \in Requests,
                      stage[r] \in Working, stage[s] \in Working, target[r] = target[s]
               PROVE  r = s
    BY DEF MutualExclusion
  <2>1. handler[r] \in Dispatched /\ handler[s] \in Dispatched
    BY DEF IInv, HandlerInv, Dispatched, Working
  <2>2. mutex[r] = mutex[s]
    BY <2>1 DEF IInv, HandlerInv
  <2>3. QED
    BY <2>2 DEF IInv, LockInv
<1>2. QED
  BY <1>1, Invariance, PTL

(* A daemon that stops without an error leaves no accepted deploy behind.  *)
THEOREM CleanExitHolds == Spec => []CleanExit
<1>1. IInv => CleanExit
  <2> SUFFICES ASSUME IInv, main = "exited", result = "nil",
                      NEW r \in Requests, handler[r] = "answered"
               PROVE  stage[r] \in Ended
    BY DEF CleanExit
  <2>1. stage[r] \notin Counted
    BY DEF IInv, ShutdownInv, WaitGroupInv
  <2>2. stage[r] # "none"
    BY DEF IInv, HandlerInv
  <2>3. QED
    BY <2>1, <2>2 DEF IInv, TypeOK, Counted
<1>2. QED
  BY <1>1, Invariance, PTL

(* A successful deploy runs at least the revision its delivery announced.  *)
THEOREM AnnouncedRevisionHolds == Spec => []AnnouncedRevisionRuns
<1>1. IInv => AnnouncedRevisionRuns
  <2> SUFFICES ASSUME IInv, NEW r \in Requests, stage[r] = "succeeded"
               PROVE  running[target[r]] >= sentRev[r]
    BY DEF AnnouncedRevisionRuns
  <2>1. target[r] \in Apps
    BY DEF IInv, HandlerInv, Dispatched
  <2>2. sentRev[r] \in Nat /\ running[target[r]] \in Nat
    BY <2>1, ServerAssumption DEF IInv, TypeOK
  <2>3. sentRev[r] <= running[target[r]]
    BY DEF IInv, AnnouncedInv
  <2>4. QED
    BY <2>2, <2>3
<1>2. QED
  BY <1>1, Invariance, PTL

(* The workload never goes back to an older revision.                      *)
THEOREM NeverBackwardsHolds == Spec => NeverBackwards
<1>1. IInv /\ [Next]_vars => [\A a \in Apps : running'[a] >= running[a]]_vars
  BY RunningStep DEF IInv
<1>2. QED
  BY <1>1, Invariance, PTL DEF Spec, NeverBackwards

(* wg.Go is never called while Shutdown waits on the WaitGroup.            *)
THEOREM NoSpawnDuringWaitHolds == Spec => NoSpawnDuringWait
<1>1. IInv /\ [Next]_vars
        => [inShutdown /\ main \in {"waiting", "awaiting"} => wg' \subseteq wg]_vars
  BY SpawnStep DEF IInv
<1>2. QED
  BY <1>1, Invariance, PTL DEF Spec, NoSpawnDuringWait

(* A mutex carries the name of the delivery that made it, which belongs to *)
(* the application it locks; and whoever locked it is at work.             *)
MutexInv ==
  /\ \A a \in Apps : locks[a] # NoLock =>
       target[locks[a]] = a /\ handler[locks[a]] \in Dispatched
  /\ \A m \in held : \E r \in Requests : stage[r] \in Working /\ mutex[r] = m

(* One value is sent on serverErr, when Start returns, and the main        *)
(* goroutine exits with it.                                                *)
AnswerInv ==
  /\ inShutdown => httpServer
  /\ httpServer => serve # "listening"
  /\ Alive /\ serve = "returned" => serverErr # "empty"
-----------------------------------------------------------------------------
(* A mutex is made once, and freed at the end of the deploy that took it.  *)
LEMMA MutexStep ==
  ASSUME IInv, MutexInv, [Next]_vars
  PROVE  MutexInv'
<1> USE ServerAssumption
        DEF IInv, TypeOK, HandlerInv, LockInv, MutexInv, Dispatched, Idle, Working, Ended, Alive
<1>1. ASSUME NEW a \in Apps, Push(a) PROVE MutexInv'
  BY <1>1 DEF Push, handlerVars, lockVars, deployVars, mainVars, revVars
<1>2. ASSUME NEW r \in Requests, NEW a \in Apps \cup {Refused}, Arrive(r, a) PROVE MutexInv'
  BY <1>2 DEF Arrive, handlerVars, lockVars, deployVars, mainVars, revVars
<1>3. ASSUME Signal PROVE MutexInv'
  BY <1>3 DEF Signal, handlerVars, lockVars, deployVars, mainVars, revVars
<1>4. ASSUME NEW r \in Requests, HandlerRefuse(r) PROVE MutexInv'
  BY <1>4 DEF HandlerRefuse, handlerVars, lockVars, deployVars, mainVars, revVars
<1>5. ASSUME NEW r \in Requests, GetAppLock(r) PROVE MutexInv'
  BY <1>5 DEF GetAppLock, LoadOrStore, handlerVars, lockVars, deployVars, mainVars, revVars
<1>6. ASSUME NEW r \in Requests, DispatchDeploy(r) PROVE MutexInv'
  BY <1>6 DEF DispatchDeploy, handlerVars, lockVars, deployVars, mainVars, revVars
<1>7. ASSUME NEW r \in Requests, HandlerAnswer(r) PROVE MutexInv'
  BY <1>7 DEF HandlerAnswer, handlerVars, lockVars, deployVars, mainVars, revVars
<1>8. ASSUME NEW r \in Requests, LockApp(r) PROVE MutexInv'
  BY <1>8 DEF LockApp, AtStage, handlerVars, lockVars, deployVars, mainVars, revVars
<1>9. ASSUME NEW r \in Requests, Pull(r) PROVE MutexInv'
  BY <1>9 DEF Pull, AtStage, handlerVars, lockVars, deployVars, mainVars, revVars
<1>10. ASSUME NEW r \in Requests, BuildStart(r) PROVE MutexInv'
  BY <1>10 DEF BuildStart, AtStage, handlerVars, lockVars, deployVars, mainVars, revVars
<1>11. ASSUME NEW r \in Requests, BuildEnd(r) PROVE MutexInv'
  BY <1>11 DEF BuildEnd, AtStage, handlerVars, lockVars, deployVars, mainVars, revVars
<1>12. ASSUME NEW r \in Requests, Restart(r) PROVE MutexInv'
  BY <1>12 DEF Restart, AtStage, handlerVars, lockVars, deployVars, mainVars, revVars
<1>13. ASSUME NEW r \in Requests, Succeed(r) PROVE MutexInv'
  BY <1>13 DEF Succeed, AtStage, EndDeploy, handlerVars, lockVars, deployVars, mainVars, revVars
<1>14. ASSUME NEW r \in Requests, Fail(r) PROVE MutexInv'
  BY <1>14 DEF Fail, EndDeploy, handlerVars, lockVars, deployVars, mainVars, revVars
<1>15. ASSUME StartNext \/ MainNext PROVE MutexInv'
  BY <1>15, DaemonStep DEF ServerStep, handlerVars, lockVars, deployVars, revVars
<1>16. CASE UNCHANGED vars
  BY <1>16 DEF vars, handlerVars, lockVars, deployVars, mainVars, revVars
<1> QED
  BY <1>1, <1>2, <1>3, <1>4, <1>5, <1>6, <1>7, <1>8, <1>9, <1>10, <1>11, <1>12,
     <1>13, <1>14, <1>15, <1>16
  DEF Next, HandlerNext, DeployNext

(* No delivery waits for a deploy that is over or of another application:  *)
(* with the fairness of a mutex this is why a queue of deliveries drains.  *)
THEOREM NoLostLockHolds == Spec => []NoLostLock
<1>1. Init => MutexInv
  BY DEF Init, MutexInv
<1>2. IInv /\ MutexInv /\ [Next]_vars => MutexInv'
  BY MutexStep
<1>3. IInv /\ MutexInv => NoLostLock
  <2> SUFFICES ASSUME IInv, MutexInv, NEW r \in Requests, stage[r] = "queued", mutex[r] \in held
               PROVE  \E s \in Requests : /\ stage[s] \in Working /\ mutex[s] = mutex[r]
                                          /\ target[s] = target[r]
    BY DEF NoLostLock
  <2>1. PICK s \in Requests : stage[s] \in Working /\ mutex[s] = mutex[r]
    BY DEF MutexInv
  <2>2. \A q \in {r, s} : /\ target[q] \in Apps /\ mutex[q] \in Requests
                          /\ mutex[q] = locks[target[q]]
    BY <2>1 DEF IInv, HandlerInv, Dispatched, Working
  <2>3. target[s] = target[r]
    BY <2>1, <2>2, ServerAssumption DEF MutexInv
  <2>4. QED
    BY <2>1, <2>3
<1>4. QED
  BY <1>1, <1>2, <1>3, Invariance, PTL DEF Spec

(* The main goroutine is told that Start returned.                         *)
LEMMA AnswerStep ==
  ASSUME IInv, AnswerInv, [Next]_vars
  PROVE  AnswerInv'
<1> USE DEF AnswerInv, IInv, TypeOK, ShutdownInv, Alive
<1>1. CASE StartNext
  BY <1>1 DEF StartNext, ListenFails, PublishServer, Serve, ServerClosed, ServeFails
<1>2. CASE MainNext
  BY <1>2
  DEF MainNext, ReceiveServerErr, ReceiveSignal, ShutdownUnpublished, ShutdownPublished,
      Drained, WaitReturns, ShutdownTimeout, Exit
<1>3. CASE UNCHANGED <<serve, httpServer, inShutdown, serverErr, main>>
  BY <1>3
<1>4. QED
  BY <1>1, <1>2, <1>3
  DEF Next, Push, Arrive, Signal, HandlerNext, HandlerRefuse, GetAppLock, DispatchDeploy,
      HandlerAnswer, DeployNext, LockApp, Pull, BuildStart, BuildEnd, Restart, Succeed, Fail,
      EndDeploy, mainVars, vars

(* A shutdown that reached the HTTP server does not hang at its last line: *)
(* Start still runs, or has sent the value shutdownServer receives.        *)
THEOREM NoLostAnswerHolds == Spec => []NoLostAnswer
<1>1. Init => AnswerInv
  BY DEF Init, AnswerInv
<1>2. IInv /\ AnswerInv /\ [Next]_vars => AnswerInv'
  BY AnswerStep
<1>3. IInv /\ AnswerInv => NoLostAnswer
  BY DEF NoLostAnswer, AnswerInv, IInv, TypeOK, Alive
<1>4. QED
  BY <1>1, <1>2, <1>3, Invariance, PTL DEF Spec

(* The daemon refines DeployQueue: its initial states are initial there ... *)
LEMMA RefineInit == Init => DQ!Init
BY DEF Init, DQ!Init, AbsJob, AbsOwner, AbsHalted, Alive, Working, Ended

(* ... and each of its steps is a step of the queue or changes nothing.    *)
LEMMA RefineStep ==
  ASSUME IInv, [Next]_vars
  PROVE  [DQ!Next]_(DQ!vars)
<1> USE ServerAssumption DEF IInv, TypeOK, Idle, Working, Ended, AbsJob, AbsOwner, AbsHalted, Alive
<1> DEFINE AbsSame == UNCHANGED <<AbsJob, AbsOwner, AbsHalted>>
<1>1. ASSUME NEW a \in Apps, Push(a) PROVE AbsSame
  BY <1>1 DEF Push, handlerVars, deployVars, mainVars
<1>2. ASSUME NEW r \in Requests, NEW a \in Apps \cup {Refused}, Arrive(r, a) PROVE AbsSame
  BY <1>2 DEF Arrive, deployVars, mainVars, HandlerInv
<1>3. ASSUME Signal PROVE AbsSame
  BY <1>3 DEF Signal, handlerVars, deployVars
<1>4. ASSUME NEW r \in Requests, HandlerRefuse(r) PROVE AbsSame
  BY <1>4 DEF HandlerRefuse, deployVars, mainVars
<1>5. ASSUME NEW r \in Requests, GetAppLock(r) PROVE AbsSame
  BY <1>5 DEF GetAppLock, deployVars, mainVars
<1>6. ASSUME NEW r \in Requests, DispatchDeploy(r) PROVE DQ!Accept(r, target[r])
  <2>1. stage[r] = "none" /\ stage' = [stage EXCEPT ![r] = "queued"]
    BY <1>6 DEF DispatchDeploy, HandlerInv
  <2>2. AbsJob' = [AbsJob EXCEPT ![r] = "queued"]
    BY <2>1
  <2>3. AbsOwner' = [AbsOwner EXCEPT ![r] = target[r]]
    BY <1>6, <2>1 DEF DispatchDeploy
  <2>4. QED
    BY <1>6, <2>1, <2>2, <2>3 DEF DispatchDeploy, mainVars, DQ!Accept
<1>7. ASSUME NEW r \in Requests, HandlerAnswer(r) PROVE AbsSame
  BY <1>7 DEF HandlerAnswer, deployVars, mainVars
<1>8. ASSUME NEW r \in Requests, LockApp(r) PROVE DQ!Begin(r)
  <2>1. stage[r] = "queued" /\ stage' = [stage EXCEPT ![r] = "locked"]
    BY <1>8 DEF LockApp, AtStage
  <2>2. AbsJob' = [AbsJob EXCEPT ![r] = "running"]
    BY <2>1
  <2>3. ASSUME NEW s \in Requests, AbsOwner[s] = AbsOwner[r] PROVE AbsJob[s] # "running"
    <3>1. SUFFICES ASSUME stage[s] \in Working PROVE FALSE
      OBVIOUS
    <3>2. target[s] = target[r]
      BY <2>1, <2>3, <3>1
    <3>3. mutex[s] = mutex[r]
      BY <2>1, <3>1, <3>2 DEF HandlerInv, Dispatched
    <3>4. QED
      BY <1>8, <3>1, <3>3 DEF LockApp, LockInv
  <2>4. AbsJob[r] = "queued" /\ AbsHalted = "no"
    BY <1>8, <2>1 DEF LockApp, AtStage
  <2>5. AbsOwner' = AbsOwner
    BY <1>8, <2>1 DEF LockApp, handlerVars
  <2>6. AbsHalted' = AbsHalted
    BY <1>8 DEF LockApp, mainVars
  <2> HIDE DEF AbsJob, AbsOwner, AbsHalted
  <2>7. QED
    BY <2>2, <2>3, <2>4, <2>5, <2>6 DEF DQ!Begin
<1>9. ASSUME NEW r \in Requests, Pull(r) \/ BuildStart(r) \/ BuildEnd(r) \/ Restart(r)
      PROVE  AbsSame
  BY <1>9 DEF Pull, BuildStart, BuildEnd, Restart, AtStage, handlerVars, mainVars
<1>10. ASSUME NEW r \in Requests, Succeed(r) \/ Fail(r) PROVE DQ!Finish(r)
  <2>1. stage[r] \in Working
    BY <1>10 DEF Succeed, Fail, AtStage
  <2>2. PICK outcome \in Ended : EndDeploy(r, outcome)
    BY <1>10 DEF Succeed, Fail
  <2>3. AbsJob' = [AbsJob EXCEPT ![r] = "done"]
    BY <2>1, <2>2 DEF EndDeploy
  <2>4. QED
    BY <1>10, <2>1, <2>2, <2>3
    DEF Succeed, Fail, AtStage, EndDeploy, handlerVars, mainVars, DQ!Finish
<1>11. ASSUME StartNext PROVE AbsSame
  BY <1>11
    DEF StartNext, ListenFails, PublishServer, Serve, ServerClosed, ServeFails,
               ServerStep, handlerVars, deployVars
<1>12. ASSUME MainNext, main' # "exited" PROVE AbsSame
  BY <1>12 DEF MainNext, ReceiveServerErr, ReceiveSignal, ShutdownUnpublished,
               ShutdownPublished, Drained, WaitReturns, ShutdownTimeout, Exit,
               ServerStep, handlerVars, deployVars
<1>13. ASSUME MainNext, main' = "exited" PROVE DQ!HaltClean \/ DQ!HaltAbruptly
  <2>1. /\ main # "exited"
        /\ ServerStep
        /\ result' = "nil" => serverErr = "nil" /\ main \in {"select", "awaiting"}
    BY <1>13 DEF MainNext, ReceiveServerErr, ReceiveSignal, ShutdownUnpublished,
                 ShutdownPublished, Drained, WaitReturns, ShutdownTimeout, Exit
  <2>2. UNCHANGED <<AbsJob, AbsOwner>>
    BY <2>1 DEF ServerStep, handlerVars, deployVars
  <2>3. CASE result' = "nil"
    <3>1. wg = {}
      BY <2>1, <2>3 DEF ShutdownInv
    <3>2. \A j \in Requests : AbsJob[j] \in {"none", "done"}
      BY <3>1 DEF WaitGroupInv, Counted
    <3>3. QED
      BY <1>13, <2>1, <2>2, <2>3, <3>2 DEF DQ!HaltClean
  <2>4. CASE result' # "nil"
    BY <1>13, <2>1, <2>2, <2>4 DEF DQ!HaltAbruptly
  <2>5. QED
    BY <2>3, <2>4
<1>14. ASSUME UNCHANGED vars PROVE AbsSame
  BY <1>14 DEF vars, handlerVars, deployVars, mainVars
<1>15. AbsSame => UNCHANGED DQ!vars
  BY DEF DQ!vars
<1>16. ASSUME NEW r \in Requests, DispatchDeploy(r) PROVE target[r] \in Apps
  BY <1>16 DEF DispatchDeploy, HandlerInv, Dispatched
<1> HIDE DEF AbsSame, IInv, TypeOK, AbsJob, AbsOwner, AbsHalted, Alive
<1>17. AbsSame \/ DQ!Next
  BY <1>1, <1>2, <1>3, <1>4, <1>5, <1>6, <1>7, <1>8, <1>9, <1>10, <1>11, <1>12,
       <1>13,
     <1>14, <1>16
  DEF Next, HandlerNext, DeployNext, DQ!Next
<1>18. QED
  BY <1>15, <1>17

(* The webhook daemon implements the abstract queue of deploys.            *)
THEOREM Refinement == Spec => ImplementsDeployQueue
<1>1. IInv /\ [Next]_vars => [DQ!Next]_(DQ!vars)
  BY RefineStep
<1>2. QED
  BY <1>1, RefineInit, Invariance, PTL DEF Spec, DQ!Spec, ImplementsDeployQueue
=============================================================================
