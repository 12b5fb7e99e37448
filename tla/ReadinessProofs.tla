-------------------------- MODULE ReadinessProofs --------------------------
(***************************************************************************)
(* Proofs about Readiness: its types, that only a workload a deploy had    *)
(* started answers for it, and that no container unit is left to look for  *)
(* an image that is not there.                                             *)
(***************************************************************************)
EXTENDS Readiness, Naturals, TLAPS

(* Which command takes which step.                                         *)
Position ==
  \/ pc = "idle" /\ op = "none"
  \/ /\ op = "deploy"
     /\ pc \in {"build", "manifest", "reload", "post", "job", "settle", "probe", "prune", "report"}
  \/ op \in {"start", "restart"} /\ pc \in {"image", "ingress", "post", "job", "wait", "report"}
  \/ op = "stop" /\ pc \in {"post", "job", "gone", "report"}
  \/ op = "destroy" /\ pc \in {"post", "job", "rmi", "delete", "report"}

(* A unit that is down runs nothing but what a stop left of a stack.       *)
DownInv == unit \in {"inactive", "failed"} => runs = NoImage \/ (kind = "compose" /\ stray)

(* A workload a deploy started is what runs, once its own job has begun.   *)
Own == runs # NoImage => (fresh \/ stray) /\ (kind = "container" /\ own => runs = built)

DeployInv ==
  op = "deploy" =>
    /\ good
    /\ kind = "container" /\ pc # "build" => image = built
    /\ pc = "job" => job \in {"restart", "start", "done", "failed"}
    /\ pc \in {"settle", "probe", "prune", "report"} => job = "done"
    /\ pc \in {"job", "settle", "probe", "prune", "report"} => job = "restart" \/ Own
    /\ pc \in {"prune", "report"} => left = {}

(* The unit is down when a destroy that stopped it takes the image away.   *)
DestroyInv ==
  op = "destroy" =>
    /\ pc = "job" => job \in {"stop", "done"}
    /\ pc = "job" /\ job = "done" => unit \in {"inactive", "failed"}
    /\ pc = "rmi" => blind \/ (job = "done" /\ unit \in {"inactive", "failed"})

(* Without an image nothing runs and nothing is about to.                  *)
ImageInv ==
  /\ image # NoImage => image \in store
  /\ kind = "container" /\ image = NoImage /\ ~blind =>
       /\ unit \notin {"activating", "active"} /\ job \notin {"start", "restart"}
       /\ pc \notin {"manifest", "reload", "ingress"}
       /\ pc = "post" => op \in {"stop", "destroy"}

IInv == TypeOK /\ Position /\ DownInv /\ DeployInv /\ DestroyInv /\ ImageInv

-----------------------------------------------------------------------------
(* Every step keeps the types.                                             *)
LEMMA TypeStep ==
  ASSUME TypeOK, [Next]_vars
  PROVE  TypeOK'
<1> USE DEF TypeOK, podmanVars, systemdVars, commandVars, historyVars, At,
            Goto
<1>1. CASE JobEnds
  BY <1>1 DEF JobEnds
<1>2. CASE JobBegins
  BY <1>2 DEF JobBegins, Verbs
<1>3. CASE Launch
  BY <1>3 DEF Launch, Posted, Target
<1>4. CASE ComesUp
  BY <1>4 DEF ComesUp
<1>5. CASE Dies
  BY <1>5 DEF Dies, Ends
<1>6. CASE UnitStopped
  BY <1>6 DEF UnitStopped, Ends, Verbs
<1>7. CASE Create
  BY <1>7 DEF Create
<1>8. CASE BeginDeploy
  BY <1>8 DEF BeginDeploy, Begin, HealthProbes
<1>9. CASE BeginStart
  BY <1>9 DEF BeginStart, Begin, Verbs
<1>10. CASE BeginRestart
  BY <1>10 DEF BeginRestart, Begin, Verbs
<1>11. CASE BeginStop
  BY <1>11 DEF BeginStop, Begin, Verbs
<1>12. CASE BeginDestroy
  BY <1>12 DEF BeginDestroy, Begin
<1>13. CASE Build
  BY <1>13 DEF Build
<1>14. CASE ReloadUnits
  BY <1>14 DEF ReloadUnits
<1>15. CASE EnsureContainerImage
  <2>1. blind' \in BOOLEAN
    BY <1>15 DEF EnsureContainerImage
  <2>2. QED
    BY <1>15, <2>1 DEF EnsureContainerImage, End
<1>16. CASE ActivateIngress
  BY <1>16 DEF ActivateIngress
<1>17. CASE Post
  BY <1>17 DEF Post, Verb, Verbs
<1>18. CASE JobReturns
  BY <1>18 DEF JobReturns, End, AfterJob
<1>19. CASE WaitForState
  BY <1>19 DEF WaitForState, End
<1>20. CASE WaitForStop
  BY <1>20 DEF WaitForStop
<1>21. CASE VerifyServiceActive
  BY <1>21 DEF VerifyServiceActive, End
<1>22. CASE ProbeAnswers
  BY <1>22 DEF ProbeAnswers
<1>23. CASE PruneImages
  BY <1>23 DEF PruneImages, Dangling
<1>24. CASE TeardownWorkload
  BY <1>24 DEF TeardownWorkload
<1>25. CASE DeleteAppStorage
  <2>1. known' \in BOOLEAN
    BY <1>25 DEF DeleteAppStorage
  <2>2. QED
    BY <1>25, <2>1 DEF DeleteAppStorage
<1>26. CASE Report
  BY <1>26 DEF Report, End
<1>27. CASE Fails
  BY <1>27 DEF Fails, End
<1>28. CASE DestroyExpires
  BY <1>28 DEF DestroyExpires
<1>29. CASE OtherPrunes
  BY <1>29 DEF OtherPrunes, Dangling
<1>30. CASE Killed
  BY <1>30 DEF Killed, End
<1>31. CASE UNCHANGED vars
  BY <1>31 DEF vars, podmanVars, systemdVars, commandVars, historyVars
<1>33. CASE SyncManifest
  BY <1>33 DEF SyncManifest
<1>34. CASE OtherAnswers
  BY <1>34 DEF OtherAnswers
<1>35. CASE DestroyStopFails
  BY <1>35 DEF DestroyStopFails
<1>32. QED
  BY <1>1, <1>2, <1>3, <1>4, <1>5, <1>6, <1>7, <1>8, <1>9, <1>10, <1>11,
     <1>12, <1>13, <1>14, <1>15, <1>16, <1>17, <1>18, <1>19, <1>20, <1>21,
     <1>22, <1>23, <1>24, <1>25, <1>26, <1>27, <1>28, <1>29, <1>30, <1>31, <1>33, <1>34,
     <1>35
     DEF Next, SystemdNext, BeginNext, StepNext

(* Every step keeps the order of the steps.                                *)
LEMMA PositionStep ==
  ASSUME IInv, [Next]_vars
  PROVE  Position'
<1> USE DEF podmanVars, systemdVars, commandVars, historyVars, IInv, TypeOK,
            Kinds, Verbs, Position, AfterJob, At, Goto, End, Begin
<1>1. CASE JobEnds
  BY <1>1 DEF JobEnds
<1>2. CASE JobBegins
  BY <1>2 DEF JobBegins
<1>3. CASE Launch
  BY <1>3 DEF Launch
<1>4. CASE ComesUp
  BY <1>4 DEF ComesUp
<1>5. CASE Dies
  BY <1>5 DEF Dies, Ends
<1>6. CASE UnitStopped
  BY <1>6 DEF UnitStopped, Ends
<1>7. CASE Create
  BY <1>7 DEF Create
<1>8. CASE BeginDeploy
  BY <1>8 DEF BeginDeploy
<1>9. CASE BeginStart
  BY <1>9 DEF BeginStart
<1>10. CASE BeginRestart
  BY <1>10 DEF BeginRestart
<1>11. CASE BeginStop
  BY <1>11 DEF BeginStop
<1>12. CASE BeginDestroy
  BY <1>12 DEF BeginDestroy
<1>13. CASE Build
  BY <1>13 DEF Build
<1>14. CASE ReloadUnits
  BY <1>14 DEF ReloadUnits
<1>15. CASE EnsureContainerImage
  BY <1>15 DEF EnsureContainerImage
<1>16. CASE ActivateIngress
  BY <1>16 DEF ActivateIngress
<1>17. CASE Post
  BY <1>17 DEF Post
<1>18. CASE JobReturns
  BY <1>18 DEF JobReturns
<1>19. CASE WaitForState
  BY <1>19 DEF WaitForState
<1>20. CASE WaitForStop
  BY <1>20 DEF WaitForStop
<1>21. CASE VerifyServiceActive
  BY <1>21 DEF VerifyServiceActive
<1>22. CASE ProbeAnswers
  BY <1>22 DEF ProbeAnswers
<1>23. CASE PruneImages
  BY <1>23 DEF PruneImages
<1>24. CASE TeardownWorkload
  BY <1>24 DEF TeardownWorkload
<1>25. CASE DeleteAppStorage
  BY <1>25 DEF DeleteAppStorage
<1>26. CASE Report
  BY <1>26 DEF Report
<1>27. CASE Fails
  BY <1>27 DEF Fails
<1>28. CASE DestroyExpires
  BY <1>28 DEF DestroyExpires
<1>29. CASE OtherPrunes
  BY <1>29 DEF OtherPrunes
<1>30. CASE Killed
  BY <1>30 DEF Killed
<1>31. CASE UNCHANGED vars
  BY <1>31 DEF vars, podmanVars, systemdVars, commandVars, historyVars
<1>33. CASE SyncManifest
  BY <1>33 DEF SyncManifest
<1>34. CASE OtherAnswers
  BY <1>34 DEF OtherAnswers
<1>35. CASE DestroyStopFails
  BY <1>35 DEF DestroyStopFails
<1>32. QED
  BY <1>1, <1>2, <1>3, <1>4, <1>5, <1>6, <1>7, <1>8, <1>9, <1>10, <1>11,
     <1>12, <1>13, <1>14, <1>15, <1>16, <1>17, <1>18, <1>19, <1>20, <1>21,
     <1>22, <1>23, <1>24, <1>25, <1>26, <1>27, <1>28, <1>29, <1>30, <1>31, <1>33, <1>34,
     <1>35
     DEF Next, SystemdNext, BeginNext, StepNext

(* What stops has ended what ran before it is down.                        *)
LEMMA DownStep ==
  ASSUME IInv, [Next]_vars
  PROVE  DownInv'
<1> USE DEF podmanVars, systemdVars, commandVars, historyVars, IInv,
            DownInv, At, Goto, End, Begin
<1>1. CASE JobEnds
  BY <1>1 DEF JobEnds
<1>2. CASE JobBegins
  BY <1>2 DEF JobBegins
<1>3. CASE Launch
  BY <1>3 DEF Launch
<1>4. CASE ComesUp
  BY <1>4 DEF ComesUp
<1>5. CASE Dies
  BY <1>5 DEF Dies, Ends
<1>6. CASE UnitStopped
  BY <1>6 DEF UnitStopped, Ends
<1>7. CASE Create
  BY <1>7 DEF Create
<1>8. CASE BeginDeploy
  BY <1>8 DEF BeginDeploy
<1>9. CASE BeginStart
  BY <1>9 DEF BeginStart
<1>10. CASE BeginRestart
  BY <1>10 DEF BeginRestart
<1>11. CASE BeginStop
  BY <1>11 DEF BeginStop
<1>12. CASE BeginDestroy
  BY <1>12 DEF BeginDestroy
<1>13. CASE Build
  BY <1>13 DEF Build
<1>14. CASE ReloadUnits
  BY <1>14 DEF ReloadUnits
<1>15. CASE EnsureContainerImage
  BY <1>15 DEF EnsureContainerImage
<1>16. CASE ActivateIngress
  BY <1>16 DEF ActivateIngress
<1>17. CASE Post
  BY <1>17 DEF Post
<1>18. CASE JobReturns
  BY <1>18 DEF JobReturns
<1>19. CASE WaitForState
  BY <1>19 DEF WaitForState
<1>20. CASE WaitForStop
  BY <1>20 DEF WaitForStop
<1>21. CASE VerifyServiceActive
  BY <1>21 DEF VerifyServiceActive
<1>22. CASE ProbeAnswers
  BY <1>22 DEF ProbeAnswers
<1>23. CASE PruneImages
  BY <1>23 DEF PruneImages
<1>24. CASE TeardownWorkload
  BY <1>24 DEF TeardownWorkload
<1>25. CASE DeleteAppStorage
  BY <1>25 DEF DeleteAppStorage
<1>26. CASE Report
  BY <1>26 DEF Report
<1>27. CASE Fails
  BY <1>27 DEF Fails
<1>28. CASE DestroyExpires
  BY <1>28 DEF DestroyExpires
<1>29. CASE OtherPrunes
  BY <1>29 DEF OtherPrunes
<1>30. CASE Killed
  BY <1>30 DEF Killed
<1>31. CASE UNCHANGED vars
  BY <1>31 DEF vars, podmanVars, systemdVars, commandVars, historyVars
<1>33. CASE SyncManifest
  BY <1>33 DEF SyncManifest
<1>34. CASE OtherAnswers
  BY <1>34 DEF OtherAnswers
<1>35. CASE DestroyStopFails
  BY <1>35 DEF DestroyStopFails
<1>32. QED
  BY <1>1, <1>2, <1>3, <1>4, <1>5, <1>6, <1>7, <1>8, <1>9, <1>10, <1>11,
     <1>12, <1>13, <1>14, <1>15, <1>16, <1>17, <1>18, <1>19, <1>20, <1>21,
     <1>22, <1>23, <1>24, <1>25, <1>26, <1>27, <1>28, <1>29, <1>30, <1>31, <1>33, <1>34,
     <1>35
     DEF Next, SystemdNext, BeginNext, StepNext

(* A restart ends what ran, and Launch starts what the deploy has built.   *)
LEMMA DeployStep ==
  ASSUME IInv, [Next]_vars
  PROVE  DeployInv'
<1> USE DEF podmanVars, systemdVars, commandVars, historyVars, IInv, TypeOK,
            Kinds, Verbs, Position, DownInv, DeployInv, Own, AfterJob, Verb,
            Posted, Target, At, Goto, End, Begin
<1>1. CASE JobEnds
  BY <1>1 DEF JobEnds
<1>2. CASE JobBegins
  BY <1>2 DEF JobBegins
<1>3. CASE Launch
  BY <1>3 DEF Launch
<1>4. CASE ComesUp
  BY <1>4 DEF ComesUp
<1>5. CASE Dies
  BY <1>5 DEF Dies, Ends
<1>6. CASE UnitStopped
  BY <1>6 DEF UnitStopped, Ends
<1>7. CASE Create
  BY <1>7 DEF Create
<1>8. CASE BeginDeploy
  BY <1>8 DEF BeginDeploy
<1>9. CASE BeginStart
  BY <1>9 DEF BeginStart
<1>10. CASE BeginRestart
  BY <1>10 DEF BeginRestart
<1>11. CASE BeginStop
  BY <1>11 DEF BeginStop
<1>12. CASE BeginDestroy
  BY <1>12 DEF BeginDestroy
<1>13. CASE Build
  BY <1>13 DEF Build
<1>14. CASE ReloadUnits
  BY <1>14 DEF ReloadUnits
<1>15. CASE EnsureContainerImage
  BY <1>15 DEF EnsureContainerImage
<1>16. CASE ActivateIngress
  BY <1>16 DEF ActivateIngress
<1>17. CASE Post
  BY <1>17 DEF Post
<1>18. CASE JobReturns
  BY <1>18 DEF JobReturns
<1>19. CASE WaitForState
  BY <1>19 DEF WaitForState
<1>20. CASE WaitForStop
  BY <1>20 DEF WaitForStop
<1>21. CASE VerifyServiceActive
  BY <1>21 DEF VerifyServiceActive
<1>22. CASE ProbeAnswers
  BY <1>22 DEF ProbeAnswers
<1>23. CASE PruneImages
  BY <1>23 DEF PruneImages
<1>24. CASE TeardownWorkload
  BY <1>24 DEF TeardownWorkload
<1>25. CASE DeleteAppStorage
  BY <1>25 DEF DeleteAppStorage
<1>26. CASE Report
  BY <1>26 DEF Report
<1>27. CASE Fails
  BY <1>27 DEF Fails
<1>28. CASE DestroyExpires
  BY <1>28 DEF DestroyExpires
<1>29. CASE OtherPrunes
  BY <1>29 DEF OtherPrunes
<1>30. CASE Killed
  BY <1>30 DEF Killed
<1>31. CASE UNCHANGED vars
  BY <1>31 DEF vars, podmanVars, systemdVars, commandVars, historyVars
<1>33. CASE SyncManifest
  BY <1>33 DEF SyncManifest
<1>34. CASE OtherAnswers
  BY <1>34 DEF OtherAnswers
<1>35. CASE DestroyStopFails
  BY <1>35 DEF DestroyStopFails
<1>32. QED
  BY <1>1, <1>2, <1>3, <1>4, <1>5, <1>6, <1>7, <1>8, <1>9, <1>10, <1>11,
     <1>12, <1>13, <1>14, <1>15, <1>16, <1>17, <1>18, <1>19, <1>20, <1>21,
     <1>22, <1>23, <1>24, <1>25, <1>26, <1>27, <1>28, <1>29, <1>30, <1>31, <1>33, <1>34,
     <1>35
     DEF Next, SystemdNext, BeginNext, StepNext

(* A stop that is over leaves a unit that only a new job starts.           *)
LEMMA DestroyStep ==
  ASSUME IInv, [Next]_vars
  PROVE  DestroyInv'
<1> USE DEF podmanVars, systemdVars, commandVars, historyVars, IInv,
            Position, DestroyInv, AfterJob, Verb, At, Goto, End, Begin
<1>1. CASE JobEnds
  BY <1>1 DEF JobEnds
<1>2. CASE JobBegins
  BY <1>2 DEF JobBegins
<1>3. CASE Launch
  BY <1>3 DEF Launch
<1>4. CASE ComesUp
  BY <1>4 DEF ComesUp
<1>5. CASE Dies
  BY <1>5 DEF Dies, Ends
<1>6. CASE UnitStopped
  BY <1>6 DEF UnitStopped, Ends
<1>7. CASE Create
  BY <1>7 DEF Create
<1>8. CASE BeginDeploy
  BY <1>8 DEF BeginDeploy
<1>9. CASE BeginStart
  BY <1>9 DEF BeginStart
<1>10. CASE BeginRestart
  BY <1>10 DEF BeginRestart
<1>11. CASE BeginStop
  BY <1>11 DEF BeginStop
<1>12. CASE BeginDestroy
  BY <1>12 DEF BeginDestroy
<1>13. CASE Build
  BY <1>13 DEF Build
<1>14. CASE ReloadUnits
  BY <1>14 DEF ReloadUnits
<1>15. CASE EnsureContainerImage
  BY <1>15 DEF EnsureContainerImage
<1>16. CASE ActivateIngress
  BY <1>16 DEF ActivateIngress
<1>17. CASE Post
  BY <1>17 DEF Post
<1>18. CASE JobReturns
  BY <1>18 DEF JobReturns
<1>19. CASE WaitForState
  BY <1>19 DEF WaitForState
<1>20. CASE WaitForStop
  BY <1>20 DEF WaitForStop
<1>21. CASE VerifyServiceActive
  BY <1>21 DEF VerifyServiceActive
<1>22. CASE ProbeAnswers
  BY <1>22 DEF ProbeAnswers
<1>23. CASE PruneImages
  BY <1>23 DEF PruneImages
<1>24. CASE TeardownWorkload
  BY <1>24 DEF TeardownWorkload
<1>25. CASE DeleteAppStorage
  BY <1>25 DEF DeleteAppStorage
<1>26. CASE Report
  BY <1>26 DEF Report
<1>27. CASE Fails
  BY <1>27 DEF Fails
<1>28. CASE DestroyExpires
  BY <1>28 DEF DestroyExpires
<1>29. CASE OtherPrunes
  BY <1>29 DEF OtherPrunes
<1>30. CASE Killed
  BY <1>30 DEF Killed
<1>31. CASE UNCHANGED vars
  BY <1>31 DEF vars, podmanVars, systemdVars, commandVars, historyVars
<1>33. CASE SyncManifest
  BY <1>33 DEF SyncManifest
<1>34. CASE OtherAnswers
  BY <1>34 DEF OtherAnswers
<1>35. CASE DestroyStopFails
  BY <1>35 DEF DestroyStopFails
<1>32. QED
  BY <1>1, <1>2, <1>3, <1>4, <1>5, <1>6, <1>7, <1>8, <1>9, <1>10, <1>11,
     <1>12, <1>13, <1>14, <1>15, <1>16, <1>17, <1>18, <1>19, <1>20, <1>21,
     <1>22, <1>23, <1>24, <1>25, <1>26, <1>27, <1>28, <1>29, <1>30, <1>31, <1>33, <1>34,
     <1>35
     DEF Next, SystemdNext, BeginNext, StepNext

(* A build tags an image, a start looks for one, a destroy stops first.    *)
LEMMA ImageStep ==
  ASSUME IInv, [Next]_vars
  PROVE  ImageInv'
<1> USE DEF podmanVars, systemdVars, commandVars, historyVars, IInv, TypeOK,
            Kinds, Verbs, Position, DestroyInv, ImageInv, Verb, AfterJob,
            Dangling, At, Goto, End, Begin
<1>1. CASE JobEnds
  BY <1>1 DEF JobEnds
<1>2. CASE JobBegins
  BY <1>2 DEF JobBegins
<1>3. CASE Launch
  BY <1>3 DEF Launch
<1>4. CASE ComesUp
  BY <1>4 DEF ComesUp
<1>5. CASE Dies
  BY <1>5 DEF Dies, Ends
<1>6. CASE UnitStopped
  BY <1>6 DEF UnitStopped, Ends
<1>7. CASE Create
  BY <1>7 DEF Create
<1>8. CASE BeginDeploy
  BY <1>8 DEF BeginDeploy
<1>9. CASE BeginStart
  BY <1>9 DEF BeginStart
<1>10. CASE BeginRestart
  BY <1>10 DEF BeginRestart
<1>11. CASE BeginStop
  BY <1>11 DEF BeginStop
<1>12. CASE BeginDestroy
  BY <1>12 DEF BeginDestroy
<1>13. CASE Build
  <2>1. CASE kind = "container"
    <3>1. image' \in store' /\ image' \in Images
      BY <1>13, <2>1 DEF Build
    <3>2. QED
      BY <1>13, <2>1, <3>1, ReadinessAssumption DEF Build
  <2>2. CASE kind # "container"
    BY <1>13, <2>2 DEF Build
  <2>3. QED
    BY <2>1, <2>2
<1>14. CASE ReloadUnits
  BY <1>14 DEF ReloadUnits
<1>15. CASE EnsureContainerImage
  BY <1>15 DEF EnsureContainerImage
<1>16. CASE ActivateIngress
  BY <1>16 DEF ActivateIngress
<1>17. CASE Post
  BY <1>17 DEF Post
<1>18. CASE JobReturns
  BY <1>18 DEF JobReturns
<1>19. CASE WaitForState
  BY <1>19 DEF WaitForState
<1>20. CASE WaitForStop
  BY <1>20 DEF WaitForStop
<1>21. CASE VerifyServiceActive
  BY <1>21 DEF VerifyServiceActive
<1>22. CASE ProbeAnswers
  BY <1>22 DEF ProbeAnswers
<1>23. CASE PruneImages
  BY <1>23 DEF PruneImages
<1>24. CASE TeardownWorkload
  BY <1>24 DEF TeardownWorkload
<1>25. CASE DeleteAppStorage
  BY <1>25 DEF DeleteAppStorage
<1>26. CASE Report
  BY <1>26 DEF Report
<1>27. CASE Fails
  BY <1>27 DEF Fails
<1>28. CASE DestroyExpires
  BY <1>28 DEF DestroyExpires
<1>29. CASE OtherPrunes
  BY <1>29 DEF OtherPrunes
<1>30. CASE Killed
  BY <1>30 DEF Killed
<1>31. CASE UNCHANGED vars
  BY <1>31 DEF vars, podmanVars, systemdVars, commandVars, historyVars
<1>33. CASE SyncManifest
  BY <1>33 DEF SyncManifest
<1>34. CASE OtherAnswers
  BY <1>34 DEF OtherAnswers
<1>35. CASE DestroyStopFails
  BY <1>35 DEF DestroyStopFails
<1>32. QED
  BY <1>1, <1>2, <1>3, <1>4, <1>5, <1>6, <1>7, <1>8, <1>9, <1>10, <1>11,
     <1>12, <1>13, <1>14, <1>15, <1>16, <1>17, <1>18, <1>19, <1>20, <1>21,
     <1>22, <1>23, <1>24, <1>25, <1>26, <1>27, <1>28, <1>29, <1>30, <1>31, <1>33, <1>34,
     <1>35
     DEF Next, SystemdNext, BeginNext, StepNext

-----------------------------------------------------------------------------
(* The invariant holds of every behaviour.                                 *)
THEOREM Inductive == Spec => []IInv
<1>1. Init => IInv
  BY DEF Init, IInv, TypeOK, Kinds, Verbs, Position, DownInv, DeployInv, DestroyInv,
         ImageInv
<1>2. IInv /\ [Next]_vars => IInv'
  BY TypeStep, PositionStep, DownStep, DeployStep, DestroyStep, ImageStep DEF IInv
<1>3. QED
  BY <1>1, <1>2, PTL DEF Spec

(* Jobs, states and images keep their types, whatever systemd does beside  *)
(* the commands.                                                           *)
THEOREM TypeCorrect == Spec => []TypeOK
BY Inductive, PTL DEF IInv

(* A deploy that reports success saw every probe answered, and answers of  *)
(* its application only from a workload systemd started for it, from the   *)
(* image it had built when the manifest names it; what a compose down left *)
(* of a stack is excepted.                                                 *)
THEOREM DeployAnswersHolds == Spec => []DeployAnswers
<1>1. IInv => DeployAnswers
  BY DEF IInv, DeployInv, DeployAnswers, At
<1>2. QED
  BY <1>1, Inductive, PTL

(* A container unit is not left to look for an image that is not there,    *)
(* unless podman could not be asked or a destroy could not stop the unit.  *)
THEOREM NoImageLoopHolds == Spec => []NoImageLoop
<1>1. IInv => NoImageLoop
  BY DEF IInv, ImageInv, NoImageLoop
<1>2. QED
  BY <1>1, Inductive, PTL
-----------------------------------------------------------------------------
(* How many steps a command still has before it, at most, but for probes.  *)
Rank(step) ==
  CASE step = "build"                        -> 9
    [] step \in {"manifest", "image"}        -> 8
    [] step \in {"reload", "ingress"}        -> 7
    [] step = "post"                         -> 6
    [] step = "job"                          -> 5
    [] step \in {"wait", "gone", "settle"}   -> 4
    [] step \in {"probe", "rmi"}             -> 3
    [] step \in {"prune", "delete"}          -> 2
    [] step = "report"                       -> 1
    [] OTHER                                 -> 0

(* A step of a command goes on to a later one, ends it or has a probe less *)
(* to wait for; what systemd and podman do meanwhile does not set it back. *)
Advances == \/ Rank(pc') < Rank(pc)
            \/ pc' = pc /\ left' \subseteq left /\ left' # left

LEMMA AdvanceStep ==
  ASSUME TypeOK, Position, [Next]_vars, pc # "idle"
  PROVE  Advances \/ UNCHANGED <<pc, left>>
<1> USE DEF TypeOK, Position, Advances, Rank, podmanVars, systemdVars, commandVars, historyVars,
            At, Goto
<1>1. CASE JobEnds
  BY <1>1 DEF JobEnds
<1>2. CASE JobBegins
  BY <1>2 DEF JobBegins
<1>3. CASE Launch
  BY <1>3 DEF Launch
<1>4. CASE ComesUp
  BY <1>4 DEF ComesUp
<1>5. CASE Dies
  BY <1>5 DEF Dies, Ends
<1>6. CASE UnitStopped
  BY <1>6 DEF UnitStopped, Ends
<1>7. CASE Create
  BY <1>7 DEF Create
<1>8. CASE BeginDeploy
  BY <1>8 DEF BeginDeploy, Begin
<1>9. CASE BeginStart
  BY <1>9 DEF BeginStart, Begin
<1>10. CASE BeginRestart
  BY <1>10 DEF BeginRestart, Begin
<1>11. CASE BeginStop
  BY <1>11 DEF BeginStop, Begin
<1>12. CASE BeginDestroy
  BY <1>12 DEF BeginDestroy, Begin
<1>13. CASE Build
  BY <1>13 DEF Build
<1>14. CASE ReloadUnits
  BY <1>14 DEF ReloadUnits
<1>15. CASE EnsureContainerImage
  BY <1>15 DEF EnsureContainerImage, End
<1>16. CASE ActivateIngress
  BY <1>16 DEF ActivateIngress
<1>17. CASE Post
  BY <1>17 DEF Post
<1>18. CASE JobReturns
  BY <1>18 DEF JobReturns, AfterJob, End
<1>19. CASE WaitForState
  BY <1>19 DEF WaitForState, End
<1>20. CASE WaitForStop
  BY <1>20 DEF WaitForStop
<1>21. CASE VerifyServiceActive
  BY <1>21 DEF VerifyServiceActive, End
<1>22. CASE ProbeAnswers
  BY <1>22 DEF ProbeAnswers
<1>23. CASE PruneImages
  BY <1>23 DEF PruneImages
<1>24. CASE TeardownWorkload
  BY <1>24 DEF TeardownWorkload
<1>25. CASE DeleteAppStorage
  BY <1>25 DEF DeleteAppStorage
<1>26. CASE Report
  BY <1>26 DEF Report, End
<1>27. CASE Fails
  BY <1>27 DEF Fails, End
<1>28. CASE DestroyExpires
  BY <1>28 DEF DestroyExpires
<1>29. CASE OtherPrunes
  BY <1>29 DEF OtherPrunes
<1>30. CASE Killed
  BY <1>30 DEF Killed, End
<1>31. CASE UNCHANGED vars
  BY <1>31 DEF vars
<1>33. CASE SyncManifest
  BY <1>33 DEF SyncManifest
<1>34. CASE OtherAnswers
  BY <1>34 DEF OtherAnswers
<1>35. CASE DestroyStopFails
  BY <1>35 DEF DestroyStopFails
<1>32. QED
  BY <1>1, <1>2, <1>3, <1>4, <1>5, <1>6, <1>7, <1>8, <1>9, <1>10, <1>11, <1>12,
     <1>13, <1>14, <1>15, <1>16, <1>17, <1>18, <1>19, <1>20, <1>21, <1>22, <1>23, <1>24,
     <1>25, <1>26, <1>27, <1>28, <1>29, <1>30, <1>31, <1>33, <1>34,
     <1>35
  DEF Next, SystemdNext, BeginNext, StepNext

(* A step at which a command waits for systemd, the workload or a probe is *)
(* one its deadline ends.                                                  *)
LEMMA WaitsExpire == Spec => [](pc \in {"job", "wait", "gone", "probe"} =>
                                  \/ pc \in Interruptible /\ op # "destroy"
                                  \/ pc = "job" /\ op = "destroy")
<1>1. IInv => (pc \in {"job", "wait", "gone", "probe"} =>
                 \/ pc \in Interruptible /\ op # "destroy"
                 \/ pc = "job" /\ op = "destroy")
  BY DEF IInv, Position, Interruptible
<1>2. QED
  BY <1>1, Inductive, PTL

(* No command goes back to a step it has taken or asks a probe twice that  *)
(* has answered, however often the unit flaps: with the deadline at every  *)
(* wait this bounds its steps, which is why commands end (WaitForState,    *)
(* WaitForStop, health.Verify).                                            *)
THEOREM CommandAdvances ==
  Spec => [][pc # "idle" => Advances \/ UNCHANGED <<pc, left>>]_vars
<1>1. IInv /\ [Next]_vars =>
        [pc # "idle" => Advances \/ UNCHANGED <<pc, left>>]_vars
  BY AdvanceStep DEF IInv
<1>2. QED
  BY <1>1, Inductive, PTL DEF Spec
=============================================================================
