------------------------- MODULE SupervisionProofs -------------------------
(***************************************************************************)
(* What the commands of Supervision keep, for every set of applications,   *)
(* processes and workload types, reboots included.                         *)
(*  - In every behaviour, interleavings, failures and deaths of commands   *)
(*    included: the types.                                                 *)
(*  - While each application has one command at a time: a deploy converges *)
(*    and disturbs nothing on the way, a start runs what is on disk, and a *)
(*    destroy leaves nothing.                                              *)
(*  - While the host has one command at a time and nothing fails between a *)
(*    write and its reload, nor a stop (Quiet): no workload runs without   *)
(*    the definition that tears it down, but for what the provider would   *)
(*    not tear down.                                                       *)
(***************************************************************************)
EXTENDS Supervision, TLAPS

(* The commands, and the steps they are made of.                           *)
Commands == {"create", "deploy", "start", "stop", "restart", "destroy"}
AllSteps == DeploySteps \cup DestroySteps \cup {"idle", "save", "start", "stop"}

(* Which command takes which step, and what it carries.                    *)
CommandOf(p) ==
  /\ pc[p] \in {"build", "guard", "write", "retire", "legacyStop", "legacyRemove", "save"} =>
       want[p] \in Types
  /\ pc[p] \in {"guard", "write", "retire", "legacyStop", "legacyRemove", "reload"} =>
       op[p] \in {"create", "deploy"}
  /\ pc[p] \in {"build", "enable", "verify"} => op[p] = "deploy"
  /\ pc[p] = "save" => op[p] = "create"
  /\ pc[p] = "ingress" => op[p] \in {"deploy", "start", "restart"}
  /\ pc[p] = "restart" => op[p] \in {"deploy", "restart"}
  /\ pc[p] \in {"start", "stop"} => op[p] = pc[p]
  /\ pc[p] \in DestroySteps => op[p] = "destroy"
CommandInv == \A p \in Procs : CommandOf(p)

(* The enable link never outlives the unit file.                           *)
EnabledInv == \A a \in Apps : enabled[a] => unitFile[a] # "absent"

(* What guardUnitFile found out is still true at the write.                *)
GuardedInv == \A p \in Procs : At(p, "write") => unitFile[app[p]] # "foreign"

(* A unit that runs is in memory.                                          *)
LoadedInv == \A a \in Apps : active[a] => loaded[a] # "unread"

(* What no interleaving, failure, death or reboot breaks.                  *)
BaseInv == TypeOK /\ CommandInv /\ EnabledInv /\ GuardedInv /\ LoadedInv
-----------------------------------------------------------------------------
(* A step of p leaves the other processes alone, ...                       *)
Others(p) == \A q \in Procs \ {p} :
  /\ pc'[q] = pc[q] /\ op'[q] = op[q] /\ app'[q] = app[q] /\ want'[q] = want[q]
  /\ prev'[q] = prev[q] /\ before'[q] = before[q]

(* ... and changes one application, but for what a reload does.            *)
Reloaded(b) == IF active[b] \/ Wanted(b) THEN OnDisk(b) ELSE "unread"
OnlyAt(a) == \A b \in Apps \ {a} :
  /\ exists'[b] = exists[b] /\ cfgType'[b] = cfgType[b]
  /\ unitFile'[b] = unitFile[b] /\ legacy'[b] = legacy[b]
  /\ enabled'[b] = enabled[b] /\ active'[b] = active[b]
  /\ stacks'[b] = stacks[b] /\ volumes'[b] = volumes[b] /\ stray'[b] = stray[b]
  /\ loaded'[b] \in {loaded[b], Reloaded(b)}

(* A process begins a command on an application nobody works on, or goes   *)
(* on with its own.                                                        *)
Turn(p) == \/ pc[p] = "idle" /\ Free(app'[p])
           \/ pc[p] # "idle" /\ app'[p] = app[p]

(* The step a process takes.                                               *)
Acts(p) == \/ BeginNext(p) \/ HandoverNext(p) \/ ActivateNext(p) \/ DestroyNext(p)
           \/ StepFails(p) \/ Crash(p) \/ DestroyStepFails(p)

(* A command goes on with another step.                                    *)
LEMMA GotoLocal ==
  ASSUME ProcTypeOK, NEW p \in Procs, NEW s \in AllSteps, Goto(p, s)
  PROVE  /\ ProcTypeOK' /\ Others(p) /\ app'[p] = app[p]
         /\ pc'[p] = s /\ op'[p] = op[p] /\ want'[p] = want[p]
         /\ prev'[p] = prev[p] /\ before'[p] = before[p]
BY DEF ProcTypeOK, Goto, Others, localVars, AllSteps

(* A command is over.                                                      *)
LEMMA EndLocal ==
  ASSUME ProcTypeOK, NEW p \in Procs, End(p)
  PROVE  /\ ProcTypeOK' /\ Others(p) /\ app'[p] = app[p]
         /\ pc'[p] = "idle" /\ CommandOf(p)'
BY DEF ProcTypeOK, End, Others, NothingFound, DeploySteps, DestroySteps, CommandOf

(* A command begins.                                                       *)
LEMMA BeginLocal ==
  ASSUME TypeOK, NEW p \in Procs, NEW a \in Apps, NEW s \in AllSteps,
         NEW type \in Types \cup {"unknown"}, NEW command \in Commands,
         Begin(p, a, command, s, type)
  PROVE  /\ ProcTypeOK' /\ Others(p) /\ app'[p] = a
         /\ pc[p] = "idle" /\ Free(a)
         /\ pc'[p] = s /\ op'[p] = command /\ want'[p] = type
BY DEF TypeOK, HostTypeOK, ProcTypeOK, Begin, Others, AllSteps, Commands

(* A step of a process keeps the types of processes.                       *)
LEMMA ProcLocal ==
  ASSUME BaseInv, NEW p \in Procs, Acts(p)
  PROVE  ProcTypeOK' /\ Others(p) /\ CommandOf(p)' /\ Turn(p)
<1> USE DEF At, Turn
<1>1. /\ ProcTypeOK /\ TypeOK /\ CommandOf(p) /\ app[p] \in Apps
      /\ \A a \in Apps : cfgType[a] \in Types
      /\ At(p, "guard") /\ unitFile[app[p]] \notin {"foreign", "absent"} =>
           unitFile[app[p]] \in Types
  BY DEF BaseInv, TypeOK, HostTypeOK, ProcTypeOK, CommandInv
<1>2. AllSteps = {"idle", "save", "start", "stop"} \cup
        {"build", "guard", "write", "retire", "legacyStop", "legacyRemove", "ingress",
         "reload", "enable", "restart", "verify"} \cup
        {"destroyStop", "disable", "removeUnit", "removeSources", "teardown",
         "removeStorage", "destroyReload"}
  BY DEF AllSteps, DeploySteps, DestroySteps
<1>3. ASSUME NEW s \in AllSteps, Goto(p, s)
      PROVE  /\ ProcTypeOK' /\ Others(p)
             /\ pc'[p] = s /\ op'[p] = op[p] /\ want'[p] = want[p]
             /\ app'[p] = app[p]
  BY <1>1, <1>3, GotoLocal
<1>4. ASSUME End(p)
      PROVE  ProcTypeOK' /\ Others(p) /\ CommandOf(p)' /\ app'[p] = app[p]
  BY <1>1, <1>4, EndLocal
<1>5. CASE BeginNext(p)
  <2>1. PICK a \in Apps :
           \/ \E t \in Types : BeginCreate(p, a, t) \/ BeginDeploy(p, a, t)
           \/ BeginStart(p, a) \/ BeginRestart(p, a) \/ BeginStop(p, a) \/ BeginDestroy(p, a)
    BY <1>5 DEF BeginNext
  <2>2. PICK s \in {"guard", "build", "ingress", "stop", "destroyStop"},
             command \in Commands,
             type \in Types \cup {"unknown"} :
          /\ Begin(p, a, command, s, type)
          /\ \/ s = "guard" /\ command = "create" /\ type \in Types
             \/ s = "build" /\ command = "deploy" /\ type \in Types
             \/ s = "ingress" /\ command \in {"start", "restart"}
             \/ s = "stop" /\ command = "stop"
             \/ s = "destroyStop" /\ command = "destroy"
    <3>1. CASE \E t \in Types : BeginCreate(p, a, t) \/ BeginDeploy(p, a, t)
      BY <3>1 DEF BeginCreate, BeginDeploy, Commands
    <3>2. CASE BeginStart(p, a) \/ BeginRestart(p, a) \/ BeginStop(p, a)
      BY <1>1, <3>2 DEF BeginStart, BeginRestart, BeginStop, Commands
    <3>3. CASE BeginDestroy(p, a)
      BY <1>1, <3>3 DEF BeginDestroy, Commands
    <3>4. QED
      BY <2>1, <3>1, <3>2, <3>3
  <2>3. s \in AllSteps
    BY <1>2
  <2>4. /\ ProcTypeOK' /\ Others(p)
        /\ pc'[p] = s /\ op'[p] = command /\ want'[p] = type
        /\ pc[p] = "idle" /\ Free(a) /\ app'[p] = a
    <3>1. Begin(p, a, command, s, type)
      BY <2>2
    <3>2. QED
      BY <1>1, <2>3, <3>1, BeginLocal
  <2>5. QED
    BY <2>2, <2>4 DEF CommandOf, DestroySteps
<1>6. CASE Build(p)
  BY <1>1, <1>2, <1>3, <1>4, <1>6 DEF Build, CommandOf, DestroySteps
<1>7. CASE WriteUnit(p)
  BY <1>1, <1>2, <1>3, <1>4, <1>7 DEF WriteUnit, CommandOf, DestroySteps
<1>8. CASE RetireChangedWorkload(p)
  BY <1>1, <1>2, <1>3, <1>4, <1>8 DEF RetireChangedWorkload, CommandOf, DestroySteps
<1>9. CASE StopLegacyWorkload(p)
  BY <1>1, <1>2, <1>3, <1>4, <1>9 DEF StopLegacyWorkload, AfterUnit, CommandOf, DestroySteps
<1>10. CASE RemoveLegacySources(p)
  BY <1>1, <1>2, <1>3, <1>4, <1>10 DEF RemoveLegacySources, AfterUnit, CommandOf, DestroySteps
<1>11. CASE SaveMetadata(p)
  BY <1>1, <1>2, <1>3, <1>4, <1>11 DEF SaveMetadata, CommandOf, DestroySteps
<1>12. CASE Ingress(p)
  BY <1>1, <1>2, <1>3, <1>4, <1>12 DEF Ingress, CommandOf, DestroySteps
<1>13. CASE DaemonReload(p)
  BY <1>1, <1>2, <1>3, <1>4, <1>13 DEF DaemonReload, CommandOf, DestroySteps
<1>14. CASE Enable(p)
  BY <1>1, <1>2, <1>3, <1>4, <1>14 DEF Enable, CommandOf, DestroySteps
<1>15. CASE RestartUnit(p)
  BY <1>1, <1>2, <1>3, <1>4, <1>15 DEF RestartUnit, CommandOf, DestroySteps
<1>16. CASE Verify(p)
  BY <1>1, <1>2, <1>3, <1>4, <1>16 DEF Verify
<1>17. CASE StartUnit(p)
  BY <1>1, <1>2, <1>3, <1>4, <1>17 DEF StartUnit
<1>18. CASE StopCommand(p)
  BY <1>1, <1>2, <1>3, <1>4, <1>18 DEF StopCommand
<1>19. CASE StartFails(p)
  BY <1>1, <1>2, <1>3, <1>4, <1>19 DEF StartFails
<1>20. CASE DestroyStop(p)
  BY <1>1, <1>2, <1>3, <1>4, <1>20 DEF DestroyStop, CommandOf, DestroySteps
<1>21. CASE Disable(p)
  BY <1>1, <1>2, <1>3, <1>4, <1>21 DEF Disable, CommandOf, DestroySteps
<1>22. CASE RemoveUnit(p)
  BY <1>1, <1>2, <1>3, <1>4, <1>22 DEF RemoveUnit, CommandOf, DestroySteps
<1>23. CASE RemoveSources(p)
  BY <1>1, <1>2, <1>3, <1>4, <1>23 DEF RemoveSources, CommandOf, DestroySteps
<1>24. CASE TeardownWorkload(p)
  BY <1>1, <1>2, <1>3, <1>4, <1>24 DEF TeardownWorkload, CommandOf, DestroySteps
<1>25. CASE RemoveStorage(p)
  BY <1>1, <1>2, <1>3, <1>4, <1>25 DEF RemoveStorage, CommandOf, DestroySteps
<1>26. CASE DestroyReload(p)
  BY <1>1, <1>2, <1>3, <1>4, <1>26 DEF DestroyReload
<1>27. CASE StepFails(p)
  BY <1>1, <1>2, <1>3, <1>4, <1>27 DEF StepFails, MayFail
<1>28. CASE Crash(p)
  BY <1>1, <1>2, <1>3, <1>4, <1>28 DEF Crash
<1>29. CASE DestroyStepFails(p)
  BY <1>1, <1>2, <1>3, <1>4, <1>29 DEF DestroyStepFails, AfterFailed, CommandOf, DestroySteps
<1>32. CASE SaveFails(p)
  BY <1>1, <1>2, <1>3, <1>4, <1>32 DEF SaveFails
<1>30. CASE Guard(p)
  <2>1. ProcTypeOK' /\ Others(p)
    BY <1>1, <1>2, <1>30 DEF Guard, ProcTypeOK, Others, DeploySteps
  <2>2. QED
    BY <1>1, <1>30, <2>1 DEF Guard, ProcTypeOK, CommandOf, DestroySteps
<1>31. QED
  BY <1>5, <1>6, <1>7, <1>8, <1>9, <1>10, <1>11, <1>12, <1>13, <1>14, <1>15, <1>16, <1>17, <1>18,
      <1>19, <1>20, <1>21, <1>22, <1>23, <1>24, <1>25, <1>26, <1>27, <1>28, <1>29, <1>30, <1>32
  DEF Acts, HandoverNext, ActivateNext, DestroyNext

(* A teardown acts on one application and on nothing else of it, ...       *)
LEMMA DownHost ==
  ASSUME HostTypeOK, NEW a \in Apps, NEW d, GoDown(a, d)
  PROVE  /\ stacks' \in [Apps -> SUBSET Definitions] /\ stray' \in [Apps -> SUBSET Definitions]
         /\ \A b \in Apps \ {a} : stacks'[b] = stacks[b] /\ stray'[b] = stray[b]
         /\ stacks'[a] \subseteq stacks[a]
         /\ stacks'[a] \subseteq (stacks[a] \ {d}) \cup stray'[a]
         /\ stray[a] \ {d} \subseteq stray'[a]
<1> USE DEF HostTypeOK
<1>1. Compose \in Definitions /\ Remains(a) \subseteq Definitions
  BY SupervisionAssumption DEF Remains, Definitions
<1>2. PICK missed \in SUBSET ({d} \cap Remains(a)) :
        /\ stacks' = [stacks EXCEPT ![a] = @ \ ({d} \ missed)]
        /\ stray' = [stray EXCEPT ![a] = (@ \ {d}) \cup missed]
  BY DEF GoDown
<1>3. /\ stacks[a] \ ({d} \ missed) \in SUBSET Definitions
      /\ (stray[a] \ {d}) \cup missed \in SUBSET Definitions
  BY <1>1
<1>4. stacks' \in [Apps -> SUBSET Definitions] /\ stray' \in [Apps -> SUBSET Definitions]
  BY <1>2, <1>3
<1>5. /\ stacks'[a] = stacks[a] \ ({d} \ missed)
      /\ stray'[a] = (stray[a] \ {d}) \cup missed
      /\ \A b \in Apps \ {a} : stacks'[b] = stacks[b] /\ stray'[b] = stray[b]
  BY <1>2
<1>6. QED
  BY <1>4, <1>5

(* ... so does a stop, ...                                                 *)
LEMMA StopHost ==
  ASSUME HostTypeOK, NEW a \in Apps, StopUnit(a), UNCHANGED diskVars
  PROVE  HostTypeOK' /\ OnlyAt(a) /\ UNCHANGED <<enabled, volumes>>
<1> USE DEF HostTypeOK, OnlyAt, StopUnit, diskVars, systemdVars, podmanVars
<1>1. CASE active[a]
  <2>1. GoDown(a, loaded[a])
    BY <1>1
  <2>2. /\ stacks' \in [Apps -> SUBSET Definitions] /\ stray' \in [Apps -> SUBSET Definitions]
        /\ \A b \in Apps \ {a} : stacks'[b] = stacks[b] /\ stray'[b] = stray[b]
    BY <2>1, DownHost
  <2>3. QED
    BY <1>1, <2>2
<1>2. CASE ~active[a]
  BY <1>2
<1>3. QED
  BY <1>1, <1>2

(* ... a start that comes up ...                                           *)
LEMMA UpHost ==
  ASSUME SupervisionAssumption, HostTypeOK, NEW a \in Apps, UnitUp(a), UNCHANGED diskVars
  PROVE  HostTypeOK' /\ OnlyAt(a) /\ UNCHANGED enabled
<1> USE DEF HostTypeOK, OnlyAt, UnitUp, diskVars
<1>1. Definition(a) \in Definitions
  BY SupervisionAssumption DEF Definition, OnDisk, Definitions
<1>2. /\ stacks[a] \cup {Definition(a)} \in SUBSET Definitions
      /\ stray[a] \ {Definition(a)} \in SUBSET Definitions
  BY <1>1
<1>3. stacks' \in [Apps -> SUBSET Definitions] /\ stray' \in [Apps -> SUBSET Definitions]
  BY <1>2
<1>4. (volumes[a] \/ Definition(a) = Compose) \in BOOLEAN
  OBVIOUS
<1>5. volumes' \in [Apps -> BOOLEAN]
  BY <1>4
<1>6. QED
  BY <1>1, <1>3, <1>5

(* ... and one that fails.                                                 *)
LEMMA FailsHost ==
  ASSUME HostTypeOK, NEW a \in Apps, UnitFails(a), UNCHANGED diskVars
  PROVE  /\ HostTypeOK' /\ OnlyAt(a) /\ UNCHANGED enabled
         /\ loaded'[a] = Definition(a) /\ ~active'[a]
         /\ stacks'[a] \subseteq (stacks[a] \ {Definition(a)}) \cup stray'[a]
         /\ stray[a] \ {Definition(a)} \subseteq stray'[a]
         /\ volumes'[a] => volumes[a] \/ Definition(a) = Compose
<1> USE DEF HostTypeOK, diskVars
<1>1. Definition(a) \in Definitions \cup {"absent", "unread"}
  BY DEF Definition, OnDisk, Definitions
<1>2. PICK missed \in SUBSET ({Definition(a)} \cap Definitions) :
        /\ stacks' = [stacks EXCEPT ![a] = (@ \ {Definition(a)}) \cup missed]
        /\ stray' = [stray EXCEPT ![a] = (@ \ {Definition(a)}) \cup missed]
  BY DEF UnitFails
<1>3. PICK made \in BOOLEAN :
        volumes' = [volumes EXCEPT ![a] = @ \/ (made /\ Definition(a) = Compose)]
  BY DEF UnitFails
<1>4. /\ (stacks[a] \ {Definition(a)}) \cup missed \in SUBSET Definitions
      /\ (stray[a] \ {Definition(a)}) \cup missed \in SUBSET Definitions
      /\ (volumes[a] \/ (made /\ Definition(a) = Compose)) \in BOOLEAN
  BY <1>2
<1>5. /\ stacks' \in [Apps -> SUBSET Definitions] /\ stray' \in [Apps -> SUBSET Definitions]
      /\ volumes' \in [Apps -> BOOLEAN]
  BY <1>2, <1>3, <1>4
<1>6. /\ loaded' = [loaded EXCEPT ![a] = Definition(a)]
      /\ active' = [active EXCEPT ![a] = FALSE] /\ UNCHANGED enabled
  BY DEF UnitFails
<1>7. HostTypeOK'
  BY <1>1, <1>5, <1>6
<1>8. /\ stacks'[a] = (stacks[a] \ {Definition(a)}) \cup missed
      /\ stray'[a] = (stray[a] \ {Definition(a)}) \cup missed
      /\ volumes'[a] => volumes[a] \/ Definition(a) = Compose
      /\ loaded'[a] = Definition(a) /\ ~active'[a]
  BY <1>2, <1>3, <1>6
<1>9. \A b \in Apps \ {a} : /\ stacks'[b] = stacks[b] /\ stray'[b] = stray[b]
                            /\ volumes'[b] = volumes[b] /\ loaded'[b] = loaded[b]
                            /\ active'[b] = active[b]
  BY <1>2, <1>3, <1>6
<1>10. OnlyAt(a)
  BY <1>6, <1>9 DEF OnlyAt
<1>11. QED
  BY <1>6, <1>7, <1>8, <1>10

(* A reload changes what is loaded, of every application.                  *)
LEMMA ReloadHost ==
  ASSUME HostTypeOK, NEW a \in Apps, NEW links \in [Apps -> BOOLEAN], Reload(links),
         \A b \in Apps \ {a} : links[b] = enabled[b],
         UNCHANGED <<diskVars, active, podmanVars>>, enabled' = links
  PROVE  HostTypeOK' /\ OnlyAt(a)
BY DEF HostTypeOK, OnlyAt, Reload, Reloaded, Wanted, OnDisk, Definitions, diskVars, podmanVars

(* A step of a process keeps the types of the host, changes only the       *)
(* application it works on, and puts no foreign unit anywhere.             *)
HostLocal(p) ==
  /\ HostTypeOK' /\ OnlyAt(app'[p])
  /\ enabled'[app'[p]] => unitFile'[app'[p]] # "absent"
  /\ At(p, "write")' => unitFile'[app'[p]] # "foreign"
  /\ \A a \in Apps : unitFile'[a] = "foreign" => unitFile[a] = "foreign"

LEMMA HostStep ==
  ASSUME BaseInv, NEW p \in Procs, Acts(p)
  PROVE  HostLocal(p)
<1> USE SupervisionAssumption DEF At, HostLocal
<1>1. /\ ProcTypeOK /\ TypeOK /\ HostTypeOK /\ CommandOf(p) /\ app[p] \in Apps
      /\ \A a \in Apps : enabled[a] => unitFile[a] # "absent"
      /\ pc[p] = "write" => unitFile[app[p]] # "foreign"
  BY DEF BaseInv, TypeOK, ProcTypeOK, CommandInv, EnabledInv, GuardedInv
<1>2. ASSUME NEW s, Goto(p, s)
      PROVE  pc'[p] = s /\ app'[p] = app[p]
  BY <1>1, <1>2 DEF ProcTypeOK, Goto, localVars
<1>3. ASSUME End(p)
      PROVE  pc'[p] = "idle" /\ app'[p] = app[p]
  BY <1>1, <1>3 DEF ProcTypeOK, End
<1>4. ASSUME UNCHANGED hostVars
      PROVE  HostTypeOK' /\ \A a \in Apps : OnlyAt(a)
  BY <1>1, <1>4 DEF HostTypeOK, OnlyAt, hostVars, diskVars, systemdVars, podmanVars
<1>5. CASE BeginNext(p)
  <2>1. PICK a \in Apps :
           \/ \E t \in Types : BeginCreate(p, a, t) \/ BeginDeploy(p, a, t)
           \/ BeginStart(p, a) \/ BeginRestart(p, a) \/ BeginStop(p, a) \/ BeginDestroy(p, a)
    BY <1>5 DEF BeginNext
  <2>2. app'[p] = a /\ pc'[p] # "write"
    BY <1>1, <2>1
    DEF ProcTypeOK, Begin, BeginCreate, BeginDeploy, BeginStart, BeginRestart, BeginStop,
        BeginDestroy
  <2>3. CASE \E t \in Types : BeginDeploy(p, a, t)
    BY <1>1, <2>2, <2>3
    DEF BeginDeploy, HostTypeOK, OnlyAt, diskVars, systemdVars, podmanVars
  <2>4. CASE UNCHANGED hostVars
    BY <1>1, <1>4, <2>2, <2>4 DEF hostVars, diskVars, systemdVars
  <2>5. QED
    BY <2>1, <2>3, <2>4 DEF BeginCreate, BeginStart, BeginRestart, BeginStop, BeginDestroy
<1>6. CASE Build(p)
  BY <1>1, <1>2, <1>3, <1>4, <1>6 DEF Build, hostVars, diskVars, systemdVars, podmanVars
<1>7. CASE Ingress(p)
  BY <1>1, <1>2, <1>3, <1>4, <1>7 DEF Ingress, CommandOf, hostVars, diskVars, systemdVars,
      podmanVars
<1>8. CASE Verify(p)
  BY <1>1, <1>2, <1>3, <1>4, <1>8 DEF Verify, hostVars, diskVars, systemdVars, podmanVars
<1>9. CASE StepFails(p)
  BY <1>1, <1>2, <1>3, <1>4, <1>9 DEF StepFails, hostVars, diskVars, systemdVars, podmanVars
<1>10. CASE Crash(p)
  BY <1>1, <1>2, <1>3, <1>4, <1>10 DEF Crash, hostVars, diskVars, systemdVars, podmanVars
<1>11. CASE Guard(p)
  BY <1>1, <1>4, <1>11 DEF Guard, ProcTypeOK, hostVars, diskVars, systemdVars, podmanVars
<1>12. CASE DestroyStepFails(p)
  BY <1>1, <1>2, <1>3, <1>4, <1>12 DEF DestroyStepFails, AfterFailed, hostVars, diskVars,
      systemdVars, podmanVars
<1>13. CASE WriteUnit(p)
  BY <1>1, <1>2, <1>3, <1>4, <1>13 DEF WriteUnit, HostTypeOK, CommandOf, DestroySteps, ProcTypeOK,
      OnlyAt, diskVars, systemdVars, podmanVars
<1>14. CASE RemoveLegacySources(p)
  <2>1. app'[p] = app[p] /\ pc'[p] # "write"
    BY <1>1, <1>2, <1>14 DEF RemoveLegacySources, AfterUnit
  <2>2. HostTypeOK'
    BY <1>1, <1>14 DEF RemoveLegacySources, AfterUnit, HostTypeOK, CommandOf, diskVars,
        systemdVars, podmanVars
  <2>3. OnlyAt(app[p])
    BY <1>1, <1>14 DEF RemoveLegacySources, AfterUnit, HostTypeOK, OnlyAt, diskVars, systemdVars,
        podmanVars
  <2>4. QED
    BY <1>1, <1>14, <2>1, <2>2, <2>3 DEF RemoveLegacySources, AfterUnit, HostTypeOK, diskVars,
        systemdVars, podmanVars
<1>15. CASE SaveMetadata(p)
  <2>1. app'[p] = app[p] /\ pc'[p] # "write"
    BY <1>1, <1>2, <1>15 DEF SaveMetadata
  <2>2. HostTypeOK'
    BY <1>1, <1>15 DEF SaveMetadata, HostTypeOK, CommandOf, diskVars, systemdVars, podmanVars
  <2>3. OnlyAt(app[p])
    BY <1>1, <1>15 DEF SaveMetadata, HostTypeOK, OnlyAt, diskVars, systemdVars, podmanVars
  <2>4. QED
    BY <1>1, <1>15, <2>1, <2>2, <2>3 DEF SaveMetadata, HostTypeOK, diskVars, systemdVars, podmanVars
<1>32. CASE SaveFails(p)
  <2>1. app'[p] = app[p] /\ pc'[p] # "write"
    BY <1>1, <1>3, <1>32 DEF SaveFails
  <2>2. HostTypeOK'
    BY <1>1, <1>32 DEF SaveFails, HostTypeOK, CommandOf, diskVars, systemdVars, podmanVars
  <2>3. OnlyAt(app[p])
    BY <1>1, <1>32 DEF SaveFails, HostTypeOK, OnlyAt, diskVars, systemdVars, podmanVars
  <2>4. QED
    BY <1>1, <1>32, <2>1, <2>2, <2>3 DEF SaveFails, HostTypeOK, diskVars, systemdVars, podmanVars
<1>16. CASE RemoveUnit(p)
  <2>1. app'[p] = app[p] /\ pc'[p] # "write"
    BY <1>1, <1>2, <1>16 DEF RemoveUnit
  <2>2. HostTypeOK'
    BY <1>1, <1>16 DEF RemoveUnit, HostTypeOK, CommandOf, diskVars, systemdVars, podmanVars
  <2>3. OnlyAt(app[p])
    BY <1>1, <1>16 DEF RemoveUnit, HostTypeOK, OnlyAt, diskVars, systemdVars, podmanVars
  <2>4. QED
    BY <1>1, <1>16, <2>1, <2>2, <2>3 DEF RemoveUnit, HostTypeOK, diskVars, systemdVars, podmanVars
<1>17. CASE RemoveSources(p)
  <2>1. app'[p] = app[p] /\ pc'[p] # "write"
    BY <1>1, <1>2, <1>17 DEF RemoveSources
  <2>2. HostTypeOK'
    BY <1>1, <1>17 DEF RemoveSources, HostTypeOK, CommandOf, diskVars, systemdVars, podmanVars
  <2>3. OnlyAt(app[p])
    BY <1>1, <1>17 DEF RemoveSources, HostTypeOK, OnlyAt, diskVars, systemdVars, podmanVars
  <2>4. QED
    BY <1>1, <1>17, <2>1, <2>2, <2>3 DEF RemoveSources, HostTypeOK, diskVars, systemdVars,
        podmanVars
<1>18. CASE TeardownWorkload(p)
  <2>1. app'[p] = app[p] /\ pc'[p] # "write" /\ UNCHANGED <<diskVars, systemdVars>>
    BY <1>1, <1>2, <1>18 DEF TeardownWorkload
  <2>2. /\ stacks' \in [Apps -> SUBSET Definitions] /\ stray' \in [Apps -> SUBSET Definitions]
        /\ volumes' \in [Apps -> BOOLEAN]
        /\ \A b \in Apps \ {app[p]} : /\ stacks'[b] = stacks[b] /\ stray'[b] = stray[b]
                                       /\ volumes'[b] = volumes[b]
    <3>1. CASE want[p] = Compose
      <4>1. /\ GoDown(app[p], Compose)
            /\ volumes' = [volumes EXCEPT ![app[p]] = @ /\ Compose \in stray'[app[p]]]
        BY <1>18, <3>1 DEF TeardownWorkload
      <4>2. (volumes[app[p]] /\ Compose \in stray'[app[p]]) \in BOOLEAN
        OBVIOUS
      <4>3. /\ volumes' \in [Apps -> BOOLEAN]
            /\ \A b \in Apps \ {app[p]} : volumes'[b] = volumes[b]
        BY <1>1, <4>1, <4>2 DEF HostTypeOK
      <4>4. QED
        BY <1>1, <4>1, <4>3, DownHost
    <3>2. CASE want[p] # Compose
      BY <1>1, <1>18, <3>2 DEF TeardownWorkload, HostTypeOK, podmanVars
    <3>3. QED
      BY <3>1, <3>2
  <2>3. HostTypeOK'
    BY <1>1, <2>1, <2>2 DEF HostTypeOK, diskVars, systemdVars
  <2>4. OnlyAt(app[p])
    BY <1>1, <2>1, <2>2 DEF OnlyAt, diskVars, systemdVars
  <2>5. QED
    BY <1>1, <2>1, <2>3, <2>4 DEF HostTypeOK, diskVars, systemdVars
<1>19. CASE RemoveStorage(p)
  <2>1. app'[p] = app[p] /\ pc'[p] # "write"
    BY <1>1, <1>2, <1>19 DEF RemoveStorage
  <2>2. HostTypeOK'
    BY <1>1, <1>19 DEF RemoveStorage, HostTypeOK, CommandOf, diskVars, systemdVars, podmanVars
  <2>3. OnlyAt(app[p])
    BY <1>1, <1>19 DEF RemoveStorage, HostTypeOK, OnlyAt, diskVars, systemdVars, podmanVars
  <2>4. QED
    BY <1>1, <1>19, <2>1, <2>2, <2>3 DEF RemoveStorage, HostTypeOK, diskVars, systemdVars,
        podmanVars
<1>20. CASE RetireChangedWorkload(p)
  BY <1>1, <1>2, <1>3, <1>4, <1>20, StopHost DEF RetireChangedWorkload, TryStop, AfterUnit,
      hostVars, diskVars, systemdVars, podmanVars
<1>21. CASE StopLegacyWorkload(p)
  BY <1>1, <1>2, <1>3, <1>4, <1>21, StopHost DEF StopLegacyWorkload, TryStop, AfterUnit, hostVars,
      diskVars, systemdVars, podmanVars
<1>22. CASE DestroyStop(p)
  BY <1>1, <1>2, <1>3, <1>4, <1>22, StopHost DEF DestroyStop, TryStop, AfterUnit, hostVars,
      diskVars, systemdVars, podmanVars
<1>23. CASE StopCommand(p)
  BY <1>1, <1>2, <1>3, <1>4, <1>23, StopHost DEF StopCommand, TryStop, AfterUnit, hostVars,
      diskVars, systemdVars, podmanVars
<1>24. CASE RestartUnit(p)
  BY <1>1, <1>2, <1>3, <1>4, <1>24, UpHost DEF RestartUnit, hostVars, diskVars, systemdVars,
      podmanVars
<1>25. CASE StartUnit(p)
  BY <1>1, <1>2, <1>3, <1>4, <1>25, UpHost DEF StartUnit, hostVars, diskVars, systemdVars,
      podmanVars
<1>26. CASE StartFails(p)
  BY <1>1, <1>2, <1>3, <1>4, <1>26, FailsHost DEF StartFails, hostVars, diskVars, systemdVars,
      podmanVars
<1>27. CASE DaemonReload(p)
  BY <1>1, <1>2, <1>3, <1>4, <1>27, ReloadHost DEF DaemonReload, HostTypeOK, hostVars, diskVars,
      systemdVars, podmanVars
<1>28. CASE Enable(p)
  <2>1. /\ app'[p] = app[p] /\ pc'[p] # "write"
        /\ Reload(enabled') /\ UNCHANGED <<diskVars, active, podmanVars>>
        /\ enabled' = [enabled EXCEPT ![app[p]] = TRUE]
    BY <1>1, <1>2, <1>28 DEF Enable
  <2>2. enabled' \in [Apps -> BOOLEAN] /\ \A b \in Apps \ {app[p]} : enabled'[b] = enabled[b]
    BY <1>1, <2>1 DEF HostTypeOK
  <2>3. HostTypeOK' /\ OnlyAt(app[p])
    BY <1>1, <2>1, <2>2, ReloadHost
  <2>4. QED
    BY <1>1, <1>28, <2>1, <2>3 DEF Enable, HostTypeOK, diskVars
<1>29. CASE Disable(p)
  <2>1. /\ app'[p] = app[p] /\ pc'[p] # "write"
        /\ Reload(enabled') /\ UNCHANGED <<diskVars, active, podmanVars>>
        /\ enabled' = [enabled EXCEPT ![app[p]] = FALSE]
    BY <1>1, <1>2, <1>29 DEF Disable
  <2>2. enabled' \in [Apps -> BOOLEAN] /\ \A b \in Apps \ {app[p]} : enabled'[b] = enabled[b]
    BY <1>1, <2>1 DEF HostTypeOK
  <2>3. HostTypeOK' /\ OnlyAt(app[p])
    BY <1>1, <2>1, <2>2, ReloadHost
  <2>4. QED
    BY <1>1, <1>29, <2>1, <2>3 DEF Disable, HostTypeOK, diskVars
<1>30. CASE DestroyReload(p)
  BY <1>1, <1>2, <1>3, <1>4, <1>30, ReloadHost DEF DestroyReload, HostTypeOK, hostVars, diskVars,
      systemdVars, podmanVars
<1>31. QED
  BY <1>5, <1>6, <1>7, <1>8, <1>9, <1>10, <1>11, <1>12, <1>13, <1>14, <1>15, <1>16, <1>17, <1>18,
      <1>19, <1>20, <1>21, <1>22, <1>23, <1>24, <1>25, <1>26, <1>27, <1>28, <1>29, <1>30, <1>32
  DEF Acts, HandoverNext, ActivateNext, DestroyNext

(* A unit comes up only under a definition systemd has read.               *)
LEMMA LoadedLocal ==
  ASSUME BaseInv, NEW p \in Procs, Acts(p)
  PROVE  active'[app'[p]] => loaded'[app'[p]] # "unread"
<1> USE SupervisionAssumption DEF At
<1>1. /\ HostTypeOK /\ app[p] \in Apps /\ app'[p] \in Apps
      /\ \A a \in Apps : OnDisk(a) # "unread" /\ Definition(a) # "unread"
      /\ \A a \in Apps : active[a] => loaded[a] # "unread"
  BY ProcLocal DEF BaseInv, LoadedInv, OnDisk, Definition, TypeOK, HostTypeOK, ProcTypeOK
<1>2. CASE UNCHANGED <<active, loaded>>
  BY <1>1, <1>2
<1>3. CASE \E links : Reload(links) /\ UNCHANGED active
  BY <1>1, <1>3 DEF Reload
<1>4. CASE pc[p] # "idle" /\ StopUnit(app[p])
  <2>1. app'[p] = app[p]
    BY <1>4, ProcLocal DEF Turn
  <2>2. QED
    BY <1>1, <1>4, <2>1 DEF StopUnit, HostTypeOK, systemdVars
<1>5. CASE pc[p] # "idle" /\ (UnitUp(app[p]) \/ UnitFails(app[p]))
  <2>1. app'[p] = app[p]
    BY <1>5, ProcLocal DEF Turn
  <2>2. QED
    BY <1>1, <1>5, <2>1 DEF UnitUp, UnitFails, HostTypeOK
<1>6. QED
  <2>1. CASE BeginNext(p)
    BY <1>2, <2>1
    DEF BeginNext, BeginCreate, BeginDeploy, BeginStart, BeginRestart, BeginStop, BeginDestroy,
        hostVars, systemdVars
  <2>2. CASE HandoverNext(p)
    BY <1>2, <1>4, <2>2
    DEF HandoverNext, Build, Guard, WriteUnit, RetireChangedWorkload, StopLegacyWorkload,
        RemoveLegacySources, SaveMetadata, SaveFails, TryStop, hostVars, systemdVars
  <2>3. CASE ActivateNext(p)
    BY <1>2, <1>3, <1>4, <1>5, <2>3
    DEF ActivateNext, Ingress, DaemonReload, Enable, RestartUnit, Verify, StartUnit, StopCommand,
        StartFails, hostVars, systemdVars
  <2>4. CASE DestroyNext(p)
    BY <1>2, <1>3, <1>4, <2>4
    DEF DestroyNext, DestroyStop, Disable, RemoveUnit, RemoveSources, TeardownWorkload,
        RemoveStorage, DestroyReload, TryStop, systemdVars
  <2>5. CASE StepFails(p) \/ Crash(p) \/ DestroyStepFails(p)
    BY <1>2, <2>5 DEF StepFails, Crash, DestroyStepFails, hostVars, systemdVars
  <2>6. QED
    BY <2>1, <2>2, <2>3, <2>4, <2>5 DEF Acts

(* A reboot starts what a target wants, and no unit gare does not know.    *)
LEMMA RebootTypes ==
  ASSUME BaseInv, Reboot
  PROVE  HostTypeOK' /\ ProcTypeOK' /\ CommandInv' /\ EnabledInv' /\ GuardedInv' /\ LoadedInv'
<1> USE SupervisionAssumption DEF BaseInv, TypeOK
<1>1. \A a \in Apps : Wanted(a) => OnDisk(a) \in Definitions
  BY DEF Wanted, OnDisk, EnabledInv, HostTypeOK, Definitions
<1>2. HostTypeOK'
  <2>1. UNCHANGED <<diskVars, enabled>>
    BY DEF Reboot
  <2>2. loaded' \in [Apps -> Definitions \cup {"absent", "unread"}]
    BY <1>1 DEF Reboot
  <2>3. active' \in [Apps -> BOOLEAN] /\ volumes' \in [Apps -> BOOLEAN]
    BY DEF Reboot, HostTypeOK
  <2>4. stacks' \in [Apps -> SUBSET Definitions]
    BY <1>1 DEF Reboot
  <2>5. stray' \in [Apps -> SUBSET Definitions]
    BY DEF Reboot, HostTypeOK
  <2>6. QED
    BY <2>1, <2>2, <2>3, <2>4, <2>5 DEF HostTypeOK, diskVars
<1>3. ProcTypeOK'
  BY DEF Reboot, ProcTypeOK, NothingFound
<1>4. CommandInv' /\ GuardedInv'
  BY DEF Reboot, CommandInv, CommandOf, GuardedInv, At, DestroySteps
<1>5. EnabledInv' /\ LoadedInv'
  BY <1>1 DEF Reboot, EnabledInv, LoadedInv, Definitions, diskVars
<1>6. QED
  BY <1>2, <1>3, <1>4, <1>5

(* Every step keeps the invariant, whatever else happens on the host.      *)
LEMMA BaseStep ==
  ASSUME BaseInv, [Next]_vars
  PROVE  BaseInv' /\ UNCHANGED scene
<1> USE SupervisionAssumption
<1>1. UNCHANGED scene
  BY DEF Next, vars
<1>2. ASSUME NEW p \in Procs, Acts(p) PROVE BaseInv'
  <2>1. ProcTypeOK' /\ Others(p) /\ CommandOf(p)' /\ Turn(p) /\ HostLocal(p)
    BY <1>2, ProcLocal, HostStep
  <2>2. TypeOK'
    BY <1>1, <2>1 DEF BaseInv, TypeOK, HostLocal
  <2>3. CommandInv'
    BY <2>1 DEF BaseInv, CommandInv, CommandOf, Others
  <2>4. EnabledInv'
    BY <2>1 DEF BaseInv, EnabledInv, HostLocal, OnlyAt
  <2>5. GuardedInv'
    <3> SUFFICES ASSUME NEW q \in Procs, At(q, "write")' PROVE unitFile'[app'[q]] # "foreign"
      BY DEF GuardedInv
    <3>1. CASE q = p
      BY <2>1, <3>1 DEF HostLocal
    <3>2. CASE q # p
      BY <2>1, <3>2 DEF BaseInv, TypeOK, ProcTypeOK, GuardedInv, Others, HostLocal, At
    <3>3. QED
      BY <3>1, <3>2
  <2>6. LoadedInv'
    <3>1. \A a \in Apps : OnDisk(a) # "unread" /\ (active[a] => loaded[a] # "unread")
      BY DEF BaseInv, LoadedInv, OnDisk, TypeOK, HostTypeOK
    <3>2. active'[app'[p]] => loaded'[app'[p]] # "unread"
      BY <1>2, LoadedLocal
    <3>3. ASSUME NEW b \in Apps \ {app'[p]} PROVE active'[b] => loaded'[b] # "unread"
      BY <2>1, <3>1 DEF HostLocal, OnlyAt, Reloaded
    <3>4. QED
      BY <3>2, <3>3 DEF LoadedInv
  <2>7. QED
    BY <2>2, <2>3, <2>4, <2>5, <2>6 DEF BaseInv
<1>3. ASSUME Reboot PROVE BaseInv'
  BY <1>1, <1>3, RebootTypes DEF BaseInv, TypeOK
<1>4. CASE UNCHANGED vars
  BY <1>4
  DEF BaseInv, TypeOK, HostTypeOK, ProcTypeOK, CommandInv, CommandOf, EnabledInv, GuardedInv, LoadedInv,
      At, vars, hostVars, diskVars, systemdVars, podmanVars, procVars, localVars
<1>5. QED
  BY <1>1, <1>2, <1>3, <1>4 DEF Next, Acts

(* What an older gare or the operator left is of the right type.           *)
LEMMA InitBase ==
  ASSUME Init
  PROVE  BaseInv
<1> USE SupervisionAssumption DEF Definitions
<1>1. /\ scene \in Scenes
      /\ pc = [p \in Procs |-> "idle"] /\ op = [p \in Procs |-> "none"]
      /\ app \in [Procs -> Apps]
      /\ want = [p \in Procs |-> "unknown"] /\ prev = [p \in Procs |-> "none"]
      /\ before = [p \in Procs |-> NothingFound]
      /\ volumes = [a \in Apps |-> FALSE] /\ stray = [a \in Apps |-> {}]
      /\ cfgType \in [Apps -> Types]
  BY DEF Init
<1>2. PICK old \in SUBSET scene.apps, own \in SUBSET scene.apps :
        /\ old \cap own = {}
        /\ \E known \in SUBSET own : exists = [a \in Apps |-> a \in old \cup known]
        /\ legacy = [a \in Apps |-> a \in old]
        /\ unitFile = [a \in Apps |-> IF a \in own THEN "foreign" ELSE "absent"]
        /\ enabled = [a \in Apps |-> FALSE]
        /\ active = [a \in Apps |-> a \in old]
        /\ loaded = [a \in Apps |-> IF a \in old THEN "quadlet" ELSE "unread"]
        /\ stacks = [a \in Apps |-> IF a \in old THEN {"quadlet"} ELSE {}]
  BY DEF Init
<1>3. HostTypeOK
  BY <1>1, <1>2 DEF HostTypeOK
<1>4. ProcTypeOK
  BY <1>1 DEF ProcTypeOK, NothingFound, DeploySteps, DestroySteps
<1>5. CommandInv /\ GuardedInv
  BY <1>1 DEF CommandInv, CommandOf, GuardedInv, At, DestroySteps
<1>6. EnabledInv /\ LoadedInv
  BY <1>2 DEF EnabledInv, LoadedInv
<1>7. QED
  BY <1>1, <1>3, <1>4, <1>5, <1>6 DEF BaseInv, TypeOK

(* It holds in every behaviour.                                           *)
LEMMA Base == Spec => []BaseInv
BY InitBase, BaseStep, PTL DEF Spec

(* The state of the host and of the processes keeps its types, in every    *)
(* behaviour: also when commands interleave, fail and die at any step.     *)
THEOREM TypeCorrect == Spec => []TypeOK
<1>1. BaseInv => TypeOK
  BY DEF BaseInv
<1>2. QED
  BY <1>1, Base, PTL

-----------------------------------------------------------------------------
(***************************************************************************)
(* What systemd has in memory may be older than the unit file only between *)
(* a command's write and its reload, where nothing fails between the two.  *)
(***************************************************************************)

(* Between the write of a unit file, or its removal, and the daemon-reload *)
(* that follows, the loaded definition of the application may be stale.    *)
Stale(p) == \/ pc[p] \in {"retire", "legacyStop", "legacyRemove", "save", "reload",
                          "removeSources", "teardown", "removeStorage", "destroyReload"}
            \/ pc[p] = "ingress" /\ op[p] = "deploy"

(* Elsewhere systemd holds what is on disk, or nothing.                    *)
FreshOf(p, a) == loaded[a] \in {"unread", OnDisk(a)} \/ (app[p] = a /\ Stale(p))
FreshInv == \A a \in Apps : loaded[a] \in {"unread", OnDisk(a)}
                              \/ \E p \in Procs : app[p] = a /\ Stale(p)

(* Each write or removal of a unit file is followed by a daemon-reload.    *)
LEMMA FreshLocal ==
  ASSUME BaseInv, Reread, NEW p \in Procs, Acts(p), NEW a \in Apps, a = app'[p], FreshOf(p, a)
  PROVE  FreshOf(p, a)'
<1> USE DEF At, FreshOf, Stale
<1>1. /\ HostTypeOK /\ ProcTypeOK /\ CommandOf(p)
      /\ pc[p] # "idle" => a = app[p]
  BY ProcLocal DEF BaseInv, TypeOK, CommandInv, Turn
<1>2. ASSUME NEW s, Goto(p, s)
      PROVE  pc'[p] = s /\ UNCHANGED <<op, app, want, prev, before>>
  BY <1>1, <1>2 DEF ProcTypeOK, Goto, localVars
<1>3. ASSUME NEW links, Reload(links), UNCHANGED <<unitFile, legacy>>
      PROVE  loaded'[a] \in {"unread", OnDisk(a)'}
  BY <1>3 DEF Reload, OnDisk
<1>4. ASSUME UNCHANGED <<unitFile, legacy>>, loaded'[a] \in {"unread", loaded[a], OnDisk(a)},
             Stale(p) => Stale(p)'
      PROVE  FreshOf(p, a)'
  BY <1>1, <1>4 DEF OnDisk
<1>5. ASSUME pc[p] # "idle", TryStop(a) \/ StopUnit(a) \/ UnitUp(a) \/ UnitFails(a)
      PROVE  loaded'[a] \in {"unread", loaded[a], OnDisk(a)}
  <2>1. CASE StopUnit(a)
    BY <1>1, <2>1 DEF StopUnit, HostTypeOK, systemdVars
  <2>2. CASE UnitUp(a)
    BY <1>1, <2>2 DEF UnitUp, Definition, HostTypeOK
  <2>3. CASE UnitFails(a)
    BY <1>1, <2>3 DEF UnitFails, Definition, HostTypeOK
  <2>4. CASE UNCHANGED <<systemdVars, podmanVars>>
    BY <2>4 DEF systemdVars
  <2>5. QED
    BY <1>5, <2>1, <2>2, <2>3, <2>4 DEF TryStop
<1>6. CASE BeginNext(p)
  BY <1>4, <1>6
  DEF BeginNext, BeginCreate, BeginDeploy, BeginStart, BeginRestart, BeginStop, BeginDestroy,
      Begin, hostVars, diskVars, systemdVars
<1>7. CASE Build(p) \/ Guard(p) \/ Ingress(p) \/ Verify(p)
  BY <1>1, <1>2, <1>4, <1>7
  DEF Build, Guard, Ingress, Verify, ProcTypeOK, hostVars, diskVars, systemdVars
<1>8. CASE WriteUnit(p) \/ SaveMetadata(p) \/ RemoveUnit(p) \/ RemoveSources(p)
  <2>1. pc'[p] \in {"retire", "reload", "removeSources", "teardown"} /\ app'[p] = app[p]
    BY <1>2, <1>8 DEF WriteUnit, SaveMetadata, RemoveUnit, RemoveSources
  <2>2. QED
    BY <1>1, <1>8, <2>1 DEF WriteUnit, SaveMetadata, RemoveUnit, RemoveSources
<1>9. CASE RetireChangedWorkload(p) \/ StopLegacyWorkload(p) \/ RemoveLegacySources(p)
  <2>1. pc[p] \in {"retire", "legacyStop", "legacyRemove"} /\ op[p] \in {"create", "deploy"}
    BY <1>1, <1>9
    DEF RetireChangedWorkload, StopLegacyWorkload, RemoveLegacySources, CommandOf
  <2>2. /\ pc'[p] \in {"legacyStop", "legacyRemove", AfterUnit(p)}
        /\ app'[p] = app[p] /\ op'[p] = op[p]
    BY <1>2, <1>9 DEF RetireChangedWorkload, StopLegacyWorkload, RemoveLegacySources
  <2>3. QED
    BY <1>1, <2>1, <2>2 DEF AfterUnit
<1>10. CASE DaemonReload(p) \/ Enable(p) \/ Disable(p) \/ DestroyReload(p)
  BY <1>3, <1>10 DEF DaemonReload, Enable, Disable, DestroyReload, diskVars
<1>11. CASE RestartUnit(p) \/ StartUnit(p) \/ StartFails(p)
  <2>1. /\ app[p] = a /\ pc[p] # "idle" /\ ~Stale(p) /\ UNCHANGED diskVars
        /\ UnitUp(a) \/ UnitFails(a) \/ UNCHANGED <<systemdVars, podmanVars>>
    BY <1>1, <1>11 DEF RestartUnit, StartUnit, StartFails
  <2>2. loaded'[a] \in {"unread", loaded[a], OnDisk(a)}
    BY <1>5, <2>1 DEF systemdVars
  <2>3. QED
    BY <1>4, <2>1, <2>2 DEF diskVars
<1>12. CASE StopCommand(p) \/ DestroyStop(p)
  <2>1. /\ app[p] = a /\ pc[p] # "idle" /\ ~Stale(p) /\ UNCHANGED diskVars
        /\ StopUnit(a) \/ TryStop(a)
    BY <1>1, <1>12 DEF StopCommand, DestroyStop
  <2>2. QED
    BY <1>4, <1>5, <2>1 DEF diskVars
<1>13. CASE TeardownWorkload(p) \/ RemoveStorage(p)
  BY <1>1, <1>2, <1>13 DEF TeardownWorkload, RemoveStorage
<1>14. CASE StepFails(p)
  BY <1>1, <1>4, <1>14
  DEF StepFails, MayFail, Reread, CommandOf, hostVars, diskVars, systemdVars
<1>15. CASE SaveFails(p) \/ Crash(p) \/ DestroyStepFails(p)
  BY <1>15 DEF SaveFails, Crash, DestroyStepFails, Reread
<1>16. QED
  BY <1>6, <1>7, <1>8, <1>9, <1>10, <1>11, <1>12, <1>13, <1>14, <1>15
  DEF Acts, HandoverNext, ActivateNext, DestroyNext

(* A reload for one application makes no other stale.                      *)
LEMMA FreshStep ==
  ASSUME BaseInv, Reread, FreshInv, NEW p \in Procs, Acts(p),
         \A q \in Procs \ {p} : pc[q] # "idle" => app[q] # app'[p]
  PROVE  FreshInv'
<1>1. PICK a \in Apps : a = app'[p]
  BY ProcLocal DEF ProcTypeOK
<1>2. Others(p) /\ OnlyAt(a) /\ Turn(p)
  BY <1>1, ProcLocal, HostStep DEF HostLocal
<1>3. FreshOf(p, a)
  BY <1>1 DEF FreshInv, FreshOf, Stale
<1>4. FreshOf(p, a)'
  BY <1>1, <1>3, FreshLocal
<1>5. ASSUME NEW b \in Apps \ {a}
      PROVE  loaded'[b] \in {"unread", OnDisk(b)'} \/ \E q \in Procs : app'[q] = b /\ Stale(q)'
  <2>1. /\ OnDisk(b)' = OnDisk(b) /\ Reloaded(b) \in {"unread", OnDisk(b)}
        /\ loaded'[b] \in {loaded[b], Reloaded(b)}
    BY <1>2 DEF OnlyAt, OnDisk, Reloaded
  <2>2. CASE loaded[b] \in {"unread", OnDisk(b)}
    BY <2>1, <2>2
  <2>3. CASE \E q \in Procs : app[q] = b /\ Stale(q)
    <3>1. PICK q \in Procs : app[q] = b /\ Stale(q)
      BY <2>3
    <3>2. q # p
      BY <1>1, <1>2, <3>1 DEF Turn, Stale
    <3>3. app'[q] = b /\ Stale(q)'
      BY <1>2, <3>1, <3>2 DEF Others, Stale
    <3>4. QED
      BY <3>3
  <2>4. QED
    BY <2>2, <2>3 DEF FreshInv
<1>6. QED
  BY <1>1, <1>4, <1>5 DEF FreshInv, FreshOf

(* After a reboot everything is read anew, and nobody is at work.          *)
LEMMA FreshReboot == ASSUME Reboot PROVE FreshInv'
BY DEF Reboot, FreshInv, OnDisk, diskVars
-----------------------------------------------------------------------------
(***************************************************************************)
(* One command per application. A command begins only on an application no *)
(* other works on, so what a step of another process changes elsewhere, a  *)
(* reload included, is all a command has to bear.                          *)
(***************************************************************************)

(* No two processes work on one application.                               *)
SoleInv == \A p, q \in Procs : pc[p] # "idle" /\ pc[q] # "idle" /\ app[p] = app[q] => p = q

(* A deploy between what it found and what it wants: before the write the  *)
(* application is as it found it, after it the unit file is its own, and   *)
(* the workload is touched only for another type or a Quadlet workload.    *)
DeployOf(p) ==
  LET a == app[p]  b == before[p] IN
    /\ cfgType[a] = want[p] \/ "save" \in Events
    /\ pc[p] \in {"build", "guard", "write"} => unitFile[a] = b.file
    /\ pc[p] \in {"build", "guard", "write", "retire"} => active[a] = b.active
    /\ pc[p] \in {"build", "guard", "write", "retire", "legacyStop"} => legacy[a] = b.legacy
    /\ pc[p] \in {"write", "retire"} => prev[p] = IF b.file = "absent" THEN "none" ELSE b.file
    /\ pc[p] = "legacyRemove" => b.legacy
    /\ pc[p] \notin {"build", "guard", "write"} => unitFile[a] = want[p]
    /\ pc[p] \in {"ingress", "reload", "enable", "restart", "verify"} => ~legacy[a]
    /\ pc[p] \in {"restart", "verify"} => enabled[a] /\ loaded[a] = want[p]
    /\ pc[p] = "verify" => active[a] /\ want[p] \in stacks[a]
    /\ pc[p] # "verify" /\ b.file = want[p] /\ ~b.legacy => active[a] = b.active
DeployAt(p) == op[p] = "deploy" /\ pc[p] # "idle" => DeployOf(p)
DeployInv == \A p \in Procs : DeployAt(p)

(* An application as it is, whoever works on it, when its type is constant *)
(* and no stop or removal fails: what runs, runs under the unit file.      *)
ConstantHost(a) ==
  /\ ~legacy[a]
  /\ loaded[a] \in {"unread", "absent", unitFile[a]}
  /\ active[a] => loaded[a] = unitFile[a] /\ unitFile[a] # "absent"
  /\ stacks[a] \subseteq stray[a] \cup IF active[a] THEN {loaded[a]} ELSE {}
  /\ exists[a] => unitFile[a] \in {cfgType[a], "absent", "foreign"}
  /\ ~exists[a] => ~active[a] /\ ~enabled[a] /\ loaded[a] = "unread" /\ VolumesGone(a)
  /\ cfgType[a] = Compose \/ VolumesGone(a)

(* What a command has done of its work, step by step.                      *)
ConstantOf(p) ==
  LET a == app[p] IN
    /\ op[p] = "create" /\ pc[p] # "reload" => ~exists[a]
    /\ op[p] \in {"deploy", "start", "restart", "stop"} => exists[a]
    /\ op[p] = "deploy" => want[p] = cfgType[a]
    /\ pc[p] \in {"retire", "legacyStop", "legacyRemove", "save"} => unitFile[a] = want[p]
    /\ pc[p] \in {"destroyStop", "disable", "removeUnit", "removeSources", "teardown"} /\ exists[a]
         => want[p] = cfgType[a]
    /\ pc[p] \in DestroySteps \ {"destroyStop"} => ~active[a]
    /\ pc[p] \in DestroySteps \ {"destroyStop", "disable"} => ~enabled[a] /\ loaded[a] = "unread"
    /\ pc[p] \in DestroySteps \ {"destroyStop", "disable", "removeUnit"} => unitFile[a] = "absent"
    /\ pc[p] \in {"removeStorage", "destroyReload"} => VolumesGone(a)
    /\ pc[p] = "destroyReload" => ~exists[a]
ConstantAt(p) == pc[p] # "idle" => ConstantOf(p)
ConstantInv == Constant => /\ \A a \in Apps : ConstantHost(a)
                           /\ \A p \in Procs : ConstantAt(p)

(* What holds while each application has one command at a time.            *)
ExclusiveInv == SoleInv /\ DeployInv /\ ConstantInv /\ (Reread => FreshInv)

-----------------------------------------------------------------------------
(* While p takes a step, nobody else works on its application.             *)
LEMMA Apart ==
  ASSUME Exclusive, BaseInv, SoleInv, NEW p \in Procs, Acts(p),
         NEW q \in Procs \ {p}, pc[q] # "idle"
  PROVE  app[q] # app'[p]
BY ProcLocal DEF Turn, SoleInv, Free

(* A command begins only on an application nobody works on.               *)
LEMMA SoleStep ==
  ASSUME Exclusive, BaseInv, SoleInv, [Next]_vars
  PROVE  SoleInv'
<1>1. ASSUME NEW p \in Procs, Acts(p) PROVE SoleInv'
  BY <1>1, Apart, ProcLocal DEF SoleInv, Others
<1>2. CASE Reboot
  BY <1>2 DEF Reboot, SoleInv
<1>3. CASE UNCHANGED vars
  BY <1>3 DEF SoleInv, vars, procVars, localVars
<1>4. QED
  BY <1>1, <1>2, <1>3 DEF Next, Acts

(* A deploy is where it was after a step on another application: a reload  *)
(* reads the unit file it wrote.                                           *)
LEMMA DeployElsewhere ==
  ASSUME SupervisionAssumption, BaseInv, NEW q \in Procs, NEW a \in Apps, OnlyAt(a), app[q] # a,
         DeployAt(q), UNCHANGED <<pc[q], op[q], app[q], want[q], prev[q], before[q], scene>>
  PROVE  DeployAt(q)'
<1> SUFFICES ASSUME op[q] = "deploy", pc[q] # "idle" PROVE DeployOf(q)'
  BY DEF DeployAt
<1>1. DeployOf(q)
  BY DEF DeployAt
<1>2. app[q] \in Apps \ {a}
  BY DEF BaseInv, TypeOK, ProcTypeOK
<1>3. want[q] \in Types \cup {"unknown"}
  BY DEF BaseInv, TypeOK, ProcTypeOK
<1>4. pc[q] \in {"restart", "verify"} => Reloaded(app[q]) = want[q]
  BY <1>1, <1>2, <1>3 DEF DeployOf, Reloaded, Wanted, OnDisk, BaseInv, EnabledInv
<1>5. QED
  BY <1>1, <1>2, <1>4 DEF DeployOf, OnlyAt, Events

(* An application is as it was after a step on another one.                *)
LEMMA ConstantElsewhere ==
  ASSUME SupervisionAssumption, BaseInv, NEW a \in Apps, OnlyAt(a),
         NEW b \in Apps \ {a}, ConstantHost(b)
  PROVE  ConstantHost(b)'
BY DEF BaseInv, EnabledInv, OnlyAt, ConstantHost, VolumesGone, Reloaded, Wanted, OnDisk

(* So is a command on another application.                                 *)
LEMMA CommandElsewhere ==
  ASSUME BaseInv, NEW q \in Procs, NEW a \in Apps, OnlyAt(a), app[q] # a,
         ConstantHost(app[q]), ConstantAt(q),
         UNCHANGED <<pc[q], op[q], app[q], want[q]>>
  PROVE  ConstantAt(q)'
<1> SUFFICES ASSUME pc[q] # "idle" PROVE ConstantOf(q)'
  BY DEF ConstantAt
<1>1. ConstantOf(q) /\ app[q] \in Apps \ {a}
  BY DEF ConstantAt, BaseInv, TypeOK, ProcTypeOK
<1>2. pc[q] \in DestroySteps \ {"destroyStop", "disable"} => Reloaded(app[q]) = "unread"
  BY <1>1 DEF ConstantOf, ConstantHost, Reloaded, Wanted, DestroySteps
<1>3. QED
  BY <1>1, <1>2 DEF ConstantOf, VolumesGone, OnlyAt

(* What a step does to the deploy that takes it.                           *)
LEMMA DeployLocal ==
  ASSUME BaseInv, NEW p \in Procs, DeployAt(p), Acts(p), UNCHANGED scene
  PROVE  DeployAt(p)'
<1> USE SupervisionAssumption DEF At, DeployAt, Events
<1>1. /\ HostTypeOK /\ ProcTypeOK /\ CommandOf(p) /\ app[p] \in Apps
  BY DEF BaseInv, TypeOK, ProcTypeOK, CommandInv
<1>2. ASSUME NEW s, Goto(p, s)
      PROVE  pc'[p] = s /\ UNCHANGED <<op, app, want, prev, before>>
  BY <1>1, <1>2 DEF ProcTypeOK, Goto, localVars
<1>3. ASSUME End(p)
      PROVE  pc'[p] = "idle"
  BY <1>1, <1>3 DEF ProcTypeOK, End
<1>4. CASE BeginNext(p)
  <2>1. PICK a \in Apps :
           \/ \E t \in Types : BeginCreate(p, a, t) \/ BeginDeploy(p, a, t)
           \/ BeginStart(p, a) \/ BeginRestart(p, a) \/ BeginStop(p, a) \/ BeginDestroy(p, a)
    BY <1>4 DEF BeginNext
  <2>2. CASE \E t \in Types : BeginDeploy(p, a, t)
    <3>1. PICK t \in Types : BeginDeploy(p, a, t)
      BY <2>2
    <3>2. /\ pc'[p] = "build" /\ app'[p] = a /\ want'[p] = t
          /\ cfgType'[a] = t \/ "save" \in Events
          /\ before'[p] = [file |-> unitFile[a], legacy |-> legacy[a], active |-> active[a]]
          /\ UNCHANGED <<unitFile, legacy, active>>
      BY <1>1, <3>1 DEF BeginDeploy, Begin, HostTypeOK, ProcTypeOK, systemdVars
    <3>3. QED
      BY <3>2 DEF DeployOf
  <2>3. CASE ~\E t \in Types : BeginDeploy(p, a, t)
    <3>1. op'[p] # "deploy"
      BY <1>1, <2>1, <2>3
      DEF ProcTypeOK, Begin, BeginCreate, BeginStart, BeginRestart, BeginStop, BeginDestroy
    <3>2. QED
      BY <3>1
  <2>4. QED
    BY <2>2, <2>3
<1>5. CASE Verify(p) \/ StartUnit(p) \/ StopCommand(p) \/ StartFails(p)
  BY <1>1, <1>2, <1>3, <1>5
  DEF Verify, StartUnit, StopCommand, StartFails, End
<1>6. CASE StepFails(p) \/ Crash(p) \/ SaveFails(p)
  BY <1>1, <1>2, <1>3, <1>6
  DEF StepFails, Crash, SaveFails, MayFail
<1>7. CASE SaveMetadata(p) \/ DestroyStop(p) \/ Disable(p) \/ RemoveUnit(p) \/ RemoveSources(p)
         \/ TeardownWorkload(p) \/ RemoveStorage(p) \/ DestroyReload(p)
  BY <1>1, <1>2, <1>3, <1>7
  DEF SaveMetadata, DestroyStop, Disable, RemoveUnit, RemoveSources, TeardownWorkload,
      RemoveStorage, DestroyReload, CommandOf, DestroySteps
<1>8. CASE DestroyStepFails(p)
  BY <1>1, <1>2, <1>3, <1>8
  DEF DestroyStepFails, AfterFailed, CommandOf, DestroySteps
<1>9. CASE Build(p) \/ Ingress(p)
  BY <1>1, <1>2, <1>3, <1>9
  DEF Build, Ingress, DeployOf, CommandOf, hostVars, diskVars, systemdVars, podmanVars
<1>10. CASE Guard(p)
  BY <1>1, <1>2, <1>3, <1>10
  DEF Guard, DeployOf, ProcTypeOK, CommandOf, hostVars, diskVars, systemdVars, podmanVars
<1>11. CASE WriteUnit(p)
  BY <1>1, <1>2, <1>3, <1>11
  DEF WriteUnit, HostTypeOK, DeployOf, CommandOf, hostVars, diskVars, systemdVars, podmanVars
<1>12. CASE RetireChangedWorkload(p)
  BY <1>1, <1>2, <1>3, <1>12
  DEF RetireChangedWorkload, TryStop, StopUnit, GoDown, HostTypeOK, DeployOf, CommandOf, hostVars,
      diskVars, systemdVars, podmanVars
<1>13. CASE StopLegacyWorkload(p)
  BY <1>1, <1>2, <1>3, <1>13
  DEF StopLegacyWorkload, TryStop, StopUnit, AfterUnit, HostTypeOK, DeployOf, CommandOf, hostVars,
      diskVars, systemdVars, podmanVars
<1>14. CASE RemoveLegacySources(p)
  <2> SUFFICES ASSUME op'[p] = "deploy" PROVE DeployOf(p)'
    OBVIOUS
  <2>1. /\ pc[p] = "legacyRemove" /\ pc'[p] = "ingress" /\ ~legacy'[app[p]]
        /\ UNCHANGED <<op, app, want, before, cfgType, unitFile, active>>
    BY <1>1, <1>2, <1>14 DEF RemoveLegacySources, AfterUnit, HostTypeOK, systemdVars
  <2>2. DeployOf(p)
    BY <2>1
  <2>3. QED
    BY <2>1, <2>2 DEF DeployOf
<1>15. CASE DaemonReload(p)
  BY <1>1, <1>2, <1>3, <1>15
  DEF DaemonReload, Reload, DeployOf, CommandOf, hostVars, diskVars, systemdVars, podmanVars
<1>16. CASE Enable(p)
  BY <1>1, <1>2, <1>3, <1>16
  DEF Enable, Reload, OnDisk, HostTypeOK, DeployOf, CommandOf, hostVars, diskVars, systemdVars,
      podmanVars
<1>17. CASE RestartUnit(p)
  <2> SUFFICES ASSUME op'[p] = "deploy", pc'[p] # "idle" PROVE DeployOf(p)'
    OBVIOUS
  <2>1. /\ pc[p] = "restart" /\ pc'[p] = "verify"
        /\ UNCHANGED <<op, app, want, before, diskVars, enabled>>
    BY <1>1, <1>2, <1>3, <1>17 DEF RestartUnit, UnitUp
  <2>2. DeployOf(p) /\ want[p] \in Types \cup {"unknown"}
    BY <1>1, <2>1 DEF ProcTypeOK
  <2>3. Definition(app[p]) = want[p]
    BY <2>1, <2>2 DEF Definition, OnDisk, DeployOf
  <2>4. active'[app[p]] /\ loaded'[app[p]] = want[p] /\ want[p] \in stacks'[app[p]]
    BY <1>1, <1>17, <2>3 DEF RestartUnit, UnitUp, HostTypeOK
  <2>5. QED
    BY <2>1, <2>2, <2>4 DEF DeployOf, diskVars
<1>18. QED
  BY <1>4, <1>5, <1>6, <1>7, <1>8, <1>9, <1>10, <1>11, <1>12, <1>13, <1>14, <1>15, <1>16, <1>17
  DEF Acts, HandoverNext, ActivateNext, DestroyNext

(* A stop ends with nothing of the application running, but for what the   *)
(* provider would not tear down, ...                                       *)
LEMMA StopConstant ==
  ASSUME SupervisionAssumption, HostTypeOK, NEW a \in Apps, ConstantHost(a), StopUnit(a),
         UNCHANGED diskVars
  PROVE  /\ ConstantHost(a)' /\ ~active'[a] /\ UNCHANGED <<enabled, volumes>>
<1>1. CASE ~active[a]
  BY <1>1 DEF StopUnit, ConstantHost, VolumesGone, diskVars, systemdVars, podmanVars
<1>2. CASE active[a]
  <2>1. /\ GoDown(a, loaded[a]) /\ UNCHANGED <<enabled, volumes>>
        /\ ~active'[a] /\ loaded'[a] \in {loaded[a], "unread"}
    BY <1>2 DEF StopUnit, HostTypeOK
  <2>2. /\ stacks'[a] \subseteq (stacks[a] \ {loaded[a]}) \cup stray'[a]
        /\ stray[a] \ {loaded[a]} \subseteq stray'[a]
    BY <2>1, DownHost
  <2>3. stacks'[a] \subseteq stray'[a]
    BY <1>2, <2>2 DEF ConstantHost
  <2>4. loaded[a] = Compose => cfgType[a] = Compose /\ exists[a]
    BY <1>2 DEF ConstantHost, SupervisionAssumption
  <2>5. QED
    BY <1>2, <2>1, <2>2, <2>3, <2>4 DEF ConstantHost, VolumesGone, diskVars
<1>3. QED
  BY <1>1, <1>2

(* ... a start of a recorded application runs its unit file, ...           *)
LEMMA UpConstant ==
  ASSUME SupervisionAssumption, HostTypeOK, NEW a \in Apps, ConstantHost(a), exists[a],
         UnitUp(a), UNCHANGED diskVars
  PROVE  ConstantHost(a)'
<1>1. Definition(a) = unitFile[a] /\ unitFile[a] # "absent"
  BY DEF UnitUp, Definition, OnDisk, ConstantHost
<1>2. /\ loaded'[a] = unitFile[a] /\ active'[a] /\ stacks'[a] = stacks[a] \cup {unitFile[a]}
      /\ stray'[a] = stray[a] \ {unitFile[a]}
      /\ volumes'[a] = (volumes[a] \/ unitFile[a] = Compose)
  BY <1>1 DEF UnitUp, HostTypeOK
<1>3. unitFile[a] = Compose => cfgType[a] = Compose
  BY <1>1 DEF ConstantHost, SupervisionAssumption
<1>4. stacks[a] \subseteq stray[a] \cup {unitFile[a]}
  BY DEF ConstantHost
<1>5. stacks'[a] \subseteq stray'[a] \cup {loaded'[a]}
  BY <1>2, <1>4
<1>6. QED
  BY <1>1, <1>2, <1>3, <1>5 DEF ConstantHost, VolumesGone, diskVars

(* ... one that fails leaves nothing running, ...                          *)
LEMMA FailsConstant ==
  ASSUME SupervisionAssumption, HostTypeOK, NEW a \in Apps, ConstantHost(a), exists[a],
         UnitFails(a), UNCHANGED diskVars
  PROVE  ConstantHost(a)'
<1>1. /\ Definition(a) \in {"absent", unitFile[a]}
      /\ active[a] => Definition(a) = loaded[a]
  BY DEF Definition, OnDisk, ConstantHost, HostTypeOK, SupervisionAssumption
<1>2. /\ loaded'[a] = Definition(a) /\ ~active'[a]
      /\ stacks'[a] \subseteq (stacks[a] \ {Definition(a)}) \cup stray'[a]
      /\ stray[a] \ {Definition(a)} \subseteq stray'[a]
      /\ volumes'[a] => volumes[a] \/ Definition(a) = Compose
  BY FailsHost
<1>3. stacks'[a] \subseteq stray'[a]
  BY <1>1, <1>2 DEF ConstantHost
<1>4. Definition(a) = Compose => cfgType[a] = Compose
  BY <1>1 DEF ConstantHost, SupervisionAssumption
<1>5. QED
  BY <1>1, <1>2, <1>3, <1>4 DEF ConstantHost, VolumesGone, diskVars

(* ... and a reload reads the unit file that runs.                         *)
LEMMA ReloadConstant ==
  ASSUME HostTypeOK, NEW a \in Apps, ConstantHost(a), NEW links, Reload(links),
         UNCHANGED <<diskVars, active, podmanVars>>, enabled' = links,
         enabled'[a] => exists[a] /\ unitFile[a] # "absent"
  PROVE  /\ ConstantHost(a)'
         /\ ~active[a] /\ ~enabled'[a] => loaded'[a] = "unread"
         /\ enabled'[a] => loaded'[a] = unitFile[a]
BY DEF HostTypeOK, ConstantHost, VolumesGone, Reload, OnDisk, diskVars, podmanVars

(* What a step does to the command that takes it and to its application.   *)
LEMMA ConstantStep ==
  ASSUME BaseInv, Constant, NEW p \in Procs, Acts(p), ConstantAt(p),
         NEW a \in Apps, a = app'[p], ConstantHost(a)
  PROVE  ConstantHost(a)' /\ ConstantAt(p)'
<1> USE SupervisionAssumption DEF At, ConstantAt, VolumesGone
<1>1. /\ HostTypeOK /\ ProcTypeOK /\ CommandOf(p) /\ app[p] \in Apps
      /\ pc[p] # "idle" => a = app[p]
      /\ pc[p] = "write" => unitFile[app[p]] # "foreign"
      /\ \A b \in Apps : enabled[b] => unitFile[b] # "absent"
  BY ProcLocal DEF BaseInv, TypeOK, ProcTypeOK, CommandInv, GuardedInv, EnabledInv, Turn
<1>2. ASSUME NEW s, Goto(p, s)
      PROVE  pc'[p] = s /\ UNCHANGED <<op, app, want, prev, before>>
  BY <1>1, <1>2 DEF ProcTypeOK, Goto, localVars
<1>3. ASSUME End(p)
      PROVE  pc'[p] = "idle" /\ app'[p] = app[p]
  BY <1>1, <1>3 DEF ProcTypeOK, End
<1>4. ASSUME UNCHANGED hostVars PROVE ConstantHost(a)'
  BY <1>4 DEF ConstantHost, hostVars, diskVars, systemdVars, podmanVars
<1>5. ASSUME TryStop(a) PROVE StopUnit(a)
  BY <1>5 DEF TryStop, Constant
<1>6. CASE BeginNext(p)
  <2>1. PICK b \in Apps :
           \/ \E t \in Types : BeginCreate(p, b, t) \/ BeginDeploy(p, b, t)
           \/ BeginStart(p, b) \/ BeginRestart(p, b) \/ BeginStop(p, b) \/ BeginDestroy(p, b)
    BY <1>6 DEF BeginNext
  <2>2. UNCHANGED hostVars
    <3>1. CASE \E t \in Types : BeginDeploy(p, b, t)
      BY <1>1, <3>1 DEF BeginDeploy, Constant, HostTypeOK, hostVars, diskVars
    <3>2. CASE ~\E t \in Types : BeginDeploy(p, b, t)
      BY <2>1, <3>2 DEF BeginCreate, BeginStart, BeginRestart, BeginStop, BeginDestroy
    <3>3. QED
      BY <3>1, <3>2
  <2>3. a = b /\ ConstantHost(a)'
    BY <1>1, <1>4, <2>1, <2>2
    DEF ProcTypeOK, Begin, BeginCreate, BeginDeploy, BeginStart, BeginRestart, BeginStop,
        BeginDestroy
  <2>4. \/ pc'[p] = "guard" /\ op'[p] = "create" /\ ~exists[a]
        \/ pc'[p] = "build" /\ op'[p] = "deploy" /\ exists[a] /\ cfgType'[a] = want'[p]
        \/ pc'[p] \in {"ingress", "stop"} /\ op'[p] \in {"start", "restart", "stop"} /\ exists[a]
        \/ /\ pc'[p] = "destroyStop" /\ op'[p] = "destroy"
           /\ exists[a] => want'[p] = cfgType[a]
    BY <1>1, <2>1
    DEF Constant, ProcTypeOK, HostTypeOK, Begin, BeginCreate, BeginDeploy, BeginStart,
        BeginRestart, BeginStop, BeginDestroy
  <2>5. QED
    BY <2>2, <2>3, <2>4 DEF ConstantOf, DestroySteps, hostVars, diskVars
<1>7. CASE Verify(p) \/ StepFails(p) \/ Crash(p)
  BY <1>1, <1>2, <1>3, <1>4, <1>7
  DEF Verify, StepFails, Crash
<1>28. CASE SaveFails(p)
  <2>1. /\ op[p] = "create" /\ ~exists[a] /\ unitFile[a] = want[p] /\ pc'[p] = "idle"
        /\ UNCHANGED <<unitFile, legacy, systemdVars, podmanVars>>
        /\ \/ exists'[a] /\ cfgType'[a] = want[p]
           \/ UNCHANGED <<exists, cfgType>>
    BY <1>1, <1>3, <1>28 DEF SaveFails, HostTypeOK, ConstantOf, CommandOf
  <2>2. ConstantHost(a)'
    BY <1>1, <2>1 DEF ConstantHost, systemdVars, podmanVars
  <2>3. QED
    BY <1>1, <1>3, <2>1, <2>2
<1>8. CASE Build(p) \/ Ingress(p)
  BY <1>1, <1>2, <1>3, <1>4, <1>8
  DEF Build, Ingress, ConstantOf, CommandOf, DestroySteps, hostVars, diskVars, systemdVars,
      podmanVars
<1>9. CASE Guard(p)
  BY <1>1, <1>2, <1>3, <1>4, <1>9
  DEF Guard, ConstantOf, CommandOf, DestroySteps, ProcTypeOK, hostVars, diskVars, systemdVars,
      podmanVars
<1>10. CASE DestroyStepFails(p)
  BY <1>1, <1>2, <1>3, <1>4, <1>10
  DEF DestroyStepFails, Constant
<1>11. CASE WriteUnit(p)
  <2>1. /\ pc[p] = "write" /\ pc'[p] = "retire" /\ unitFile'[app[p]] = want[p]
        /\ UNCHANGED <<op, app, want, exists, cfgType, legacy, systemdVars, podmanVars>>
    BY <1>1, <1>2, <1>11 DEF WriteUnit, HostTypeOK
  <2>2. ConstantOf(p) /\ want[p] \in Types /\ op[p] \in {"create", "deploy"}
    BY <1>1, <2>1 DEF CommandOf
  <2>3. ConstantHost(a)'
    BY <1>1, <2>1, <2>2 DEF ConstantHost, ConstantOf, systemdVars, podmanVars
  <2>4. QED
    BY <2>1, <2>2, <2>3 DEF ConstantOf, DestroySteps
<1>12. CASE RetireChangedWorkload(p)
  <2>1. ConstantHost(a)' /\ UNCHANGED diskVars
    BY <1>1, <1>5, <1>12, StopConstant DEF RetireChangedWorkload, ConstantHost, diskVars,
        systemdVars, podmanVars
  <2>2. QED
    BY <1>1, <1>2, <1>12, <2>1 DEF RetireChangedWorkload, ConstantOf, CommandOf, DestroySteps,
        diskVars
<1>13. CASE StopLegacyWorkload(p)
  <2>1. ConstantHost(a)' /\ UNCHANGED diskVars
    BY <1>1, <1>5, <1>13, StopConstant DEF StopLegacyWorkload, ConstantHost, diskVars,
        systemdVars, podmanVars
  <2>2. QED
    BY <1>1, <1>2, <1>13, <2>1 DEF StopLegacyWorkload, AfterUnit, ConstantOf, CommandOf,
        DestroySteps, diskVars
<1>14. CASE RemoveLegacySources(p)
  <2>1. ConstantHost(a)' /\ UNCHANGED <<exists, cfgType, unitFile, systemdVars, podmanVars>>
    BY <1>1, <1>14 DEF RemoveLegacySources, ConstantHost, HostTypeOK, systemdVars, podmanVars
  <2>2. QED
    BY <1>1, <1>2, <1>14, <2>1 DEF RemoveLegacySources, AfterUnit, ConstantOf, CommandOf,
        DestroySteps
<1>15. CASE SaveMetadata(p)
  <2>1. /\ pc[p] = "save" /\ pc'[p] = "reload" /\ op[p] = "create"
        /\ exists'[app[p]] /\ cfgType'[app[p]] = want[p]
        /\ UNCHANGED <<op, app, want, unitFile, legacy, systemdVars, podmanVars>>
    BY <1>1, <1>2, <1>15 DEF SaveMetadata, HostTypeOK, CommandOf
  <2>2. ConstantOf(p)
    BY <2>1
  <2>3. ConstantHost(a)'
    BY <1>1, <2>1, <2>2 DEF ConstantHost, ConstantOf, systemdVars, podmanVars
  <2>4. QED
    BY <2>1, <2>3 DEF ConstantOf, DestroySteps
<1>16. CASE DaemonReload(p)
  <2>1. enabled'[a] => exists[a] /\ unitFile[a] # "absent"
    BY <1>1, <1>16 DEF DaemonReload, ConstantHost, ConstantOf, CommandOf, HostTypeOK
  <2>2. /\ Reload(enabled') /\ UNCHANGED <<diskVars, active, podmanVars>>
    BY <1>16 DEF DaemonReload
  <2>3. /\ ConstantHost(a)'
        /\ ~active[a] /\ ~enabled'[a] => loaded'[a] = "unread"
    BY <1>1, <2>1, <2>2, ReloadConstant
  <2>4. QED
    BY <1>1, <1>2, <1>3, <1>16, <2>2, <2>3
    DEF DaemonReload, ConstantOf, CommandOf, DestroySteps, HostTypeOK, diskVars
<1>17. CASE Enable(p)
  <2>1. enabled'[a] => exists[a] /\ unitFile[a] # "absent"
    BY <1>1, <1>17 DEF Enable, ConstantHost, ConstantOf, CommandOf, HostTypeOK
  <2>2. /\ Reload(enabled') /\ UNCHANGED <<diskVars, active, podmanVars>>
    BY <1>17 DEF Enable
  <2>3. /\ ConstantHost(a)'
        /\ ~active[a] /\ ~enabled'[a] => loaded'[a] = "unread"
    BY <1>1, <2>1, <2>2, ReloadConstant
  <2>4. QED
    BY <1>1, <1>2, <1>3, <1>17, <2>2, <2>3
    DEF Enable, ConstantOf, CommandOf, DestroySteps, HostTypeOK, diskVars
<1>18. CASE Disable(p)
  <2>1. enabled'[a] => exists[a] /\ unitFile[a] # "absent"
    BY <1>1, <1>18 DEF Disable, ConstantHost, ConstantOf, CommandOf, HostTypeOK
  <2>2. /\ Reload(enabled') /\ UNCHANGED <<diskVars, active, podmanVars>>
    BY <1>18 DEF Disable
  <2>3. /\ ConstantHost(a)'
        /\ ~active[a] /\ ~enabled'[a] => loaded'[a] = "unread"
    BY <1>1, <2>1, <2>2, ReloadConstant
  <2>4. QED
    BY <1>1, <1>2, <1>3, <1>18, <2>2, <2>3
    DEF Disable, ConstantOf, CommandOf, DestroySteps, HostTypeOK, diskVars
<1>19. CASE DestroyReload(p)
  <2>1. enabled'[a] => exists[a] /\ unitFile[a] # "absent"
    BY <1>1, <1>19 DEF DestroyReload, ConstantHost
  <2>2. ConstantHost(a)'
    BY <1>1, <1>19, <2>1, ReloadConstant DEF DestroyReload
  <2>3. QED
    BY <1>3, <1>19, <2>2 DEF DestroyReload
<1>20. CASE RestartUnit(p) \/ StartUnit(p) \/ StartFails(p)
  <2>1. exists[app[p]] /\ UNCHANGED diskVars
    BY <1>1, <1>20 DEF RestartUnit, StartUnit, StartFails, ConstantOf, CommandOf
  <2>2. ConstantHost(a)'
    BY <1>1, <1>20, <2>1, UpConstant, FailsConstant
    DEF RestartUnit, StartUnit, StartFails, ConstantHost, diskVars, systemdVars, podmanVars
  <2>3. QED
    BY <1>1, <1>2, <1>3, <1>20, <2>1, <2>2
    DEF RestartUnit, StartUnit, StartFails, ConstantOf, CommandOf, DestroySteps, diskVars
<1>21. CASE StopCommand(p)
  BY <1>1, <1>3, <1>21, StopConstant DEF StopCommand
<1>22. CASE DestroyStop(p)
  <2>1. ConstantHost(a)' /\ ~active'[app[p]] /\ UNCHANGED <<diskVars, enabled, volumes>>
    BY <1>1, <1>5, <1>22, StopConstant DEF DestroyStop
  <2>2. QED
    BY <1>1, <1>2, <1>22, <2>1 DEF DestroyStop, ConstantOf, CommandOf, DestroySteps, diskVars
<1>23. CASE RemoveUnit(p)
  <2>1. /\ pc[p] = "removeUnit" /\ pc'[p] = "removeSources"
        /\ unitFile'[app[p]] = "absent" /\ ~enabled'[a]
        /\ UNCHANGED <<op, app, want, exists, cfgType, legacy, loaded, active, podmanVars>>
    BY <1>1, <1>2, <1>23 DEF RemoveUnit, HostTypeOK
  <2>2. ConstantOf(p) /\ op[p] = "destroy"
    BY <1>1, <2>1 DEF CommandOf, DestroySteps
  <2>3. ConstantHost(a)'
    BY <1>1, <2>1, <2>2 DEF ConstantHost, ConstantOf, DestroySteps, systemdVars, podmanVars
  <2>4. QED
    BY <1>1, <2>1, <2>2, <2>3 DEF ConstantOf, DestroySteps, systemdVars, podmanVars
<1>24. CASE RemoveSources(p)
  <2>1. /\ pc[p] = "removeSources" /\ pc'[p] = "teardown"
        /\ ~legacy'[app[p]]
        /\ UNCHANGED <<op, app, want, exists, cfgType, unitFile, systemdVars, podmanVars>>
    BY <1>1, <1>2, <1>24 DEF RemoveSources, HostTypeOK
  <2>2. ConstantOf(p) /\ op[p] = "destroy"
    BY <1>1, <2>1 DEF CommandOf, DestroySteps
  <2>3. ConstantHost(a)'
    BY <1>1, <2>1, <2>2 DEF ConstantHost, ConstantOf, DestroySteps, systemdVars, podmanVars
  <2>4. QED
    BY <1>1, <2>1, <2>2, <2>3 DEF ConstantOf, DestroySteps, systemdVars, podmanVars
<1>25. CASE RemoveStorage(p)
  <2>1. /\ pc[p] = "removeStorage" /\ pc'[p] = "destroyReload"
        /\ ~exists'[app[p]] /\ cfgType'[app[p]] = Compose
        /\ UNCHANGED <<op, app, want, unitFile, legacy, systemdVars, podmanVars>>
    BY <1>1, <1>2, <1>25 DEF RemoveStorage, HostTypeOK
  <2>2. ConstantOf(p) /\ op[p] = "destroy"
    BY <1>1, <2>1 DEF CommandOf, DestroySteps
  <2>3. ConstantHost(a)'
    BY <1>1, <2>1, <2>2 DEF ConstantHost, ConstantOf, DestroySteps, systemdVars, podmanVars
  <2>4. QED
    BY <1>1, <2>1, <2>2, <2>3 DEF ConstantOf, DestroySteps, systemdVars, podmanVars
<1>26. CASE TeardownWorkload(p)
  <2>1. /\ pc[p] = "teardown" /\ pc'[p] = "removeStorage"
        /\ UNCHANGED <<op, app, want, diskVars, systemdVars>>
    BY <1>1, <1>2, <1>26 DEF TeardownWorkload
  <2>2. ConstantOf(p) /\ op[p] = "destroy" /\ ~active[app[p]]
    BY <1>1, <2>1 DEF CommandOf, ConstantOf, DestroySteps
  <2>3. stacks'[app[p]] \subseteq stray'[app[p]] /\ VolumesGone(app[p])'
    <3>1. stacks[app[p]] \subseteq stray[app[p]]
      BY <1>1, <2>1, <2>2 DEF ConstantHost
    <3>2. CASE want[p] = Compose
      <4>1. /\ GoDown(app[p], Compose)
            /\ volumes'[app[p]] = (volumes[app[p]] /\ Compose \in stray'[app[p]])
        BY <1>1, <1>26, <3>2 DEF TeardownWorkload, HostTypeOK
      <4>2. /\ stacks'[app[p]] \subseteq (stacks[app[p]] \ {Compose}) \cup stray'[app[p]]
            /\ stray[app[p]] \ {Compose} \subseteq stray'[app[p]]
        BY <1>1, <4>1, DownHost
      <4>3. QED
        BY <2>1, <3>1, <4>1, <4>2
    <3>3. CASE want[p] # Compose
      BY <1>1, <1>26, <2>1, <2>2, <3>1, <3>3
      DEF TeardownWorkload, ConstantHost, ConstantOf, HostTypeOK, podmanVars
    <3>4. QED
      BY <3>2, <3>3
  <2>4. ConstantHost(a)'
    BY <1>1, <2>1, <2>2, <2>3 DEF ConstantHost, diskVars, systemdVars
  <2>5. QED
    BY <2>1, <2>2, <2>3, <2>4 DEF ConstantOf, DestroySteps, diskVars, systemdVars
<1>27. QED
  BY <1>6, <1>7, <1>8, <1>9, <1>10, <1>11, <1>12, <1>13, <1>14, <1>15, <1>16, <1>17, <1>18, <1>19,
      <1>20, <1>21, <1>22, <1>23, <1>24, <1>25, <1>26, <1>28
  DEF Acts, HandoverNext, ActivateNext, DestroyNext

(* With one command per application every step keeps the invariant.        *)
LEMMA ExclusiveStep ==
  ASSUME Exclusive, BaseInv, ExclusiveInv, [Next]_vars
  PROVE  ExclusiveInv'
<1> USE SupervisionAssumption DEF ExclusiveInv
<1>1. SoleInv' /\ UNCHANGED scene
  BY SoleStep, BaseStep
<1>2. ASSUME NEW p \in Procs, Acts(p) PROVE DeployInv' /\ ConstantInv'
  <2>1. PICK a \in Apps : a = app'[p]
    BY <1>2, ProcLocal DEF ProcTypeOK
  <2>2. Others(p) /\ OnlyAt(a)
    BY <1>2, <2>1, ProcLocal, HostStep DEF HostLocal
  <2>3. \A q \in Procs \ {p} : pc[q] # "idle" => app[q] # a
    BY <1>2, <2>1, Apart
  <2>4. ASSUME NEW q \in Procs PROVE DeployAt(q)'
    <3>1. DeployAt(q)
      BY DEF DeployInv
    <3>2. CASE q = p
      BY <1>1, <1>2, <3>1, <3>2, DeployLocal
    <3>3. CASE q # p /\ pc[q] # "idle"
      BY <1>1, <2>2, <2>3, <3>1, <3>3, DeployElsewhere DEF Others
    <3>4. CASE q # p /\ pc[q] = "idle"
      BY <2>2, <3>4 DEF Others, DeployAt
    <3>5. QED
      BY <3>2, <3>3, <3>4
  <2>5. ASSUME Constant'
        PROVE  (\A b \in Apps : ConstantHost(b)') /\ (\A q \in Procs : ConstantAt(q)')
    <3>1. /\ Constant /\ \A b \in Apps : ConstantHost(b)
          /\ \A q \in Procs : ConstantAt(q)
      BY <1>1, <2>5 DEF Constant, Events, ConstantInv
    <3>2. ConstantHost(a)' /\ ConstantAt(p)'
      BY <1>2, <2>1, <3>1, ConstantStep
    <3>3. ASSUME NEW b \in Apps PROVE ConstantHost(b)'
      BY <2>2, <3>1, <3>2, <3>3, ConstantElsewhere
    <3>4. ASSUME NEW q \in Procs PROVE ConstantAt(q)'
      <4>1. CASE q = p
        BY <3>2, <4>1
      <4>2. CASE q # p /\ pc[q] # "idle"
        <5>1. ConstantHost(app[q]) /\ ConstantAt(q) /\ app[q] # a
          BY <2>3, <3>1, <4>2 DEF BaseInv, TypeOK, ProcTypeOK
        <5>2. QED
          BY <2>2, <4>2, <5>1, CommandElsewhere DEF Others
      <4>3. CASE q # p /\ pc[q] = "idle"
        BY <2>2, <4>3 DEF Others, ConstantAt
      <4>4. QED
        BY <4>1, <4>2, <4>3
    <3>5. QED
      BY <3>3, <3>4
  <2>6. QED
    BY <2>4, <2>5 DEF DeployInv, ConstantInv
<1>3. ASSUME Reboot PROVE DeployInv' /\ ConstantInv'
  <2>1. \A q \in Procs : DeployAt(q)' /\ ConstantAt(q)'
    BY <1>3 DEF Reboot, DeployAt, ConstantAt
  <2>2. ASSUME Constant', NEW b \in Apps PROVE ConstantHost(b)'
    <3>1. ConstantHost(b) /\ (enabled[b] => unitFile[b] # "absent")
      BY <1>1, <2>2 DEF Constant, Events, ConstantInv, BaseInv, EnabledInv
    <3>2. QED
      BY <1>3, <3>1, SupervisionAssumption
      DEF Reboot, Wanted, OnDisk, ConstantHost, VolumesGone, diskVars
  <2>3. QED
    BY <2>1, <2>2 DEF DeployInv, ConstantInv
<1>4. ASSUME UNCHANGED vars PROVE DeployInv' /\ ConstantInv'
  <2>1. /\ UNCHANGED <<scene, exists, cfgType, unitFile, legacy, enabled, loaded, active, stacks>>
        /\ UNCHANGED <<volumes, stray, pc, op, app, want, prev, before>>
    BY <1>4 DEF vars, hostVars, diskVars, systemdVars, podmanVars, procVars, localVars
  <2>2. DeployInv'
    BY <2>1 DEF DeployInv, DeployAt, DeployOf, Events
  <2>3. Constant' => Constant
    BY <2>1 DEF Constant, Events
  <2>4. \A a \in Apps : ConstantHost(a) => ConstantHost(a)'
    BY <2>1 DEF ConstantHost, VolumesGone
  <2>5. \A p \in Procs : ConstantAt(p) => ConstantAt(p)'
    BY <2>1 DEF ConstantAt, ConstantOf, VolumesGone
  <2>6. QED
    BY <2>2, <2>3, <2>4, <2>5 DEF ConstantInv
<1>5. ASSUME Reread' PROVE FreshInv'
  <2>1. Reread /\ FreshInv
    BY <1>1, <1>5 DEF Reread, Events
  <2>2. ASSUME NEW p \in Procs, Acts(p) PROVE FreshInv'
    BY <2>1, <2>2, Apart, FreshStep
  <2>3. CASE UNCHANGED vars
    BY <2>1, <2>3
    DEF FreshInv, Stale, OnDisk, vars, hostVars, diskVars, systemdVars, procVars, localVars
  <2>4. QED
    BY <2>2, <2>3, FreshReboot DEF Next, Acts
<1>6. QED
  BY <1>1, <1>2, <1>3, <1>4, <1>5 DEF Next, Acts

(* Nobody works on anything yet, and what gare knows nothing of is off.    *)
LEMMA InitExclusive ==
  ASSUME Init
  PROVE  ExclusiveInv
<1>1. /\ pc = [p \in Procs |-> "idle"] /\ volumes = [a \in Apps |-> FALSE]
      /\ stray = [a \in Apps |-> {}]
  BY DEF Init
<1>2. SoleInv /\ DeployInv /\ \A p \in Procs : ConstantAt(p)
  BY <1>1 DEF SoleInv, DeployInv, DeployAt, ConstantAt
<1>3. ASSUME Constant, NEW a \in Apps PROVE ConstantHost(a)
  <2>1. PICK old \in {{}}, own \in SUBSET scene.apps :
        /\ old \cap own = {}
        /\ \E known \in SUBSET own : exists = [b \in Apps |-> b \in old \cup known]
        /\ legacy = [b \in Apps |-> b \in old]
        /\ unitFile = [b \in Apps |-> IF b \in own THEN "foreign" ELSE "absent"]
        /\ enabled = [b \in Apps |-> FALSE]
        /\ active = [b \in Apps |-> b \in old]
        /\ loaded = [b \in Apps |-> IF b \in old THEN "quadlet" ELSE "unread"]
        /\ stacks = [b \in Apps |-> IF b \in old THEN {"quadlet"} ELSE {}]
    BY <1>3 DEF Init, Constant
  <2>2. a \notin old
    OBVIOUS
  <2>3. /\ ~legacy[a] /\ ~active[a] /\ ~enabled[a] /\ ~volumes[a]
        /\ loaded[a] = "unread" /\ stacks[a] = {}
    BY <1>1, <2>1, <2>2
  <2>4. exists[a] => unitFile[a] = "foreign"
    BY <2>1, <2>2
  <2>5. QED
    BY <2>3, <2>4 DEF ConstantHost, VolumesGone
<1>4. FreshInv
  BY DEF Init, FreshInv, OnDisk
<1>5. QED
  BY <1>2, <1>3, <1>4 DEF ExclusiveInv, ConstantInv

(* The invariant holds in every behaviour with one command each.          *)
LEMMA ExclusiveInvariance ==
  ASSUME Exclusive
  PROVE  Spec => []ExclusiveInv
<1>1. BaseInv /\ ExclusiveInv /\ [Next]_vars => ExclusiveInv'
  BY ExclusiveStep
<1>2. QED
  BY <1>1, Base, InitExclusive, PTL DEF Spec

(* A deploy that gets as far as the health check has converged: what runs  *)
(* is the type it deployed, enabled, under the unit file it wrote, with no *)
(* Quadlet source left (activateApp, restartAppServices); also when other  *)
(* commands reload systemd, fail or die on other applications meanwhile.   *)
THEOREM DeployConvergesHolds == Exclusive => (Spec => []DeployConverges)
<1> SUFFICES ASSUME Exclusive PROVE Spec => []DeployConverges
  OBVIOUS
<1>1. BaseInv /\ ExclusiveInv => DeployConverges
  BY DEF BaseInv, CommandInv, CommandOf, ExclusiveInv, DeployInv, DeployAt, DeployOf,
      DeployConverges, At
<1>2. QED
  BY <1>1, Base, ExclusiveInvariance, PTL

(* Until it restarts the unit a deploy has not stopped the workload, nor   *)
(* has any other command, unless the workload is of another type or a      *)
(* Quadlet one and applyUnitWrite retires it.                              *)
THEOREM UndisturbedHolds == Exclusive => (Spec => []Undisturbed)
<1> SUFFICES ASSUME Exclusive PROVE Spec => []Undisturbed
  OBVIOUS
<1>1. BaseInv /\ ExclusiveInv => Undisturbed
  BY DEF ExclusiveInv, DeployInv, DeployAt, DeployOf, Undisturbed, DeploySteps
<1>2. QED
  BY <1>1, Base, ExclusiveInvariance, PTL

(* A start finds in memory what is on disk, or nothing.                    *)
LEMMA StartStep ==
  ASSUME BaseInv, ExclusiveInv, Constant \/ Reread, NEW p \in Procs,
         StartUnit(p) \/ RestartUnit(p)
  PROVE  (loaded[app[p]] = OnDisk(app[p]))'
<1> DEFINE a == app[p]
<1>1. /\ HostTypeOK /\ ProcTypeOK /\ a \in Apps /\ app'[p] = a /\ ~Stale(p) /\ pc[p] # "idle"
      /\ UNCHANGED diskVars /\ (active[a] => loaded[a] # "unread")
  BY DEF StartUnit, RestartUnit, At, Goto, End, Stale, BaseInv, LoadedInv, TypeOK, ProcTypeOK,
      localVars
<1>2. \/ UnitUp(a)
      \/ active[a] /\ UNCHANGED loaded
  BY DEF StartUnit, RestartUnit, systemdVars
<1>3. loaded[a] \in {"unread", "absent", OnDisk(a)} /\ (active[a] => loaded[a] = OnDisk(a))
  <2>1. CASE Constant
    BY <1>1, <2>1 DEF ExclusiveInv, ConstantInv, ConstantHost, OnDisk
  <2>2. CASE Reread
    <3>1. \A q \in Procs : app[q] = a /\ Stale(q) => q = p
      BY <1>1 DEF ExclusiveInv, SoleInv, Stale
    <3>2. QED
      BY <1>1, <2>2, <3>1 DEF ExclusiveInv, FreshInv
  <2>3. QED
    BY <2>1, <2>2
<1>4. loaded'[a] = OnDisk(a)
  BY <1>1, <1>2, <1>3 DEF UnitUp, Definition, HostTypeOK
<1>5. QED
  BY <1>1, <1>4 DEF OnDisk, diskVars

(* A start or restart runs the definition on disk, although it reloads     *)
(* nothing: while no type changes and no stop or removal fails, or else    *)
(* while no command fails or dies between a write and its reload           *)
(* (runStartApp, runRestartApp).                                           *)
THEOREM StartsUnitOnDiskHolds == Exclusive => (Spec => StartsUnitOnDisk)
<1> SUFFICES ASSUME Exclusive PROVE Spec => StartsUnitOnDisk
  OBVIOUS
<1>1. BaseInv /\ ExclusiveInv /\ [Next]_vars =>
        [\A p \in Procs : (Constant \/ Reread) /\ (StartUnit(p) \/ RestartUnit(p))
                         => (loaded[app[p]] = OnDisk(app[p]))']_vars
  BY StartStep
<1>2. QED
  BY <1>1, Base, ExclusiveInvariance, PTL DEF Spec, StartsUnitOnDisk
-----------------------------------------------------------------------------
(***************************************************************************)
(* One command on the host.                                                *)
(***************************************************************************)

(* A unit that runs has a definition in memory.                            *)
ActiveInv == \A a \in Apps : active[a] => loaded[a] \in Definitions

(* What a stale definition may still be running.                           *)
HandoverOf(p) ==
  LET a == app[p] IN
    /\ pc[p] # "idle" => p \in scene.procs
    /\ pc[p] = "write" => prev[p] = IF unitFile[a] = "absent" THEN "none" ELSE unitFile[a]
    /\ pc[p] \in {"retire", "legacyStop", "legacyRemove", "save", "reload"} =>
         unitFile[a] = want[p]
    /\ pc[p] = "retire" /\ active[a] =>
         \/ prev[p] # "none" /\ loaded[a] = prev[p]
         \/ prev[p] = "none" /\ legacy[a]
    /\ pc[p] = "legacyStop" /\ active[a] => loaded[a] = want[p] \/ legacy[a]
    /\ pc[p] \in {"legacyRemove", "disable", "removeUnit", "removeSources", "teardown",
                  "removeStorage", "destroyReload"} => ~active[a]
    /\ pc[p] \in {"removeUnit", "removeSources", "teardown", "removeStorage", "destroyReload"} =>
         ~enabled[a]
    /\ pc[p] \in {"removeSources", "teardown", "removeStorage", "destroyReload"} =>
         unitFile[a] = "absent"
    /\ pc[p] \in {"teardown", "removeStorage", "destroyReload"} => ~legacy[a]
    /\ pc[p] = "destroyReload" => ~exists[a]
    /\ pc[p] \in {"save", "reload"} \/ (pc[p] = "ingress" /\ op[p] = "deploy") =>
         unitFile[a] = want[p] /\ (active[a] => loaded[a] = want[p])
HandoverInv == \A p \in Procs : HandoverOf(p)

(* What holds in a quiet behaviour.                                        *)
IInv == BaseInv /\ FreshInv /\ ActiveInv /\ HandoverInv /\ Supervised
-----------------------------------------------------------------------------
(* The process that acts is the only one at work.                          *)
FreshFor(p) == \A a \in Apps : loaded[a] \in {"unread", OnDisk(a)}
                                 \/ (app[p] = a /\ Stale(p))
Solo(p) == p \in scene.procs /\ CommandOf(p) /\ HandoverOf(p) /\ FreshFor(p)

(* Nobody else is at work.                                                 *)
LEMMA Actor ==
  ASSUME Quiet, IInv, NEW p \in Procs, p \in scene.procs
  PROVE  Solo(p) /\ \A q \in Procs \ {p} : pc[q] = "idle"
<1>1. ASSUME NEW q \in Procs \ {p} PROVE pc[q] = "idle"
  BY <1>1 DEF Quiet, IInv, HandoverInv, HandoverOf
<1>2. FreshFor(p)
  BY <1>1 DEF IInv, FreshInv, FreshFor, Stale
<1>3. QED
  BY <1>1, <1>2 DEF Solo, IInv, BaseInv, CommandInv, HandoverInv

(* A process that is at work is one of the scene's.                        *)
LEMMA Busy ==
  ASSUME Quiet, IInv, NEW p \in Procs, Acts(p)
  PROVE  Solo(p) /\ \A q \in Procs \ {p} : pc[q] = "idle"
<1>1. BeginNext(p) \/ pc[p] # "idle"
  BY DEF Acts, HandoverNext, ActivateNext, DestroyNext, StepFails, Crash, DestroyStepFails,
      AfterFailed,
         MayFail, At, Build, Guard, WriteUnit, RetireChangedWorkload, StopLegacyWorkload,
         RemoveLegacySources, SaveMetadata, Ingress, DaemonReload, Enable, RestartUnit, Verify,
         StartUnit, StopCommand, StartFails, DestroyStop, Disable, RemoveUnit, RemoveSources,
         TeardownWorkload, RemoveStorage, DestroyReload, SaveFails
<1>2. p \in scene.procs
  BY <1>1 DEF BeginNext, IInv, HandoverInv, HandoverOf
<1>3. QED
  BY <1>2, Actor

(* A stop leaves no new unit active, ...                                   *)
LEMMA StopActive ==
  ASSUME HostTypeOK, ActiveInv, NEW a \in Apps, StopUnit(a)
  PROVE  ActiveInv'
BY DEF StopUnit, ActiveInv, HostTypeOK, systemdVars

(* ... and a start loads the definition it runs.                           *)
LEMMA UpActive ==
  ASSUME SupervisionAssumption, HostTypeOK, ActiveInv, NEW a \in Apps, UnitUp(a)
  PROVE  ActiveInv'
<1>1. Definition(a) \in Definitions
  BY DEF UnitUp, Definition, OnDisk, HostTypeOK, Definitions, SupervisionAssumption
<1>2. QED
  BY <1>1 DEF UnitUp, ActiveInv, HostTypeOK

(* The definition of an active unit is the one on disk, unless a process   *)
(* is between a write and its reload.                                      *)
LEMMA ActiveFresh ==
  ASSUME SupervisionAssumption, ActiveInv, NEW p \in Procs, FreshFor(p),
         Stale(p) => ~active[app[p]] \/ loaded[app[p]] = OnDisk(app[p])
  PROVE  \A a \in Apps : active[a] => loaded[a] = OnDisk(a)
BY DEF SupervisionAssumption, ActiveInv, Definitions, FreshFor

(* A reload leaves an active unit a definition when it is the one on disk. *)
LEMMA ReloadActive ==
  ASSUME HostTypeOK, ActiveInv, NEW links, Reload(links), UNCHANGED active,
         \A a \in Apps : active[a] => loaded[a] = OnDisk(a)
  PROVE  ActiveInv'
BY DEF Reload, ActiveInv

(* A unit comes up only under a definition systemd has read.               *)
LEMMA ActiveStep ==
  ASSUME Quiet, IInv, [Next]_vars
  PROVE  ActiveInv'
<1> USE SupervisionAssumption
        DEF Quiet, Reread, IInv, BaseInv, CommandOf, TypeOK, HostTypeOK, ProcTypeOK, ActiveInv, EnabledInv,
            Solo, HandoverOf, FreshFor, Stale, Definitions, OnDisk, hostVars,
            diskVars, systemdVars, podmanVars, localVars
<1>1. ASSUME NEW p \in Procs, Solo(p), NEW a \in Apps, NEW t \in Types, BeginCreate(p, a, t)
      PROVE  ActiveInv'
  BY <1>1 DEF BeginCreate, Begin
<1>2. ASSUME NEW p \in Procs, Solo(p), NEW a \in Apps, NEW t \in Types, BeginDeploy(p, a, t)
      PROVE  ActiveInv'
  BY <1>2 DEF BeginDeploy, Begin
<1>3. ASSUME NEW p \in Procs, Solo(p), NEW a \in Apps, BeginStart(p, a)
      PROVE  ActiveInv'
  BY <1>3 DEF BeginStart, Begin
<1>4. ASSUME NEW p \in Procs, Solo(p), NEW a \in Apps, BeginRestart(p, a)
      PROVE  ActiveInv'
  BY <1>4 DEF BeginRestart, Begin
<1>5. ASSUME NEW p \in Procs, Solo(p), NEW a \in Apps, BeginStop(p, a)
      PROVE  ActiveInv'
  BY <1>5 DEF BeginStop, Begin
<1>6. ASSUME NEW p \in Procs, Solo(p), NEW a \in Apps, BeginDestroy(p, a)
      PROVE  ActiveInv'
  BY <1>6 DEF BeginDestroy, Begin
<1>7. ASSUME NEW p \in Procs, Solo(p), Build(p) PROVE ActiveInv'
  BY <1>7 DEF Build, At, Goto
<1>8. ASSUME NEW p \in Procs, Solo(p), Guard(p) PROVE ActiveInv'
  BY <1>8 DEF Guard, At
<1>9. ASSUME NEW p \in Procs, Solo(p), WriteUnit(p) PROVE ActiveInv'
  BY <1>9 DEF WriteUnit, At, Goto
<1>10. ASSUME NEW p \in Procs, Solo(p), RetireChangedWorkload(p)
      PROVE  ActiveInv'
  <2>1. app[p] \in Apps /\ (StopUnit(app[p]) \/ UNCHANGED systemdVars)
    BY <1>10 DEF RetireChangedWorkload, TryStop
  <2>2. QED
    BY <2>1, StopActive
<1>11. ASSUME NEW p \in Procs, Solo(p), StopLegacyWorkload(p)
      PROVE  ActiveInv'
  <2>1. app[p] \in Apps /\ (StopUnit(app[p]) \/ UNCHANGED systemdVars)
    BY <1>11 DEF StopLegacyWorkload, TryStop
  <2>2. QED
    BY <2>1, StopActive
<1>12. ASSUME NEW p \in Procs, Solo(p), RemoveLegacySources(p)
      PROVE  ActiveInv'
  BY <1>12 DEF RemoveLegacySources, At, Goto, AfterUnit
<1>13. ASSUME NEW p \in Procs, Solo(p), SaveMetadata(p) PROVE ActiveInv'
  BY <1>13 DEF SaveMetadata, At, Goto
<1>14. ASSUME NEW p \in Procs, Solo(p), Ingress(p) PROVE ActiveInv'
  BY <1>14 DEF Ingress, At, Goto
<1>15. ASSUME NEW p \in Procs, Solo(p), DaemonReload(p) PROVE ActiveInv'
  <2>1. Reload(enabled) /\ UNCHANGED active
    BY <1>15 DEF DaemonReload
  <2>2. ~active[app[p]] \/ loaded[app[p]] = OnDisk(app[p])
    BY <1>15 DEF DaemonReload, At
  <2>3. QED
    BY <1>15, <2>1, <2>2, ActiveFresh, ReloadActive
<1>16. ASSUME NEW p \in Procs, Solo(p), Enable(p) PROVE ActiveInv'
  BY <1>16 DEF Enable, At, Goto, Reload
<1>17. ASSUME NEW p \in Procs, Solo(p), RestartUnit(p) PROVE ActiveInv'
  <2>1. app[p] \in Apps /\ UnitUp(app[p])
    BY <1>17 DEF RestartUnit
  <2>2. QED
    BY <2>1, UpActive
<1>18. ASSUME NEW p \in Procs, Solo(p), Verify(p) PROVE ActiveInv'
  BY <1>18 DEF Verify, At, End
<1>19. ASSUME NEW p \in Procs, Solo(p), StartUnit(p) PROVE ActiveInv'
  <2>1. app[p] \in Apps /\ (UnitUp(app[p]) \/ UNCHANGED systemdVars)
    BY <1>19 DEF StartUnit
  <2>2. QED
    BY <2>1, UpActive
<1>20. ASSUME NEW p \in Procs, Solo(p), StopCommand(p) PROVE ActiveInv'
  <2>1. app[p] \in Apps /\ StopUnit(app[p])
    BY <1>20 DEF StopCommand
  <2>2. QED
    BY <2>1, StopActive
<1>21. ASSUME NEW p \in Procs, Solo(p), StartFails(p) PROVE ActiveInv'
  BY <1>21 DEF StartFails, At, End, UnitFails, Definition
<1>22. ASSUME NEW p \in Procs, Solo(p), DestroyStop(p) PROVE ActiveInv'
  <2>1. app[p] \in Apps /\ StopUnit(app[p])
    BY <1>22 DEF DestroyStop, TryStop
  <2>2. QED
    BY <2>1, StopActive
<1>23. ASSUME NEW p \in Procs, Solo(p), Disable(p) PROVE ActiveInv'
  <2>1. ASSUME NEW a \in Apps, active[a] PROVE OnDisk(a) \in Definitions
    BY <1>23, <2>1 DEF Disable, At
  <2>2. QED
    BY <1>23, <2>1 DEF Disable, Reload
<1>24. ASSUME NEW p \in Procs, Solo(p), RemoveUnit(p) PROVE ActiveInv'
  BY <1>24 DEF RemoveUnit, At, Goto
<1>25. ASSUME NEW p \in Procs, Solo(p), RemoveSources(p) PROVE ActiveInv'
  BY <1>25 DEF RemoveSources, At, Goto
<1>26. ASSUME NEW p \in Procs, Solo(p), TeardownWorkload(p) PROVE ActiveInv'
  BY <1>26 DEF TeardownWorkload, At, Goto
<1>27. ASSUME NEW p \in Procs, Solo(p), RemoveStorage(p) PROVE ActiveInv'
  BY <1>27 DEF RemoveStorage, At, Goto
<1>28. ASSUME NEW p \in Procs, Solo(p), DestroyReload(p) PROVE ActiveInv'
  <2>1. Reload(enabled) /\ UNCHANGED active /\ ~active[app[p]]
    BY <1>28 DEF DestroyReload, At
  <2>2. QED
    BY <1>28, <2>1, ActiveFresh, ReloadActive
<1>29. ASSUME NEW p \in Procs, Solo(p), StepFails(p) PROVE ActiveInv'
  BY <1>29 DEF StepFails, MayFail, End
<1>30. ASSUME NEW p \in Procs, Solo(p), Crash(p) PROVE ActiveInv'
  BY <1>30 DEF Crash
<1>31. ASSUME Reboot PROVE ActiveInv'
  BY <1>31 DEF Reboot, Wanted
<1>33. ASSUME NEW p \in Procs, Solo(p), DestroyStepFails(p) PROVE ActiveInv'
  BY <1>33 DEF DestroyStepFails
<1>36. ASSUME NEW p \in Procs, Solo(p), SaveFails(p) PROVE ActiveInv'
  BY <1>36 DEF SaveFails
<1>32. CASE UNCHANGED vars
  BY <1>32 DEF vars, procVars
<1> HIDE DEF Quiet, Reread, IInv, BaseInv, CommandOf, TypeOK, HostTypeOK, ProcTypeOK, ActiveInv,
EnabledInv, Solo,
             HandoverOf, FreshFor, Stale, Definitions, OnDisk, hostVars, diskVars,
             systemdVars, podmanVars, localVars
<1>34. ASSUME NEW p \in Procs, Acts(p) PROVE ActiveInv'
  <2>1. Solo(p)
    BY <1>34, Busy
  <2>2. QED
    BY <1>34, <2>1, <1>1, <1>2, <1>3, <1>4, <1>5, <1>6, <1>7, <1>8, <1>9, <1>10, <1>11,
       <1>12, <1>13, <1>14, <1>15, <1>16, <1>17, <1>18, <1>19, <1>20, <1>21, <1>22,
       <1>23, <1>24, <1>25, <1>26, <1>27, <1>28, <1>29, <1>30, <1>33, <1>36
    DEF Acts, BeginNext, HandoverNext, ActivateNext, DestroyNext
<1>35. QED
  BY <1>31, <1>32, <1>34 DEF Next, Acts

(* A process without a command has handed nothing over.                    *)
LEMMA IdleHandover ==
  ASSUME NEW p, pc'[p] = "idle"
  PROVE  HandoverOf(p)'
BY DEF HandoverOf

(* What a step of p has to show: the other processes stay where they are.  *)
HandoverStays(p) == HandoverOf(p)' /\ \A q \in Procs \ {p} : pc'[q] = pc[q]

(* The stop comes while the outgoing definition is still loaded.           *)
LEMMA HandoverStep ==
  ASSUME Quiet, IInv, [Next]_vars
  PROVE  HandoverInv'
<1> USE SupervisionAssumption
        DEF Quiet, Reread, IInv, BaseInv, CommandOf, TypeOK, HostTypeOK, ProcTypeOK, Solo, HandoverOf,
            HandoverStays,
            FreshFor, Stale, OnDisk, ActiveInv, Definitions, hostVars, diskVars,
            systemdVars, podmanVars, localVars
<1>0. UNCHANGED scene
  BY BaseStep DEF IInv
<1> USE <1>0
<1>1. ASSUME NEW p \in Procs, Solo(p), NEW a \in Apps, NEW t \in Types, BeginCreate(p, a, t)
      PROVE  HandoverStays(p)
  BY <1>1 DEF BeginCreate, Begin
<1>2. ASSUME NEW p \in Procs, Solo(p), NEW a \in Apps, NEW t \in Types, BeginDeploy(p, a, t)
      PROVE  HandoverStays(p)
  BY <1>2 DEF BeginDeploy, Begin
<1>3. ASSUME NEW p \in Procs, Solo(p), NEW a \in Apps, BeginStart(p, a)
      PROVE  HandoverStays(p)
  BY <1>3 DEF BeginStart, Begin
<1>4. ASSUME NEW p \in Procs, Solo(p), NEW a \in Apps, BeginRestart(p, a)
      PROVE  HandoverStays(p)
  BY <1>4 DEF BeginRestart, Begin
<1>5. ASSUME NEW p \in Procs, Solo(p), NEW a \in Apps, BeginStop(p, a)
      PROVE  HandoverStays(p)
  BY <1>5 DEF BeginStop, Begin
<1>6. ASSUME NEW p \in Procs, Solo(p), NEW a \in Apps, BeginDestroy(p, a)
      PROVE  HandoverStays(p)
  BY <1>6 DEF BeginDestroy, Begin
<1>7. ASSUME NEW p \in Procs, Solo(p), Build(p) PROVE HandoverStays(p)
  BY <1>7 DEF Build, At, Goto
<1>8. ASSUME NEW p \in Procs, Solo(p), Guard(p) PROVE HandoverStays(p)
  BY <1>8 DEF Guard, At
<1>9. ASSUME NEW p \in Procs, Solo(p), WriteUnit(p) PROVE HandoverStays(p)
  <2>1. /\ pc[p] = "write" /\ want[p] \in Types /\ app[p] \in Apps
        /\ op[p] \in {"create", "deploy"} /\ ~Stale(p)
        /\ prev[p] = IF unitFile[app[p]] = "absent" THEN "none" ELSE unitFile[app[p]]
    BY <1>9 DEF WriteUnit, At
  <2>2. active[app[p]] => loaded[app[p]] = OnDisk(app[p]) /\ OnDisk(app[p]) \in Definitions
    BY <1>9, <2>1
  <2>3. active[app[p]] => \/ prev[p] # "none" /\ loaded[app[p]] = prev[p]
                          \/ prev[p] = "none" /\ legacy[app[p]]
    BY <2>1, <2>2
  <2>4. /\ pc' = [pc EXCEPT ![p] = "retire"]
        /\ unitFile'[app[p]] = want[p]
        /\ UNCHANGED <<op, app, want, prev, legacy, active, loaded>>
    BY <1>9, <2>1 DEF WriteUnit, Goto
  <2>5. QED
    BY <1>9, <2>1, <2>3, <2>4
<1>10. ASSUME NEW p \in Procs, Solo(p), RetireChangedWorkload(p) PROVE HandoverStays(p)
  BY <1>10 DEF RetireChangedWorkload, At, Goto, TryStop, StopUnit, Wanted
<1>11. ASSUME NEW p \in Procs, Solo(p), StopLegacyWorkload(p) PROVE HandoverStays(p)
  BY <1>11 DEF StopLegacyWorkload, At, Goto, TryStop, AfterUnit, StopUnit, Wanted
<1>12. ASSUME NEW p \in Procs, Solo(p), RemoveLegacySources(p) PROVE HandoverStays(p)
  BY <1>12 DEF RemoveLegacySources, At, Goto, AfterUnit
<1>13. ASSUME NEW p \in Procs, Solo(p), SaveMetadata(p) PROVE HandoverStays(p)
  BY <1>13 DEF SaveMetadata, At, Goto
<1>14. ASSUME NEW p \in Procs, Solo(p), Ingress(p) PROVE HandoverStays(p)
  BY <1>14 DEF Ingress, At, Goto
<1>15. ASSUME NEW p \in Procs, Solo(p), DaemonReload(p) PROVE HandoverStays(p)
  BY <1>15 DEF DaemonReload, At, Goto, End, Reload
<1>16. ASSUME NEW p \in Procs, Solo(p), Enable(p) PROVE HandoverStays(p)
  BY <1>16 DEF Enable, At, Goto, Reload
<1>17. ASSUME NEW p \in Procs, Solo(p), RestartUnit(p) PROVE HandoverStays(p)
  BY <1>17 DEF RestartUnit, At, Goto, End, UnitUp, Definition
<1>18. ASSUME NEW p \in Procs, Solo(p), Verify(p) PROVE HandoverStays(p)
  BY <1>18 DEF Verify, At, End
<1>19. ASSUME NEW p \in Procs, Solo(p), StartUnit(p) PROVE HandoverStays(p)
  BY <1>19 DEF StartUnit, At, End, UnitUp, Definition
<1>20. ASSUME NEW p \in Procs, Solo(p), StopCommand(p) PROVE HandoverStays(p)
  BY <1>20 DEF StopCommand, At, End, StopUnit, Wanted
<1>21. ASSUME NEW p \in Procs, Solo(p), StartFails(p) PROVE HandoverStays(p)
  BY <1>21 DEF StartFails, At, End, UnitFails, Definition
<1>22. ASSUME NEW p \in Procs, Solo(p), DestroyStop(p) PROVE HandoverStays(p)
  BY <1>22 DEF DestroyStop, At, Goto, TryStop, StopUnit, Wanted
<1>23. ASSUME NEW p \in Procs, Solo(p), Disable(p) PROVE HandoverStays(p)
  BY <1>23 DEF Disable, At, Goto, Reload
<1>24. ASSUME NEW p \in Procs, Solo(p), RemoveUnit(p) PROVE HandoverStays(p)
  BY <1>24 DEF RemoveUnit, At, Goto
<1>25. ASSUME NEW p \in Procs, Solo(p), RemoveSources(p) PROVE HandoverStays(p)
  BY <1>25 DEF RemoveSources, At, Goto
<1>26. ASSUME NEW p \in Procs, Solo(p), TeardownWorkload(p) PROVE HandoverStays(p)
  BY <1>26 DEF TeardownWorkload, At, Goto
<1>27. ASSUME NEW p \in Procs, Solo(p), RemoveStorage(p) PROVE HandoverStays(p)
  BY <1>27 DEF RemoveStorage, At, Goto
<1>28. ASSUME NEW p \in Procs, Solo(p), DestroyReload(p) PROVE HandoverStays(p)
  BY <1>28 DEF DestroyReload, At, End, Reload
<1>29. ASSUME NEW p \in Procs, Solo(p), StepFails(p) PROVE HandoverStays(p)
  BY <1>29 DEF StepFails, MayFail, End
<1>30. ASSUME NEW p \in Procs, Solo(p), Crash(p) PROVE HandoverStays(p)
  BY <1>30 DEF Crash
<1>31. ASSUME Reboot PROVE HandoverInv'
  BY <1>31, IdleHandover DEF Reboot, HandoverInv
<1>33. ASSUME NEW p \in Procs, Solo(p), DestroyStepFails(p) PROVE HandoverStays(p)
  BY <1>33 DEF DestroyStepFails
<1>36. ASSUME NEW p \in Procs, Solo(p), SaveFails(p) PROVE HandoverStays(p)
  BY <1>36 DEF SaveFails
<1>32. CASE UNCHANGED vars
  BY <1>32 DEF vars, procVars, HandoverInv
<1> HIDE DEF Quiet, Reread, IInv, BaseInv, CommandOf, TypeOK, HostTypeOK, ProcTypeOK, Solo, HandoverOf,
             HandoverStays, FreshFor, Stale, OnDisk, ActiveInv, Definitions, hostVars,
             diskVars, systemdVars, podmanVars, localVars
<1>34. ASSUME NEW p \in Procs, Acts(p) PROVE HandoverStays(p)
  <2>1. Solo(p)
    BY <1>34, Busy
  <2>2. QED
    BY <1>34, <2>1, <1>1, <1>2, <1>3, <1>4, <1>5, <1>6, <1>7, <1>8, <1>9, <1>10, <1>11,
       <1>12, <1>13, <1>14, <1>15, <1>16, <1>17, <1>18, <1>19, <1>20, <1>21, <1>22,
       <1>23, <1>24, <1>25, <1>26, <1>27, <1>28, <1>29, <1>30, <1>33, <1>36
    DEF Acts, BeginNext, HandoverNext, ActivateNext, DestroyNext
<1>35. QED
  <2>1. ASSUME NEW p \in Procs, HandoverStays(p), \A q \in Procs \ {p} : pc[q] = "idle"
        PROVE  HandoverInv'
    BY <2>1, IdleHandover DEF HandoverStays, HandoverInv
  <2>2. QED
    BY <1>31, <1>32, <1>34, <2>1, Busy DEF Next, Acts

(* A stop takes down what runs under the loaded definition.                *)
LEMMA StopSupervised ==
  ASSUME HostTypeOK, Supervised, NEW a \in Apps, StopUnit(a), UNCHANGED diskVars
  PROVE  Supervised'
<1>1. CASE ~active[a]
  BY <1>1 DEF StopUnit, systemdVars, podmanVars, Supervised
<1>2. CASE active[a]
  <2> SUFFICES ASSUME NEW b \in Apps
               PROVE  stacks'[b] \subseteq stray'[b] \cup IF active'[b] THEN {loaded'[b]} ELSE {}
    BY DEF Supervised
  <2>1. CASE b = a
    <3>1. GoDown(a, loaded[a]) /\ ~active'[a]
      BY <1>2 DEF StopUnit, HostTypeOK
    <3>2. /\ stacks'[a] \subseteq (stacks[a] \ {loaded[a]}) \cup stray'[a]
          /\ stray[a] \ {loaded[a]} \subseteq stray'[a]
      BY <3>1, DownHost
    <3>3. stacks[a] \subseteq stray[a] \cup {loaded[a]}
      BY <1>2 DEF Supervised
    <3>4. QED
      BY <2>1, <3>1, <3>2, <3>3
  <2>2. CASE b # a
    <3>1. /\ stacks'[b] = stacks[b] /\ active'[b] = active[b] /\ loaded'[b] = loaded[b]
          /\ stray'[b] = stray[b]
      <4>1. GoDown(a, loaded[a])
        BY <1>2 DEF StopUnit
      <4>2. stacks'[b] = stacks[b] /\ stray'[b] = stray[b]
        BY <2>2, <4>1, DownHost
      <4>3. QED
        BY <1>2, <2>2, <4>2 DEF StopUnit, HostTypeOK
    <3>2. QED
      BY <3>1 DEF Supervised
  <2>3. QED
    BY <2>1, <2>2
<1>3. QED
  BY <1>1, <1>2

(* A start adds the workload of the definition it runs.                    *)
LEMMA UpSupervised ==
  ASSUME SupervisionAssumption, HostTypeOK, ActiveInv, Supervised, NEW a \in Apps, UnitUp(a)
  PROVE  Supervised'
<1> SUFFICES ASSUME NEW b \in Apps
             PROVE  stacks'[b] \subseteq stray'[b] \cup IF active'[b] THEN {loaded'[b]} ELSE {}
  BY DEF Supervised
<1>1. CASE b = a
  <2>1. /\ stacks'[a] = stacks[a] \cup {Definition(a)}
        /\ stray'[a] = stray[a] \ {Definition(a)}
        /\ loaded'[a] = Definition(a) /\ active'[a]
    BY DEF UnitUp, HostTypeOK
  <2>2. active[a] => Definition(a) = loaded[a]
    BY DEF Definition, ActiveInv, Definitions, SupervisionAssumption
  <2>3. stacks[a] \subseteq stray[a] \cup {Definition(a)}
    BY <2>2 DEF Supervised
  <2>4. QED
    BY <1>1, <2>1, <2>3
<1>2. CASE b # a
  <2>1. /\ stacks'[b] = stacks[b] /\ active'[b] = active[b] /\ loaded'[b] = loaded[b]
        /\ stray'[b] = stray[b]
    BY <1>2 DEF UnitUp, HostTypeOK
  <2>2. QED
    BY <2>1 DEF Supervised
<1>3. QED
  BY <1>1, <1>2

(* A start that fails leaves nothing of the definition it tried.           *)
LEMMA FailsSupervised ==
  ASSUME SupervisionAssumption, HostTypeOK, ActiveInv, Supervised, NEW a \in Apps,
         UnitFails(a), UNCHANGED diskVars
  PROVE  Supervised'
<1> SUFFICES ASSUME NEW b \in Apps
             PROVE  stacks'[b] \subseteq stray'[b] \cup IF active'[b] THEN {loaded'[b]} ELSE {}
  BY DEF Supervised
<1>1. CASE b = a
  <2>1. /\ stacks'[a] \subseteq (stacks[a] \ {Definition(a)}) \cup stray'[a]
        /\ stray[a] \ {Definition(a)} \subseteq stray'[a]
        /\ ~active'[a]
    BY FailsHost
  <2>2. active[a] => Definition(a) = loaded[a]
    BY DEF Definition, ActiveInv, Definitions, SupervisionAssumption
  <2>3. stacks[a] \subseteq stray[a] \cup {Definition(a)}
    BY <2>2 DEF Supervised
  <2>4. QED
    BY <1>1, <2>1, <2>3
<1>2. CASE b # a
  <2>1. /\ stacks'[b] = stacks[b] /\ active'[b] = active[b] /\ loaded'[b] = loaded[b]
        /\ stray'[b] = stray[b]
    BY <1>2 DEF UnitFails, HostTypeOK
  <2>2. QED
    BY <2>1 DEF Supervised
<1>3. QED
  BY <1>1, <1>2

(* A reload leaves an active unit its definition when it is the one on disk. *)
LEMMA ReloadSupervised ==
  ASSUME HostTypeOK, Supervised, NEW links, Reload(links), UNCHANGED <<active, stacks, stray>>,
         \A a \in Apps : active[a] => loaded[a] = OnDisk(a)
  PROVE  Supervised'
BY DEF Reload, HostTypeOK, Supervised

(* No reload takes the definition away from a workload that runs.          *)
LEMMA SupervisedStep ==
  ASSUME Quiet, IInv, [Next]_vars
  PROVE  Supervised'
<1> USE SupervisionAssumption
        DEF Quiet, Reread, IInv, BaseInv, CommandOf, TypeOK, HostTypeOK, ProcTypeOK, Solo, HandoverOf,
            FreshFor, Stale,
            OnDisk, Definition, ActiveInv, Definitions, Supervised,
            hostVars, diskVars, systemdVars, podmanVars, localVars
<1>1. ASSUME NEW p \in Procs, Solo(p), NEW a \in Apps, NEW t \in Types, BeginCreate(p, a, t)
      PROVE  Supervised'
  BY <1>1 DEF BeginCreate, Begin
<1>2. ASSUME NEW p \in Procs, Solo(p), NEW a \in Apps, NEW t \in Types, BeginDeploy(p, a, t)
      PROVE  Supervised'
  BY <1>2 DEF BeginDeploy, Begin
<1>3. ASSUME NEW p \in Procs, Solo(p), NEW a \in Apps, BeginStart(p, a) PROVE Supervised'
  BY <1>3 DEF BeginStart, Begin
<1>4. ASSUME NEW p \in Procs, Solo(p), NEW a \in Apps, BeginRestart(p, a) PROVE Supervised'
  BY <1>4 DEF BeginRestart, Begin
<1>5. ASSUME NEW p \in Procs, Solo(p), NEW a \in Apps, BeginStop(p, a) PROVE Supervised'
  BY <1>5 DEF BeginStop, Begin
<1>6. ASSUME NEW p \in Procs, Solo(p), NEW a \in Apps, BeginDestroy(p, a) PROVE Supervised'
  BY <1>6 DEF BeginDestroy, Begin
<1>7. ASSUME NEW p \in Procs, Solo(p), Build(p) PROVE Supervised'
  BY <1>7 DEF Build, At, Goto
<1>8. ASSUME NEW p \in Procs, Solo(p), Guard(p) PROVE Supervised'
  BY <1>8 DEF Guard, At
<1>9. ASSUME NEW p \in Procs, Solo(p), WriteUnit(p) PROVE Supervised'
  BY <1>9 DEF WriteUnit, At, Goto
<1>10. ASSUME NEW p \in Procs, Solo(p), RetireChangedWorkload(p) PROVE Supervised'
  <2>1. /\ app[p] \in Apps /\ UNCHANGED diskVars
        /\ StopUnit(app[p]) \/ UNCHANGED <<systemdVars, podmanVars>>
    BY <1>10 DEF RetireChangedWorkload, TryStop
  <2>2. QED
    BY <2>1, StopSupervised
<1>11. ASSUME NEW p \in Procs, Solo(p), StopLegacyWorkload(p) PROVE Supervised'
  <2>1. /\ app[p] \in Apps /\ UNCHANGED diskVars
        /\ StopUnit(app[p]) \/ UNCHANGED <<systemdVars, podmanVars>>
    BY <1>11 DEF StopLegacyWorkload, TryStop
  <2>2. QED
    BY <2>1, StopSupervised
<1>12. ASSUME NEW p \in Procs, Solo(p), RemoveLegacySources(p) PROVE Supervised'
  BY <1>12 DEF RemoveLegacySources, At, Goto, AfterUnit
<1>13. ASSUME NEW p \in Procs, Solo(p), SaveMetadata(p) PROVE Supervised'
  BY <1>13 DEF SaveMetadata, At, Goto
<1>14. ASSUME NEW p \in Procs, Solo(p), Ingress(p) PROVE Supervised'
  BY <1>14 DEF Ingress, At, Goto
<1>15. ASSUME NEW p \in Procs, Solo(p), DaemonReload(p) PROVE Supervised'
  <2>1. Reload(enabled) /\ UNCHANGED <<active, stacks, stray>>
    BY <1>15 DEF DaemonReload
  <2>2. ~active[app[p]] \/ loaded[app[p]] = OnDisk(app[p])
    BY <1>15 DEF DaemonReload, At
  <2>3. QED
    BY <1>15, <2>1, <2>2, ActiveFresh, ReloadSupervised
<1>16. ASSUME NEW p \in Procs, Solo(p), Enable(p) PROVE Supervised'
  <2>1. Reload(enabled') /\ UNCHANGED <<active, stacks, stray>> /\ ~Stale(p)
    BY <1>16 DEF Enable, At
  <2>2. QED
    BY <1>16, <2>1, ActiveFresh, ReloadSupervised
<1>17. ASSUME NEW p \in Procs, Solo(p), RestartUnit(p) PROVE Supervised'
  BY <1>17, UpSupervised DEF RestartUnit
<1>18. ASSUME NEW p \in Procs, Solo(p), Verify(p) PROVE Supervised'
  BY <1>18 DEF Verify, At, End
<1>19. ASSUME NEW p \in Procs, Solo(p), StartUnit(p) PROVE Supervised'
  <2>1. app[p] \in Apps /\ (UnitUp(app[p]) \/ UNCHANGED <<systemdVars, podmanVars>>)
    BY <1>19 DEF StartUnit
  <2>2. QED
    BY <2>1, UpSupervised
<1>20. ASSUME NEW p \in Procs, Solo(p), StopCommand(p) PROVE Supervised'
  BY <1>20, StopSupervised DEF StopCommand
<1>21. ASSUME NEW p \in Procs, Solo(p), StartFails(p) PROVE Supervised'
  BY <1>21, FailsSupervised DEF StartFails
<1>22. ASSUME NEW p \in Procs, Solo(p), DestroyStop(p) PROVE Supervised'
  <2>1. /\ app[p] \in Apps /\ UNCHANGED diskVars
        /\ StopUnit(app[p]) \/ UNCHANGED <<systemdVars, podmanVars>>
    BY <1>22 DEF DestroyStop, TryStop
  <2>2. QED
    BY <2>1, StopSupervised
<1>23. ASSUME NEW p \in Procs, Solo(p), Disable(p) PROVE Supervised'
  <2>1. Reload(enabled') /\ UNCHANGED <<active, stacks, stray>> /\ ~Stale(p)
    BY <1>23 DEF Disable, At
  <2>2. QED
    BY <1>23, <2>1, ActiveFresh, ReloadSupervised
<1>24. ASSUME NEW p \in Procs, Solo(p), RemoveUnit(p) PROVE Supervised'
  BY <1>24 DEF RemoveUnit, At, Goto
<1>25. ASSUME NEW p \in Procs, Solo(p), RemoveSources(p) PROVE Supervised'
  BY <1>25 DEF RemoveSources, At, Goto
<1>26. ASSUME NEW p \in Procs, Solo(p), TeardownWorkload(p) PROVE Supervised'
  <2>1. app[p] \in Apps /\ UNCHANGED <<active, loaded>>
    BY <1>26 DEF TeardownWorkload
  <2>2. CASE want[p] = Compose
    <3>1. GoDown(app[p], Compose) /\ ~active[app[p]]
      BY <1>26, <2>2 DEF TeardownWorkload, At
    <3>2. /\ stacks'[app[p]] \subseteq (stacks[app[p]] \ {Compose}) \cup stray'[app[p]]
          /\ stray[app[p]] \ {Compose} \subseteq stray'[app[p]]
          /\ \A a \in Apps \ {app[p]} : stacks'[a] = stacks[a] /\ stray'[a] = stray[a]
          /\ stacks'[app[p]] \subseteq stacks[app[p]]
      BY <2>1, <3>1, DownHost
    <3>3. stacks'[app[p]] \subseteq stray'[app[p]]
      BY <2>1, <3>1, <3>2
    <3>4. QED
      BY <2>1, <3>2, <3>3
  <2>3. CASE want[p] # Compose
    BY <1>26, <2>1, <2>3 DEF TeardownWorkload
  <2>4. QED
    BY <2>2, <2>3
<1>27. ASSUME NEW p \in Procs, Solo(p), RemoveStorage(p) PROVE Supervised'
  BY <1>27 DEF RemoveStorage, At, Goto
<1>28. ASSUME NEW p \in Procs, Solo(p), DestroyReload(p) PROVE Supervised'
  <2>1. /\ Reload(enabled) /\ UNCHANGED <<active, stacks, stray>>
        /\ app[p] \in Apps /\ ~active[app[p]]
    BY <1>28 DEF DestroyReload, At
  <2>2. QED
    BY <1>28, <2>1, ActiveFresh, ReloadSupervised
<1>29. ASSUME NEW p \in Procs, Solo(p), StepFails(p) PROVE Supervised'
  BY <1>29 DEF StepFails, MayFail, End
<1>30. ASSUME NEW p \in Procs, Solo(p), Crash(p) PROVE Supervised'
  BY <1>30 DEF Crash
<1>31. ASSUME Reboot PROVE Supervised'
  BY <1>31 DEF Reboot, Wanted
<1>33. ASSUME NEW p \in Procs, Solo(p), DestroyStepFails(p) PROVE Supervised'
  BY <1>33 DEF DestroyStepFails
<1>36. ASSUME NEW p \in Procs, Solo(p), SaveFails(p) PROVE Supervised'
  BY <1>36 DEF SaveFails
<1>32. CASE UNCHANGED vars
  BY <1>32 DEF vars, procVars
<1> HIDE DEF Quiet, Reread, IInv, BaseInv, CommandOf, TypeOK, HostTypeOK, ProcTypeOK, Solo, HandoverOf,
FreshFor,
             Stale, OnDisk, Definition, ActiveInv, Definitions, Supervised, hostVars,
             diskVars, systemdVars, podmanVars, localVars
<1>34. ASSUME NEW p \in Procs, Acts(p) PROVE Supervised'
  <2>1. Solo(p)
    BY <1>34, Busy
  <2>2. QED
    BY <1>34, <2>1, <1>1, <1>2, <1>3, <1>4, <1>5, <1>6, <1>7, <1>8, <1>9, <1>10, <1>11,
       <1>12, <1>13, <1>14, <1>15, <1>16, <1>17, <1>18, <1>19, <1>20, <1>21, <1>22,
       <1>23, <1>24, <1>25, <1>26, <1>27, <1>28, <1>29, <1>30, <1>33, <1>36
    DEF Acts, BeginNext, HandoverNext, ActivateNext, DestroyNext
<1>35. QED
  BY <1>31, <1>32, <1>34 DEF Next, Acts

(* The first state: what an older gare left runs under its own definition. *)
LEMMA InitIInv ==
  ASSUME Quiet, Init
  PROVE  IInv
<1> USE SupervisionAssumption DEF Definitions
<1>1. pc = [p \in Procs |-> "idle"]
  BY DEF Init
<1>2. PICK old \in SUBSET scene.apps, own \in SUBSET scene.apps :
        /\ old \cap own = {}
        /\ \E known \in SUBSET own : exists = [a \in Apps |-> a \in old \cup known]
        /\ legacy = [a \in Apps |-> a \in old]
        /\ unitFile = [a \in Apps |-> IF a \in own THEN "foreign" ELSE "absent"]
        /\ enabled = [a \in Apps |-> FALSE]
        /\ active = [a \in Apps |-> a \in old]
        /\ loaded = [a \in Apps |-> IF a \in old THEN "quadlet" ELSE "unread"]
        /\ stacks = [a \in Apps |-> IF a \in old THEN {"quadlet"} ELSE {}]
  BY DEF Init
<1>3. ActiveInv
  BY <1>2 DEF ActiveInv
<1>4. Supervised
  BY <1>2 DEF Supervised, OnDisk
<1>5. FreshInv
  BY <1>2 DEF FreshInv, OnDisk
<1>6. HandoverInv
  BY <1>1 DEF HandoverInv, HandoverOf
<1>7. QED
  BY <1>3, <1>4, <1>5, <1>6, InitBase DEF IInv

(* The inductive invariant holds in every quiet behaviour.                 *)
LEMMA Invariance == Spec => [](Quiet => IInv)
<1>1. Init => (Quiet => IInv)
  BY InitIInv
<1>2. BaseInv /\ (Quiet => IInv) /\ [Next]_vars => (Quiet => IInv)'
  <2> SUFFICES ASSUME BaseInv, Quiet => IInv, [Next]_vars, Quiet' PROVE IInv'
    OBVIOUS
  <2>1. BaseInv' /\ Quiet
    BY BaseStep DEF Quiet, Reread, Events
  <2>2. FreshInv'
    <3>1. BaseInv /\ Reread /\ FreshInv
      BY <2>1 DEF Quiet, IInv
    <3>2. ASSUME NEW p \in Procs, Acts(p) PROVE FreshInv'
      BY <2>1, <3>1, <3>2, Busy, FreshStep
    <3>3. CASE UNCHANGED vars
      BY <3>1, <3>3
      DEF FreshInv, Stale, OnDisk, vars, hostVars, diskVars, systemdVars, procVars, localVars
    <3>4. QED
      BY <3>2, <3>3, FreshReboot DEF Next, Acts
  <2>3. QED
    BY <2>1, <2>2, ActiveStep, HandoverStep, SupervisedStep DEF IInv
<1>3. QED
  BY <1>1, <1>2, Base, PTL DEF Spec

(* While one command runs at a time, no workload runs without the          *)
(* definition that tears it down: a command that changes an application's  *)
(* type, and does not fail at its ingress or a reload, retires what it     *)
(* replaces (applyUnitWrite, restartAppServices, runDestroyApp).           *)
THEOREM SupervisedHolds == Spec => [](Quiet => Supervised)
<1>1. IInv => Supervised
  BY DEF IInv
<1>2. QED
  BY <1>1, Invariance, PTL

(* With one command per application the same holds without Quiet's bounds, *)
(* commands interleaving, failing and dying at any step, as long as no     *)
(* type changes and no stop or removal fails: KeptSupervised, whole.       *)
THEOREM KeptSupervisedHolds == Exclusive => (Spec => []KeptSupervised)
<1> SUFFICES ASSUME Exclusive PROVE Spec => []KeptSupervised
  OBVIOUS
<1>1. ExclusiveInv /\ (Quiet => IInv) => KeptSupervised
  BY DEF ExclusiveInv, ConstantInv, ConstantHost, Supervised, IInv, KeptSupervised
<1>2. QED
  BY <1>1, ExclusiveInvariance, Invariance, PTL

(* The last step of a destroy finds everything else done.                  *)
LEMMA GoneStep ==
  ASSUME BaseInv, ExclusiveInv, Quiet => IInv, NEW p \in Procs, DestroyReload(p)
  PROVE  /\ Constant \/ Quiet => Gone(app[p])'
         /\ Constant => VolumesGone(app[p])'
<1> DEFINE a == app[p]
<1>1. /\ a \in Apps /\ app'[p] = a /\ pc[p] = "destroyReload"
      /\ Reload(enabled) /\ UNCHANGED <<diskVars, enabled, active, podmanVars>>
  BY DEF DestroyReload, At, End, BaseInv, TypeOK, ProcTypeOK
<1>2. ASSUME Constant \/ Quiet
      PROVE  /\ ~exists[a] /\ unitFile[a] = "absent" /\ ~enabled[a] /\ ~legacy[a] /\ ~active[a]
             /\ stacks[a] \subseteq stray[a]
  <2>1. CASE Constant
    <3>1. ConstantHost(a) /\ ConstantOf(p)
      BY <1>1, <2>1 DEF ExclusiveInv, ConstantInv, ConstantAt
    <3>2. QED
      BY <1>1, <3>1 DEF ConstantHost, ConstantOf, DestroySteps
  <2>2. CASE Quiet
    BY <1>1, <2>2 DEF IInv, HandoverInv, HandoverOf, Supervised
  <2>3. QED
    BY <1>2, <2>1, <2>2
<1>3. Constant => VolumesGone(a)
  BY <1>1 DEF ExclusiveInv, ConstantInv, ConstantAt, ConstantOf
<1>4. Constant \/ Quiet => loaded'[a] = "unread"
  BY <1>1, <1>2 DEF Reload
<1>5. QED
  BY <1>1, <1>2, <1>3, <1>4 DEF Gone, VolumesGone, diskVars, podmanVars

(* When a destroy is through nothing of the application is left on the     *)
(* host but what the provider would not tear down: with one command per    *)
(* application if types do not change and no stop or removal fails,        *)
(* however many commands failed or died on it before, and with one command *)
(* on the host also when types change (runDestroyApp).                     *)
THEOREM DestroyLeavesNothingHolds == Exclusive => (Spec => DestroyLeavesNothing)
<1> SUFFICES ASSUME Exclusive PROVE Spec => DestroyLeavesNothing
  OBVIOUS
<1>1. BaseInv /\ ExclusiveInv /\ (Quiet => IInv) /\ [Next]_vars =>
        [\A p \in Procs : DestroyReload(p) =>
            /\ Constant \/ Quiet => Gone(app[p])'
            /\ Constant => VolumesGone(app[p])']_vars
  BY GoneStep
<1>2. QED
  BY <1>1, Base, ExclusiveInvariance, Invariance, PTL DEF Spec, DestroyLeavesNothing
=============================================================================
