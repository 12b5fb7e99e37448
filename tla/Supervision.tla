---------------------------- MODULE Supervision ----------------------------
(***************************************************************************)
(* How gare commands hand an application's podman workload to systemd.     *)
(* Each process runs one command at a time (create, deploy, start, stop,   *)
(* restart, destroy), one action per step another process can see.  The    *)
(* unit file on disk, the definition systemd loaded, and the workloads     *)
(* podman really runs are three different things here, as they are on the  *)
(* host: systemctl works on the loaded definition, which only              *)
(* daemon-reload (also part of enable and disable) brings up to date, for  *)
(* every application at once.                                              *)
(*                                                                         *)
(* systemd and podman are external.  A definition is named by its workload *)
(* type; "quadlet" is the one the Podman generator derives from the        *)
(* sources an older gare left.                                             *)
(***************************************************************************)
CONSTANTS
  Procs,      \* gare processes and deploy goroutines of the daemon
  Apps,       \* application names
  Types,      \* workload types
  Compose,    \* the type whose destroy removes the stack and its volumes
  Exclusive,  \* no two processes work on one application
  Scenes      \* the hosts a behaviour may take place on

AllEvents == {"retype",   \* gare.yml changes the workload type
              "legacy",   \* an older gare left Quadlet sources
              "ingress",  \* activateIngress returns an error
              "reload",   \* systemctl daemon-reload fails
              "stop",     \* systemctl stop fails and leaves the unit as it is
              "down",     \* a teardown fails or misses what the clone no longer names
              "save",     \* a deploy fails to save config.json, and goes on
              "create",   \* a create fails to save config.json, and ends
              "remove",   \* a removal or another step of a destroy fails
              "crash",    \* a process dies between two steps
              "reboot"}   \* the host restarts

(* A scene: the processes that run commands, the applications and types    *)
(* they work with, and what may happen.                                    *)
ASSUME SupervisionAssumption ==
  /\ Types \cap {"absent", "foreign", "quadlet", "unread", "none"} = {}
  /\ Compose \in Types
  /\ Exclusive \in BOOLEAN
  /\ Scenes \subseteq [procs: SUBSET Procs, apps: SUBSET Apps,
                      types: SUBSET Types, events: SUBSET AllEvents]

VARIABLES
  scene,    \* the scene of this behaviour, which never changes
  exists,   \* exists[a]: config.json is there
  cfgType,  \* cfgType[a]: the workload type config.json names (Compose if none)
  unitFile, \* unitFile[a]: the type of the unit file, "absent" or "foreign"
  legacy,   \* legacy[a]: Quadlet sources are there
  enabled,  \* enabled[a]: the default.target.wants link is there
  loaded,   \* loaded[a]: the definition systemd holds in memory, or "unread"
  active,   \* active[a]: systemd reports the unit active
  stacks,   \* stacks[a]: the workloads podman runs for a, by definition
  volumes,  \* volumes[a]: named volumes of the compose project exist
  stray,    \* stray[a]: the definitions whose last teardown left something
  pc,       \* pc[p]: the next step of process p
  op,       \* op[p]: the command p runs
  app,      \* app[p]: the application it works on
  want,     \* want[p]: the type in the configuration p loaded
  prev,     \* prev[p]: the description guardUnitFile found
  before    \* before[p]: a's unit file, sources and state when p began

diskVars    == <<exists, cfgType, unitFile, legacy>>
systemdVars == <<enabled, loaded, active>>
podmanVars  == <<stacks, volumes, stray>>
hostVars    == <<diskVars, systemdVars, podmanVars>>
localVars   == <<op, app, want, prev, before>>
procVars    == <<pc, localVars>>
vars        == <<scene, hostVars, procVars>>

Definitions == Types \cup {"foreign", "quadlet"}
DeploySteps == {"build", "guard", "write", "retire", "legacyStop", "legacyRemove",
                "ingress", "reload", "enable", "restart", "verify"}
DestroySteps == {"destroyStop", "disable", "removeUnit", "removeSources",
                 "teardown", "removeStorage", "destroyReload"}

HostTypeOK ==
  /\ exists \in [Apps -> BOOLEAN] /\ legacy \in [Apps -> BOOLEAN]
  /\ enabled \in [Apps -> BOOLEAN] /\ active \in [Apps -> BOOLEAN]
  /\ volumes \in [Apps -> BOOLEAN]
  /\ cfgType \in [Apps -> Types]
  /\ unitFile \in [Apps -> Types \cup {"absent", "foreign"}]
  /\ loaded \in [Apps -> Definitions \cup {"absent", "unread"}]
  /\ stacks \in [Apps -> SUBSET Definitions]
  /\ stray \in [Apps -> SUBSET Definitions]

ProcTypeOK ==
  /\ pc \in [Procs -> DeploySteps \cup DestroySteps \cup {"idle", "save", "start", "stop"}]
  /\ op \in [Procs -> {"none", "create", "deploy", "start", "stop", "restart", "destroy"}]
  /\ app \in [Procs -> Apps]
  /\ want \in [Procs -> Types \cup {"unknown"}]
  /\ prev \in [Procs -> Types \cup {"none"}]
  /\ before \in [Procs -> [file: Types \cup {"absent", "foreign"},
                           legacy: BOOLEAN, active: BOOLEAN]]

TypeOK == scene \in Scenes /\ HostTypeOK /\ ProcTypeOK

Events == scene.events

NothingFound == [file |-> "absent", legacy |-> FALSE, active |-> FALSE]

(* An application starts out unknown to gare, or left by an older gare as  *)
(* a running Quadlet workload, or its unit name holds a file of the        *)
(* operator's own, whether gare knows the application or not.              *)
Init ==
  /\ scene \in Scenes
  /\ \E old \in IF "legacy" \in Events THEN SUBSET scene.apps ELSE {{}},
        own \in SUBSET scene.apps :
       /\ old \cap own = {}
       /\ \E known \in SUBSET own : exists = [a \in Apps |-> a \in old \cup known]
       /\ legacy = [a \in Apps |-> a \in old]
       /\ unitFile = [a \in Apps |-> IF a \in own THEN "foreign" ELSE "absent"]
       /\ enabled = [a \in Apps |-> FALSE]
       /\ active = [a \in Apps |-> a \in old]
       /\ loaded = [a \in Apps |-> IF a \in old THEN "quadlet" ELSE "unread"]
       /\ stacks = [a \in Apps |-> IF a \in old THEN {"quadlet"} ELSE {}]
  /\ cfgType \in {f \in [Apps -> Types] :
                    \A a \in Apps : IF exists[a] THEN f[a] \in scene.types ELSE f[a] = Compose}
  /\ volumes = [a \in Apps |-> FALSE] /\ stray = [a \in Apps |-> {}]
  /\ pc = [p \in Procs |-> "idle"] /\ op = [p \in Procs |-> "none"]
  /\ app \in [Procs -> Apps] /\ \A p \in Procs : app[p] \in scene.apps
  /\ want = [p \in Procs |-> "unknown"] /\ prev = [p \in Procs |-> "none"]
  /\ before = [p \in Procs |-> NothingFound]

-----------------------------------------------------------------------------
(* systemd and podman.                                                     *)

(* The definition on disk: a unit file wins over a generated one.          *)
OnDisk(a) == IF unitFile[a] # "absent" THEN unitFile[a]
             ELSE IF legacy[a] THEN "quadlet" ELSE "absent"

(* What a systemctl verb on a works with: the definition in memory, or,    *)
(* for a unit nothing references, the one it reads now.                    *)
Definition(a) == IF loaded[a] = "unread" THEN OnDisk(a) ELSE loaded[a]

(* A target wants the unit: enable linked it, or the generator did.        *)
Wanted(a) == enabled[a] \/ legacy[a]

(* daemon-reload reads every unit again; a unit that neither runs nor is   *)
(* wanted by a target is dropped from memory.  links: the enable links.    *)
Reload(links) == loaded' = [a \in Apps |-> IF active[a] \/ links[a] \/ legacy[a]
                                           THEN OnDisk(a) ELSE "unread"]

(* The workload of definition d is told to go down.  The provider may fail *)
(* and, reading the compose file of the clone as it is now, may not know   *)
(* all it once started; systemd ignores either (the "-" of the ExecStop).  *)
Remains(a) == stacks[a] \cup IF volumes[a] THEN {Compose} ELSE {}
GoDown(a, d) ==
  \E missed \in SUBSET (IF "down" \in Events THEN {d} \cap Remains(a) ELSE {}) :
    /\ stacks' = [stacks EXCEPT ![a] = @ \ ({d} \ missed)]
    /\ stray' = [stray EXCEPT ![a] = (@ \ {d}) \cup missed]

(* ExecStop and ExecStopPost of the loaded definition tear its own         *)
(* workload down; stopping a unit that does not run does nothing.          *)
StopUnit(a) ==
  IF active[a]
  THEN /\ active' = [active EXCEPT ![a] = FALSE]
       /\ GoDown(a, loaded[a])
       /\ loaded' = [loaded EXCEPT ![a] = IF Wanted(a) THEN @ ELSE "unread"]
       /\ UNCHANGED <<enabled, volumes>>
  ELSE UNCHANGED <<systemdVars, podmanVars>>

(* A stop whose error gare only warns about.                               *)
TryStop(a) == \/ StopUnit(a)
              \/ "stop" \in Events /\ UNCHANGED <<systemdVars, podmanVars>>

(* The workload of the definition comes up.                                *)
UnitUp(a) == /\ Definition(a) # "absent"
             /\ loaded' = [loaded EXCEPT ![a] = Definition(a)]
             /\ active' = [active EXCEPT ![a] = TRUE]
             /\ stacks' = [stacks EXCEPT ![a] = @ \cup {Definition(a)}]
             /\ stray' = [stray EXCEPT ![a] = @ \ {Definition(a)}]
             /\ volumes' = [volumes EXCEPT ![a] = @ \/ Definition(a) = Compose]
             /\ UNCHANGED enabled

(* It does not come up: ExecStopPost removes what was started of it, but   *)
(* for volumes, and for what a teardown that fails leaves.                 *)
UnitFails(a) ==
  /\ loaded' = [loaded EXCEPT ![a] = Definition(a)]
  /\ active' = [active EXCEPT ![a] = FALSE]
  /\ \E missed \in SUBSET (IF "down" \in Events THEN {Definition(a)} \cap Definitions ELSE {}) :
       /\ stacks' = [stacks EXCEPT ![a] = (@ \ {Definition(a)}) \cup missed]
       /\ stray' = [stray EXCEPT ![a] = (@ \ {Definition(a)}) \cup missed]
  /\ \E made \in BOOLEAN :
       volumes' = [volumes EXCEPT ![a] = @ \/ (made /\ Definition(a) = Compose)]
  /\ UNCHANGED enabled

-----------------------------------------------------------------------------
(* Processes.                                                              *)

Free(a) == Exclusive => \A q \in Procs : pc[q] # "idle" => app[q] # a

Begin(p, a, command, first, type) ==
  /\ pc[p] = "idle" /\ Free(a)
  /\ pc' = [pc EXCEPT ![p] = first]
  /\ op' = [op EXCEPT ![p] = command]
  /\ app' = [app EXCEPT ![p] = a]
  /\ want' = [want EXCEPT ![p] = type]
  /\ prev' = [prev EXCEPT ![p] = "none"]
  /\ before' = [before EXCEPT ![p] = [file |-> unitFile[a], legacy |-> legacy[a],
                                      active |-> active[a]]]

At(p, step) == pc[p] = step
Goto(p, step) == pc' = [pc EXCEPT ![p] = step] /\ UNCHANGED localVars
End(p) == /\ pc' = [pc EXCEPT ![p] = "idle"]
          /\ op' = [op EXCEPT ![p] = "none"]
          /\ want' = [want EXCEPT ![p] = "unknown"]
          /\ prev' = [prev EXCEPT ![p] = "none"]
          /\ before' = [before EXCEPT ![p] = NothingFound]
          /\ UNCHANGED app

(* runCreateApp: no config.json yet, then clone.                           *)
BeginCreate(p, a, t) == /\ ~exists[a]
                        /\ Begin(p, a, "create", "guard", t)
                        /\ UNCHANGED hostVars

(* RunDeploy up to syncDeployConfig: the type gare.yml declares is saved   *)
(* into config.json before anything is built; a save that fails is only    *)
(* warned about, and the record on disk may be the former one.             *)
BeginDeploy(p, a, t) == /\ exists[a]
                        /\ t # cfgType[a] => "retype" \in Events
                        /\ Begin(p, a, "deploy", "build", t)
                        /\ \/ cfgType' = [cfgType EXCEPT ![a] = t]
                           \/ "save" \in Events /\ UNCHANGED cfgType
                        /\ UNCHANGED <<exists, unitFile, legacy, systemdVars, podmanVars>>

BeginStart(p, a) == /\ exists[a]
                    /\ Begin(p, a, "start", "ingress", cfgType[a])
                    /\ UNCHANGED hostVars
BeginRestart(p, a) == /\ exists[a]
                      /\ Begin(p, a, "restart", "ingress", cfgType[a])
                      /\ UNCHANGED hostVars
BeginStop(p, a) == /\ exists[a]
                   /\ Begin(p, a, "stop", "stop", cfgType[a])
                   /\ UNCHANGED hostVars

(* destroy resolves the type first, and goes on without one.               *)
BeginDestroy(p, a) ==
  /\ Begin(p, a, "destroy", "destroyStop", IF exists[a] THEN cfgType[a] ELSE "unknown")
  /\ UNCHANGED hostVars

Build(p) == At(p, "build") /\ Goto(p, "guard") /\ UNCHANGED hostVars

(* guardUnitFile: a unit file gare did not write is an error.              *)
Guard(p) == /\ At(p, "guard")
            /\ unitFile[app[p]] # "foreign"
            /\ prev' = [prev EXCEPT ![p] = IF unitFile[app[p]] = "absent" THEN "none"
                                           ELSE unitFile[app[p]]]
            /\ pc' = [pc EXCEPT ![p] = "write"]
            /\ UNCHANGED <<op, app, want, before, hostVars>>

(* applyUnitWrite: write, ...                                              *)
WriteUnit(p) == /\ At(p, "write")
                /\ unitFile' = [unitFile EXCEPT ![app[p]] = want[p]]
                /\ Goto(p, "retire")
                /\ UNCHANGED <<exists, cfgType, legacy, systemdVars, podmanVars>>

(* Mutant of RetireChangedWorkload: a stop every time.                     *)
RetireAlways(p) == /\ At(p, "retire")
                   /\ TryStop(app[p])
                   /\ Goto(p, "legacyStop")
                   /\ UNCHANGED diskVars

(* ... stop a workload of another type, ...                                *)
RetireChangedWorkload(p) ==
  /\ At(p, "retire")
  /\ IF prev[p] \notin {"none", want[p]}
     THEN TryStop(app[p]) ELSE UNCHANGED <<systemdVars, podmanVars>>
  /\ Goto(p, "legacyStop")
  /\ UNCHANGED diskVars

(* ... and retire the Quadlet sources.                                     *)
AfterUnit(p) == IF op[p] = "create" THEN "save" ELSE "ingress"

StopLegacyWorkload(p) ==
  /\ At(p, "legacyStop")
  /\ IF legacy[app[p]]
     THEN TryStop(app[p]) /\ Goto(p, "legacyRemove")
     ELSE UNCHANGED <<systemdVars, podmanVars>> /\ Goto(p, AfterUnit(p))
  /\ UNCHANGED diskVars

(* Mutant of RemoveLegacySources: the sources stay beside the unit.        *)
KeepLegacySources(p) == /\ At(p, "legacyRemove")
                        /\ Goto(p, AfterUnit(p))
                        /\ UNCHANGED hostVars

RemoveLegacySources(p) ==
  /\ At(p, "legacyRemove")
  /\ legacy' = [legacy EXCEPT ![app[p]] = FALSE]
  /\ Goto(p, AfterUnit(p))
  /\ UNCHANGED <<exists, cfgType, unitFile, systemdVars, podmanVars>>

(* saveAppMetadata, the last artifact of a create.                         *)
SaveMetadata(p) == /\ At(p, "save")
                   /\ exists' = [exists EXCEPT ![app[p]] = TRUE]
                   /\ cfgType' = [cfgType EXCEPT ![app[p]] = want[p]]
                   /\ Goto(p, "reload")
                   /\ UNCHANGED <<unitFile, legacy, systemdVars, podmanVars>>

(* It fails, and the create with it; the record may have landed.           *)
SaveFails(p) == /\ At(p, "save") /\ "create" \in Events
                /\ \/ /\ exists' = [exists EXCEPT ![app[p]] = TRUE]
                      /\ cfgType' = [cfgType EXCEPT ![app[p]] = want[p]]
                   \/ UNCHANGED <<exists, cfgType>>
                /\ End(p)
                /\ UNCHANGED <<unitFile, legacy, systemdVars, podmanVars>>

(* Mutant of Ingress: the deploy restarts the unit without a reload.       *)
RestartAsLoaded(p) == /\ At(p, "ingress")
                      /\ Goto(p, IF op[p] = "deploy" THEN "restart" ELSE op[p])
                      /\ UNCHANGED hostVars

(* activateIngress succeeds, or only warns.                                *)
Ingress(p) == /\ At(p, "ingress")
              /\ Goto(p, IF op[p] = "deploy" THEN "reload" ELSE op[p])
              /\ UNCHANGED hostVars

(* DaemonReload of restartAppServices, or the last step of a create.       *)
DaemonReload(p) == /\ At(p, "reload")
                   /\ Reload(enabled)
                   /\ IF op[p] = "create" THEN End(p) ELSE Goto(p, "enable")
                   /\ UNCHANGED <<diskVars, enabled, active, podmanVars>>

(* systemctl enable links the unit and reloads.                            *)
Enable(p) == /\ At(p, "enable")
             /\ unitFile[app[p]] # "absent"
             /\ enabled' = [enabled EXCEPT ![app[p]] = TRUE]
             /\ Reload(enabled')
             /\ Goto(p, "restart")
             /\ UNCHANGED <<diskVars, active, podmanVars>>

(* systemctl restart: the loaded definition goes down and up again.        *)
RestartUnit(p) == /\ At(p, "restart")
                  /\ UnitUp(app[p])
                  /\ IF op[p] = "deploy" THEN Goto(p, "verify") ELSE End(p)
                  /\ UNCHANGED diskVars

(* verifyHealth passes; pruning cannot fail a deploy.                      *)
Verify(p) == At(p, "verify") /\ End(p) /\ UNCHANGED hostVars

(* systemctl start, a no-op on a running unit.                             *)
StartUnit(p) == /\ At(p, "start")
                /\ IF active[app[p]] THEN UNCHANGED <<systemdVars, podmanVars>>
                                     ELSE UnitUp(app[p])
                /\ End(p)
                /\ UNCHANGED diskVars

StopCommand(p) == /\ At(p, "stop")
                  /\ StopUnit(app[p])
                  /\ End(p)
                  /\ UNCHANGED diskVars

(* A start or restart that systemd reports as failed.                      *)
StartFails(p) == /\ pc[p] \in {"start", "restart"}
                 /\ pc[p] = "start" => ~active[app[p]]
                 /\ UnitFails(app[p])
                 /\ End(p)
                 /\ UNCHANGED diskVars

-----------------------------------------------------------------------------
(* destroy, where every step is best effort.                               *)

(* Mutant of DestroyStop: the stop is forgotten.                           *)
DestroyWithoutStop(p) == At(p, "destroyStop") /\ Goto(p, "disable") /\ UNCHANGED hostVars

DestroyStop(p) == /\ At(p, "destroyStop")
                  /\ TryStop(app[p])
                  /\ Goto(p, "disable")
                  /\ UNCHANGED diskVars

Disable(p) == /\ At(p, "disable")
              /\ enabled' = [enabled EXCEPT ![app[p]] = FALSE]
              /\ Reload(enabled')
              /\ Goto(p, "removeUnit")
              /\ UNCHANGED <<diskVars, active, podmanVars>>

RemoveUnit(p) == /\ At(p, "removeUnit")
                 /\ unitFile' = [unitFile EXCEPT ![app[p]] = "absent"]
                 /\ enabled' = [enabled EXCEPT ![app[p]] = FALSE]
                 /\ Goto(p, "removeSources")
                 /\ UNCHANGED <<exists, cfgType, legacy, loaded, active, podmanVars>>

RemoveSources(p) == /\ At(p, "removeSources")
                    /\ legacy' = [legacy EXCEPT ![app[p]] = FALSE]
                    /\ Goto(p, "teardown")
                    /\ UNCHANGED <<exists, cfgType, unitFile, systemdVars, podmanVars>>

(* Mutant of TeardownWorkload: the down of the stack keeps its volumes.    *)
TeardownKeepingVolumes(p) ==
  /\ At(p, "teardown")
  /\ IF want[p] = Compose THEN GoDown(app[p], Compose) ELSE UNCHANGED <<stacks, stray>>
  /\ Goto(p, "removeStorage")
  /\ UNCHANGED <<diskVars, systemdVars, volumes>>

(* Only a compose stack is torn down by destroy itself, with the volumes   *)
(* the compose file names.                                                 *)
TeardownWorkload(p) ==
  /\ At(p, "teardown")
  /\ IF want[p] = Compose
     THEN /\ GoDown(app[p], Compose)
          /\ volumes' = [volumes EXCEPT ![app[p]] = @ /\ Compose \in stray'[app[p]]]
     ELSE UNCHANGED podmanVars
  /\ Goto(p, "removeStorage")
  /\ UNCHANGED <<diskVars, systemdVars>>

RemoveStorage(p) == /\ At(p, "removeStorage")
                    /\ exists' = [exists EXCEPT ![app[p]] = FALSE]
                    /\ cfgType' = [cfgType EXCEPT ![app[p]] = Compose]
                    /\ Goto(p, "destroyReload")
                    /\ UNCHANGED <<unitFile, legacy, systemdVars, podmanVars>>

DestroyReload(p) == /\ At(p, "destroyReload")
                    /\ Reload(enabled)
                    /\ End(p)
                    /\ UNCHANGED <<diskVars, enabled, active, podmanVars>>

-----------------------------------------------------------------------------
(* Errors, crashes and reboots.                                            *)

(* A step that returns an error and changes nothing: the build, the guard, *)
(* the write, the ingress, a reload, the enable or the health check.       *)
MayFail(p) == \/ pc[p] \in {"build", "guard", "write", "enable", "verify"}
              \/ pc[p] = "ingress" /\ "ingress" \in Events
              \/ pc[p] = "reload" /\ "reload" \in Events
              \/ pc[p] = "stop" /\ "stop" \in Events
              \/ pc[p] = "legacyRemove" /\ "remove" \in Events

(* The command ends there; a create without its reload only warns.         *)
StepFails(p) == /\ MayFail(p)
                /\ End(p)
                /\ UNCHANGED hostVars

(* bestEffort: a step of a destroy fails, and the destroy goes on.         *)
AfterFailed == [disable |-> "removeUnit", removeUnit |-> "removeSources",
                removeSources |-> "teardown", teardown |-> "removeStorage",
                removeStorage |-> "destroyReload"]

DestroyStepFails(p) ==
  /\ "remove" \in Events
  /\ \/ pc[p] \in DOMAIN AfterFailed /\ Goto(p, AfterFailed[pc[p]])
     \/ At(p, "destroyReload") /\ End(p)
  /\ UNCHANGED hostVars

Crash(p) == /\ "crash" \in Events /\ pc[p] # "idle"
            /\ End(p)
            /\ UNCHANGED hostVars

(* Every process and workload is gone; the user manager starts what a      *)
(* target wants from the files it finds.                                   *)
Reboot ==
  /\ "reboot" \in Events
  /\ LET wanted == {a \in Apps : Wanted(a)} IN
     /\ loaded' = [a \in Apps |-> IF a \in wanted THEN OnDisk(a) ELSE "unread"]
     /\ active' = [a \in Apps |-> a \in wanted]
     /\ stacks' = [a \in Apps |-> IF a \in wanted THEN {OnDisk(a)} ELSE {}]
     /\ stray' = [a \in Apps |-> stray[a] \ stacks'[a]]
     /\ volumes' = [a \in Apps |-> volumes[a] \/ (a \in wanted /\ OnDisk(a) = Compose)]
  /\ pc' = [p \in Procs |-> "idle"] /\ op' = [p \in Procs |-> "none"]
  /\ want' = [p \in Procs |-> "unknown"] /\ prev' = [p \in Procs |-> "none"]
  /\ before' = [p \in Procs |-> NothingFound]
  /\ UNCHANGED <<diskVars, enabled, app>>

-----------------------------------------------------------------------------
BeginNext(p) ==
  p \in scene.procs /\ \E a \in Apps : a \in scene.apps /\
    \/ \E t \in Types : t \in scene.types /\ (BeginCreate(p, a, t) \/ BeginDeploy(p, a, t))
    \/ BeginStart(p, a) \/ BeginRestart(p, a)
    \/ BeginStop(p, a) \/ BeginDestroy(p, a)

HandoverNext(p) == \/ Build(p) \/ Guard(p) \/ WriteUnit(p) \/ RetireChangedWorkload(p)
                   \/ StopLegacyWorkload(p) \/ RemoveLegacySources(p) \/ SaveMetadata(p)
                   \/ SaveFails(p)

ActivateNext(p) == \/ Ingress(p) \/ DaemonReload(p) \/ Enable(p) \/ RestartUnit(p)
                   \/ Verify(p) \/ StartUnit(p) \/ StopCommand(p) \/ StartFails(p)

DestroyNext(p) == \/ DestroyStop(p) \/ Disable(p) \/ RemoveUnit(p) \/ RemoveSources(p)
                  \/ TeardownWorkload(p) \/ RemoveStorage(p) \/ DestroyReload(p)

Next == /\ \/ \E p \in Procs : \/ BeginNext(p) \/ HandoverNext(p) \/ ActivateNext(p)
                                \/ DestroyNext(p) \/ StepFails(p) \/ Crash(p)
                                \/ DestroyStepFails(p)
           \/ Reboot
        /\ UNCHANGED scene

Spec == Init /\ [][Next]_vars
-----------------------------------------------------------------------------
(* Properties.                                                             *)

(* Every workload podman runs is the one systemd would tear down: the unit *)
(* is active under the definition that started it; but for what is left of *)
(* a workload that was told to go down (stray).  A type change retires the *)
(* workload it replaces instead of leaving it running (applyUnitWrite).    *)
Supervised ==
  \A a \in Apps : stacks[a] \subseteq stray[a] \cup IF active[a] THEN {loaded[a]} ELSE {}

(* No type changes, and no stop or removal fails.                          *)
Constant == Events \cap {"retype", "legacy", "stop", "remove"} = {}

(* Nothing comes between the write of a unit file and the reload.          *)
Reread == Events \cap {"ingress", "reload", "remove", "create", "crash"} = {}

(* Nor does a stop fail, and the host has one command at a time.           *)
Quiet == /\ \A p, q \in scene.procs : p = q
         /\ Reread /\ "stop" \notin Events

(* Supervised, in the circumstances in which the code keeps it.            *)
KeptSupervised == Constant \/ Quiet => Supervised

(* A deploy that reaches its health check runs the configured type, under  *)
(* the unit file it wrote, enabled, with no Quadlet source left, whatever  *)
(* earlier commands left half done (activateApp, restartAppServices); the  *)
(* type is also the recorded one unless config.json could not be saved.    *)
DeployConverges ==
  \A p \in Procs : At(p, "verify") =>
    LET a == app[p] IN /\ active[a] /\ enabled[a] /\ ~legacy[a]
                       /\ loaded[a] = want[p] /\ unitFile[a] = want[p]
                       /\ want[p] \in stacks[a]
                       /\ cfgType[a] = want[p] \/ "save" \in Events

(* Until it restarts the unit, a deploy leaves the workload running as it  *)
(* found it, unless it wrote a unit of another type or retires a Quadlet   *)
(* workload; so a failed build, guard or write never stops a workload.     *)
Undisturbed ==
  \A p \in Procs :
    op[p] = "deploy" /\ \/ pc[p] \in {"build", "guard", "write"}
                        \/ /\ pc[p] \in DeploySteps \ {"verify"}
                           /\ before[p].file = want[p] /\ ~before[p].legacy
      => active[app[p]] = before[p].active

(* What a start or restart brings up is the definition on disk, although   *)
(* only the deploys reload: none of the commands that change the type,     *)
(* interleave, or fail to stop a workload leaves an older one loaded for a *)
(* later command to start (runStartApp, runRestartApp).                    *)
StartsUnitOnDisk ==
  [][\A p \in Procs :
       (Constant \/ Reread) /\ (StartUnit(p) \/ RestartUnit(p))
         => (loaded[app[p]] = OnDisk(app[p]))']_vars

(* A destroy that is through leaves no unit, link, source, loaded          *)
(* definition or workload of the application, whatever the other commands  *)
(* on the host did meanwhile ("completely destroyed"), but for what the    *)
(* provider would not tear down; and no volume, if the type never changed. *)
Gone(a) == /\ ~exists[a] /\ unitFile[a] = "absent" /\ ~enabled[a] /\ ~legacy[a]
           /\ loaded[a] = "unread" /\ ~active[a] /\ stacks[a] \subseteq stray[a]
VolumesGone(a) == volumes[a] => Compose \in stray[a]

DestroyLeavesNothing ==
  [][\A p \in Procs : DestroyReload(p) =>
       /\ Constant \/ Quiet => Gone(app[p])'
       /\ Constant => VolumesGone(app[p])']_vars
=============================================================================
