------------------------------- MODULE AppEnv -------------------------------
(***************************************************************************)
(* The environment variables of one application, and the workload that was *)
(* started with them.  A container reads them from its pod manifest, which *)
(* a deploy replaces by the repository's own when it ships one; a static   *)
(* or compose workload reads them from the application env file.           *)
(*                                                                         *)
(* Both are changed by reading the whole file, editing it in memory and    *)
(* writing it back, so the read and the write are steps of their own.      *)
(* systemd is external: a start reads the store of the loaded definition,  *)
(* and the unit is active some time after.  The values are of one line;    *)
(* what podman and systemd make of a line of the env file is theirs.       *)
(***************************************************************************)
EXTENDS Naturals

CONSTANTS
  Procs,      \* gare processes and deploy goroutines of the daemon
  Keys,       \* variable names, numbered in the order the env file lists them
  Values,     \* values an operator or a repository may give a variable
  Clean,      \* Clean[v]: what the parser makes of a value written as v
  Open,       \* the values that begin with a quote nothing closes
  None,       \* no such variable
  Gone,       \* to be unset
  NoFile,     \* the file does not exist
  Broken,     \* a manifest in which no container is found
  Down,       \* no workload
  Types,      \* the workload types in use
  Shipped,    \* the manifests a revision of the repository may ship
  Events      \* what may go wrong, a subset of AllEvents

AllEvents == {"retype",   \* gare.yml asks for another workload type
              "fail",     \* pull, build, unit write or ingress fails
              "write",    \* the write of a manifest or env file fails
              "start",    \* the workload does not come up
              "respawn",  \* systemd restarts a workload beside a command
              "kill"}     \* a gare process is killed

Envs == [Keys -> Values \cup {None}]
Empty == [k \in Keys |-> None]
Stores == {"manifest", "file"}
Changes == [Keys -> Values \cup {Gone, None}]  \* None: not named by the command

ASSUME AppEnvAssumption ==
  /\ Keys \subseteq Nat /\ Types \subseteq {"container", "static", "compose"} /\ Types # {}
  /\ Clean \in [Values -> Values] /\ Open \subseteq Values
  /\ None \notin Values \cup {Gone} /\ Gone \notin Values
  /\ {NoFile, Broken} \cap Envs = {} /\ NoFile # Broken
  /\ Down \notin [store: Stores, env: Envs]
  /\ Shipped \subseteq Envs \cup {NoFile, Broken}
  /\ Events \subseteq AllEvents

VARIABLES
  clone,    \* the manifest in the checked out revision
  type,     \* the workload type in config.json
  store,    \* store[s]: the content of the pod manifest and of the env file
  unitFile, \* the workload type the unit file was written for
  loaded,   \* the one the definition systemd has loaded was written for
  status,   \* what systemctl is-active answers
  running,  \* the store the workload read when it started and what it found, or Down
  pc,       \* pc[p]: the next step of process p
  mine,     \* mine[p]: the workload type it works with
  arg,      \* arg[p]: the change its command line asks for
  doc,      \* doc[p]: the file it read
  kept,     \* kept[p]: the environment a deploy took from the manifest it replaces
  wanted,   \* history: wanted[s][k] is the last value set in s, Gone after an unset
  missed    \* history: since the last start a command ended before it could restart

unitVars  == <<unitFile, loaded, status, running>>
localVars == <<mine, arg, doc, kept>>
history == <<wanted, missed>>
vars == <<clone, type, store, unitVars, pc, localVars, history>>

Steps == {"idle", "pull", "prepare", "adopt", "restoreRead", "restore", "ports", "pin", "pinWrite",
          "unit", "activate", "verify", "envWrite", "envCheck", "bounce", "await"}

TypeOK ==
  /\ clone \in Shipped /\ type \in Types /\ unitFile \in Types /\ loaded \in Types
  /\ store \in [Stores -> Envs \cup {NoFile, Broken}]
  /\ status \in {"inactive", "activating", "active"}
  /\ running \in [store: Stores, env: Envs] \cup {Down}
  /\ status = "inactive" <=> running = Down
  /\ pc \in [Procs -> Steps] /\ mine \in [Procs -> Types] /\ arg \in [Procs -> Changes]
  /\ doc \in [Procs -> Envs \cup {NoFile, Broken}] /\ kept \in [Procs -> Envs]
  /\ wanted \in [Stores -> Changes] /\ missed \in BOOLEAN

(* No command is at work.                                                  *)
Quiet == \A p \in Procs : pc[p] = "idle"

StoreOf(t) == IF t = "container" THEN "manifest" ELSE "file"

-----------------------------------------------------------------------------
(* Contents of the two stores.                                             *)

(* GetEnv of a file that is missing or has no container finds nothing.     *)
GetEnv(content) == IF content \in Envs THEN content ELSE Empty

(* SetEnv, UnsetEnv and their counterparts for the env file.               *)
Apply(env, change) ==
  [k \in Keys |-> IF change[k] = None THEN env[k] ELSE IF change[k] = Gone THEN None ELSE change[k]]

(* SetEnv of a whole environment.                                          *)
Merge(env, over) == [k \in Keys |-> IF over[k] = None THEN env[k] ELSE over[k]]

(* The env file is written as KEY=VALUE without quotes and read by a       *)
(* parser that knows comments and quotes: it trims a value, cuts a " #"    *)
(* and strips a closed pair of quotes, so that each edit of the file may   *)
(* change the values that are in it.  An unclosed quote swallows its own   *)
(* line and every line after it.                                           *)
Parse(env) ==
  [k \in Keys |-> IF \E j \in Keys : j <= k /\ env[j] \in Open THEN None
                  ELSE IF env[k] = None THEN None ELSE Clean[env[k]]]

(* What may be left of a value after any number of edits.                  *)
Left == [v \in Values |->
          {w \in Values : \A S \in SUBSET Values :
             v \in S /\ (\A x \in S : Clean[x] \in S) => w \in S}]

(* A file a command can edit, and what it holds after the command read it. *)
(* (An unset finds nothing to remove in a broken manifest.)                *)
Readable(s) == s = "manifest" => store[s] \in Envs
ReadStore(s) == IF s = "manifest" THEN store[s] ELSE Parse(GetEnv(store[s]))

-----------------------------------------------------------------------------
(* Starting and stopping the workload.                                     *)

(* A pod cannot be played from a manifest that is missing or broken.       *)
Boot(t) ==
  LET s == StoreOf(t) IN
  IF s = "manifest" /\ store[s] \notin Envs
  THEN status' = "inactive" /\ running' = Down
  ELSE status' = "activating" /\ running' = [store |-> s, env |-> GetEnv(store[s])]

HaltIf(cond) ==
  IF cond THEN status' = "inactive" /\ running' = Down ELSE UNCHANGED <<status, running>>

ComesUp ==
  /\ status = "activating"
  /\ status' = "active"
  /\ UNCHANGED <<clone, type, store, unitFile, loaded, running, pc, localVars, history>>

StartFails ==
  /\ "start" \in Events /\ status = "activating"
  /\ HaltIf(TRUE)
  /\ UNCHANGED <<clone, type, store, unitFile, loaded, pc, localVars, history>>

(* systemd restarts a workload that died.  That it takes time to, and does *)
(* so while a command is at work, is left to the event "respawn".          *)
Respawn ==
  /\ status = "active"
  /\ IF "respawn" \in Events THEN Boot(loaded)
     ELSE /\ Quiet /\ Readable(StoreOf(loaded))
          /\ running' = [store |-> StoreOf(loaded), env |-> GetEnv(store[StoreOf(loaded)])]
          /\ UNCHANGED status
  /\ UNCHANGED <<clone, type, store, unitFile, loaded, pc, localVars, history>>

-----------------------------------------------------------------------------
(* gare deploy                                                             *)

Goto(p, step) == pc' = [pc EXCEPT ![p] = step]

(* A process that ends takes what it held in memory with it.               *)
Exit(p) == /\ Goto(p, "idle")
           /\ mine' = [mine EXCEPT ![p] = CHOOSE t \in Types : TRUE]
           /\ arg' = [arg EXCEPT ![p] = Empty]
           /\ doc' = [doc EXCEPT ![p] = NoFile]
           /\ kept' = [kept EXCEPT ![p] = Empty]

DeployStart(p) ==
  /\ pc[p] = "idle"
  /\ mine' = [mine EXCEPT ![p] = type]
  /\ Goto(p, "pull")
  /\ UNCHANGED <<clone, type, store, unitVars, arg, doc, kept, history>>

(* Pull, then the type gare.yml asks for, saved with the configuration.    *)
Pull(p) ==
  /\ pc[p] = "pull"
  /\ clone' \in Shipped
  /\ \E t \in Types : /\ t # mine[p] => "retype" \in Events
                      /\ mine' = [mine EXCEPT ![p] = t]
                      /\ type' = t
  /\ Goto(p, "prepare")
  /\ UNCHANGED <<store, unitVars, arg, doc, kept, history>>

(* writeManifest and the reads of syncRepoManifest.  A manifest gare       *)
(* cannot read has no environment to keep.                                 *)
PrepareOther(p) ==
  /\ pc[p] = "prepare" /\ mine[p] # "container"
  /\ Goto(p, "unit")
  /\ UNCHANGED <<clone, type, store, unitVars, localVars, history>>

PrepareAdopt(p) ==
  /\ pc[p] = "prepare" /\ mine[p] = "container" /\ clone # NoFile
  /\ doc' = [doc EXCEPT ![p] = clone]
  /\ kept' = [kept EXCEPT ![p] = GetEnv(store["manifest"])]
  /\ Goto(p, "adopt")
  /\ UNCHANGED <<clone, type, store, unitVars, mine, arg, history>>

PrepareGenerate(p) ==
  /\ pc[p] = "prepare" /\ mine[p] = "container" /\ clone = NoFile /\ store["manifest"] = NoFile
  /\ store' = [store EXCEPT !["manifest"] = Empty]
  /\ Goto(p, "pin")
  /\ UNCHANGED <<clone, type, unitVars, localVars, history>>

(* UpdatePorts reads; it has no container to update in a broken manifest.  *)
PreparePorts(p) ==
  /\ pc[p] = "prepare" /\ mine[p] = "container" /\ clone = NoFile /\ store["manifest"] # NoFile
  /\ \/ /\ store["manifest"] \in Envs
        /\ doc' = [doc EXCEPT ![p] = store["manifest"]]
        /\ Goto(p, "ports")
        /\ UNCHANGED <<mine, arg, kept>>
     \/ store["manifest"] = Broken /\ Exit(p)
  /\ UNCHANGED <<clone, type, store, unitVars, history>>

(* The repository's manifest replaces gare's copy.  A variable it ships is *)
(* no longer one the operator wants gone.                                  *)
Adopt(p) ==
  /\ pc[p] = "adopt"
  /\ store' = [store EXCEPT !["manifest"] = doc[p]]
  /\ wanted' = [wanted EXCEPT !["manifest"] =
                  [k \in Keys |-> IF @[k] = Gone /\ GetEnv(doc[p])[k] # None THEN None ELSE @[k]]]
  /\ Goto(p, IF kept[p] = Empty THEN "pin" ELSE "restoreRead")
  /\ UNCHANGED <<clone, type, unitVars, localVars, missed>>

(* SetEnv of what the old manifest held: it needs a container to set it in. *)
RestoreRead(p) ==
  /\ pc[p] = "restoreRead"
  /\ \/ /\ store["manifest"] \in Envs
        /\ doc' = [doc EXCEPT ![p] = store["manifest"]]
        /\ Goto(p, "restore")
        /\ UNCHANGED <<mine, arg, kept>>
     \/ store["manifest"] \notin Envs /\ Exit(p)
  /\ UNCHANGED <<clone, type, store, unitVars, history>>

(* Mutants of Restore: the environment of the old manifest is forgotten,   *)
(* or takes the place of the repository's.                                 *)
RestoreNothing(p) ==
  /\ pc[p] = "restore"
  /\ Goto(p, "pin")
  /\ UNCHANGED <<clone, type, store, unitVars, localVars, history>>

RestoreOnly(p) ==
  /\ pc[p] = "restore"
  /\ store' = [store EXCEPT !["manifest"] = kept[p]]
  /\ Goto(p, "pin")
  /\ UNCHANGED <<clone, type, unitVars, localVars, history>>

Restore(p) ==
  /\ pc[p] = "restore"
  /\ store' = [store EXCEPT !["manifest"] = Merge(doc[p], kept[p])]
  /\ Goto(p, "pin")
  /\ UNCHANGED <<clone, type, unitVars, localVars, history>>

UpdatePorts(p) ==
  /\ pc[p] = "ports"
  /\ store' = [store EXCEPT !["manifest"] = doc[p]]
  /\ Goto(p, "pin")
  /\ UNCHANGED <<clone, type, unitVars, localVars, history>>

(* EnsureLocalImagePullPolicy reads the manifest again and writes it back  *)
(* when a container has no policy yet; a broken one may not even parse.    *)
PinRead(p) ==
  /\ pc[p] = "pin"
  /\ \/ Goto(p, "unit") /\ UNCHANGED localVars
     \/ /\ store["manifest"] \in Envs
        /\ doc' = [doc EXCEPT ![p] = store["manifest"]]
        /\ Goto(p, "pinWrite")
        /\ UNCHANGED <<mine, arg, kept>>
     \/ store["manifest"] = Broken /\ Exit(p)
  /\ UNCHANGED <<clone, type, store, unitVars, history>>

PinWrite(p) ==
  /\ pc[p] = "pinWrite"
  /\ store' = [store EXCEPT !["manifest"] = doc[p]]
  /\ Goto(p, "unit")
  /\ UNCHANGED <<clone, type, unitVars, localVars, history>>

(* The unit is written, a static workload's env file is made to exist, and *)
(* a workload of another type is stopped.                                  *)
WriteUnit(p) ==
  /\ pc[p] = "unit"
  /\ store' = IF mine[p] = "static" /\ store["file"] = NoFile
              THEN [store EXCEPT !["file"] = Empty] ELSE store
  /\ unitFile' = mine[p]
  /\ HaltIf(unitFile # mine[p])
  /\ Goto(p, "activate")
  /\ UNCHANGED <<clone, type, loaded, localVars, history>>

(* daemon-reload, enable and restart, after the ingress.                   *)
Activate(p) ==
  /\ pc[p] = "activate"
  /\ loaded' = unitFile
  /\ Boot(unitFile) /\ missed' = FALSE
  /\ Goto(p, "verify")
  /\ UNCHANGED <<clone, type, store, unitFile, localVars, wanted>>

(* The wait for the unit ends when it is active or has failed.             *)
WaitEnds(p) ==
  /\ pc[p] \in {"verify", "await"} /\ status # "activating"
  /\ Exit(p)
  /\ UNCHANGED <<clone, type, store, unitVars, history>>

-----------------------------------------------------------------------------
(* gare env set, unset and load; gare start, stop and restart.             *)

(* resolveEnvStore picks the store by the recorded type.                   *)
EnvRead(p) ==
  /\ pc[p] = "idle" /\ Readable(StoreOf(type))
  /\ mine' = [mine EXCEPT ![p] = type]
  /\ doc' = [doc EXCEPT ![p] = ReadStore(StoreOf(type))]
  /\ \E ks \in SUBSET Keys \ {{}} :
       \/ \E env \in [ks -> Values] :
            arg' = [arg EXCEPT ![p] = [k \in Keys |-> IF k \in ks THEN env[k] ELSE None]]
       \/ arg' = [arg EXCEPT ![p] = [k \in Keys |-> IF k \in ks THEN Gone ELSE None]]
  /\ Goto(p, "envWrite")
  /\ UNCHANGED <<clone, type, store, unitVars, kept, history>>

EnvSet(p) ==
  LET s == StoreOf(mine[p]) IN
  /\ pc[p] = "envWrite"
  /\ store' = [store EXCEPT ![s] = Apply(doc[p], arg[p])]
  /\ wanted' = [wanted EXCEPT ![s] = [k \in Keys |-> IF arg[p][k] = None THEN @[k] ELSE arg[p][k]]]

EnvWrite(p) ==
  /\ EnvSet(p)
  /\ Goto(p, "envCheck")
  /\ UNCHANGED <<clone, type, unitVars, localVars, missed>>

(* Mutant of EnvCheck: the running workload is left as it is.              *)
EnvSaved(p) ==
  /\ pc[p] = "envCheck"
  /\ Exit(p)
  /\ UNCHANGED <<clone, type, store, unitVars, history>>

(* reloadIfActive: only an active workload is restarted.                   *)
EnvCheck(p) ==
  /\ pc[p] = "envCheck"
  /\ \/ status = "active" /\ Goto(p, "bounce") /\ UNCHANGED localVars
     \/ status # "active" /\ Exit(p)
  /\ UNCHANGED <<clone, type, store, unitVars, history>>

RestartCommand(p) ==
  /\ pc[p] = "idle"
  /\ Goto(p, "bounce")
  /\ UNCHANGED <<clone, type, store, unitVars, localVars, history>>

Bounce(p) ==
  /\ pc[p] = "bounce"
  /\ Boot(loaded) /\ missed' = FALSE
  /\ Goto(p, "await")
  /\ UNCHANGED <<clone, type, store, unitFile, loaded, localVars, wanted>>

(* systemctl start does nothing to a unit that is up or coming up.         *)
StartCommand(p) ==
  /\ pc[p] = "idle"
  /\ IF status = "inactive" THEN Boot(loaded) /\ missed' = FALSE
     ELSE UNCHANGED <<status, running, missed>>
  /\ Goto(p, "await")
  /\ UNCHANGED <<clone, type, store, unitFile, loaded, localVars, wanted>>

StopCommand(p) ==
  /\ pc[p] = "idle"
  /\ HaltIf(TRUE)
  /\ UNCHANGED <<clone, type, store, unitFile, loaded, pc, localVars, history>>

-----------------------------------------------------------------------------
(* What ends a command early.                                              *)

Heeds(s, want, found) ==
  /\ want = Gone => found = None
  /\ want \in Values => found = want \/ (s = "file" /\ found \in Left[want])

(* A deploy that ends between the adoption of a manifest and the return of *)
(* the variables loses them: the next one finds none to keep.              *)
Forget(content) ==
  wanted' = [wanted EXCEPT !["manifest"] =
               [k \in Keys |-> IF Heeds("manifest", @[k], GetEnv(content)[k]) THEN @[k] ELSE None]]

Fails(p) ==
  /\ \/ "fail" \in Events /\ pc[p] \in {"pull", "prepare", "unit", "activate"}
     \/ "write" \in Events /\ pc[p] \in {"adopt", "restore", "ports", "pinWrite", "envWrite"}
     \/ "kill" \in Events /\ pc[p] # "idle"
  /\ IF pc[p] \in {"restoreRead", "restore"} THEN Forget(store["manifest"]) ELSE UNCHANGED wanted
  /\ missed' = (missed \/ pc[p] \in {"envCheck", "bounce", "verify", "await"})
  /\ Exit(p)
  /\ UNCHANGED <<clone, type, store, unitVars>>

(* WriteFile may fail after its rename: the content is there, and the      *)
(* command ends.                                                           *)
AdoptFails(p) ==
  /\ "write" \in Events /\ pc[p] = "adopt"
  /\ store' = [store EXCEPT !["manifest"] = doc[p]]
  /\ Forget(doc[p])
  /\ Exit(p)
  /\ UNCHANGED <<clone, type, unitVars, missed>>

RestoreFails(p) ==
  /\ "write" \in Events /\ pc[p] = "restore"
  /\ store' = [store EXCEPT !["manifest"] = Merge(doc[p], kept[p])]
  /\ Exit(p)
  /\ UNCHANGED <<clone, type, unitVars, history>>

EnvWriteFails(p) ==
  /\ "write" \in Events /\ EnvSet(p)
  /\ missed' = TRUE
  /\ Exit(p)
  /\ UNCHANGED <<clone, type, unitVars>>

-----------------------------------------------------------------------------
(* An application gare app create left behind: the manifest generated or   *)
(* adopted, the unit written, nothing started.                             *)
Init ==
  /\ clone \in Shipped /\ type \in Types
  /\ store = [s \in Stores |-> IF s = StoreOf(type) /\ type # "compose"
                               THEN IF s = "manifest" THEN IF clone = NoFile THEN Empty ELSE clone
                                                      ELSE Empty
                               ELSE NoFile]
  /\ unitFile = type /\ loaded = type
  /\ status = "inactive" /\ running = Down
  /\ pc = [p \in Procs |-> "idle"] /\ mine = [p \in Procs |-> CHOOSE t \in Types : TRUE]
  /\ arg = [p \in Procs |-> Empty] /\ doc = [p \in Procs |-> NoFile] /\ kept = [p \in Procs |-> Empty]
  /\ wanted = [s \in Stores |-> Empty] /\ missed = FALSE

DeployNext(p) ==
  \/ DeployStart(p) \/ Pull(p)
  \/ PrepareOther(p) \/ PrepareAdopt(p) \/ PrepareGenerate(p) \/ PreparePorts(p)
  \/ Adopt(p) \/ RestoreRead(p) \/ Restore(p) \/ UpdatePorts(p) \/ PinRead(p) \/ PinWrite(p)
  \/ WriteUnit(p) \/ Activate(p)

EnvNext(p) == EnvRead(p) \/ EnvWrite(p) \/ EnvCheck(p)

LifecycleNext(p) == RestartCommand(p) \/ Bounce(p) \/ StartCommand(p) \/ StopCommand(p) \/ WaitEnds(p)

FailNext(p) == Fails(p) \/ AdoptFails(p) \/ RestoreFails(p) \/ EnvWriteFails(p)

Next == \/ \E p \in Procs : DeployNext(p) \/ EnvNext(p) \/ LifecycleNext(p) \/ FailNext(p)
        \/ ComesUp \/ StartFails \/ Respawn

Spec == Init /\ [][Next]_vars

-----------------------------------------------------------------------------
(* What the operator last said of a variable holds in env; the env file    *)
(* keeps of a value what its parser leaves of it.                          *)
Honours(s, env) == \A k \in Keys : Heeds(s, wanted[s][k], env[k])

(* When no command is at work, every variable set with gare env has its    *)
(* value in the store it was set in and every variable unset is absent,    *)
(* but for what Forget counts as lost: deploys that adopt a manifest,      *)
(* changes of workload type and back, edits of other variables, failing    *)
(* writes and kills at any other step keep it.                             *)
VariableKept == Quiet => \A s \in Stores : Honours(s, GetEnv(store[s]))

(* A deploy that changed the type and failed leaves the recorded type and  *)
(* the loaded unit with different stores.                                  *)
Apart == StoreOf(type) # StoreOf(loaded)

(* When no command is at work and the unit is active, the workload was     *)
(* started with the values last set in the store it reads, and that is the *)
(* store gare env writes (resolveEnvStore, reloadIfActive), unless a       *)
(* command was cut off before its restart.  While the two are apart what   *)
(* gare env sets goes to the store the workload does not read, against     *)
(* what env_helpers.go says of resolveEnvStore.                            *)
VariableRuns ==
  Quiet /\ status = "active" /\ ~missed =>
    /\ Honours(running.store, running.env)
    /\ ~Apart => running.store = StoreOf(type)

(* A deploy of a container starts it with every variable the repository's  *)
(* manifest declares, with the repository's value or one that was there    *)
(* before.                                                                 *)
ShippedRuns ==
  \A p \in Procs :
    pc[p] = "verify" /\ mine[p] = "container" /\ running # Down =>
      \A k \in Keys : LET shipped == GetEnv(clone)[k] IN
        shipped # None => running.env[k] \in {shipped, kept[p][k]} \ {None}
=============================================================================
