------------------------------ MODULE Registry ------------------------------
(***************************************************************************)
(* The recorded configuration of one application, config.json, from its    *)
(* create to its destroy: what command line flags, the gare.yml of each    *)
(* revision, the operator's edits and an older gare's file make of it, and *)
(* the clone, manifest and unit it has to agree with.                      *)
(*                                                                         *)
(* A command loads the whole record, changes it in memory and saves the    *)
(* whole of it.  What becomes of the workload and of Caddy is the subject  *)
(* of Supervision and Ingress; other applications only make ports busy.    *)
(***************************************************************************)
EXTENDS Naturals

CONSTANTS
  Procs,      \* gare processes and deploy goroutines of the daemon
  Texts,      \* build commands, directories, health paths
  Domains,    \* hostnames
  Tags,       \* valid tags
  Ports,      \* port numbers
  Unset,      \* an empty text, a missing file, a list that is not given
  Dot,        \* the directory "."
  Invalid,    \* a gare.yml or a list of tags that gare refuses
  Revisions,  \* the states of the repository a clone or a pull may find
  Flags,      \* the command lines of gare app create
  Olds,       \* configurations an older gare may have left
  Events      \* what may go wrong, a subset of AllEvents

AllEvents == {"clone",  \* git clone or git pull fails
              "port",   \* the port asked for is taken
              "fail",   \* a build, manifest or unit cannot be made
              "save",   \* config.json cannot be written
              "kill"}   \* a process is killed

Types == {"container", "static", "compose"}

(* gare.yml has no hostname; a revision has the port its containerfile     *)
(* exposes, the ports of its own manifest, the port its compose file       *)
(* publishes, and perhaps a health check in that file.                     *)
Merged == [type: Types \cup {Unset}, build: Texts \cup {Unset}, dir: Texts \cup {Unset, Dot},
           health: Texts \cup {Unset}, port: Ports \cup {0}, cport: Ports \cup {0},
           tags: {Unset, Invalid} \cup SUBSET Tags, probes: {"none", "declared"}]
Pods   == [host: Ports, container: Ports]
Repos  == [gare: {Unset, Invalid} \cup Merged, exposed: Ports \cup {0},
           manifest: Pods \cup {Unset}, published: Ports \cup {0}, checked: BOOLEAN]

(* config.json; old holds the keys a former gare wrote.                    *)
Keys == [domain: Domains \cup {Unset}, health: Texts \cup {Unset}]
Configs == [type: Types, build: Texts \cup {Unset}, dir: Texts \cup {Unset, Dot},
            health: Texts \cup {Unset}, port: Ports, cport: Ports \cup {0},
            tags: SUBSET Tags, probes: {"none", "declared", "derived"},
            domains: SUBSET Domains, old: Keys]
NoKeys == [domain |-> Unset, health |-> Unset]

ASSUME RegistryAssumption ==
  /\ Ports \subseteq Nat \ {0}
  /\ Dot \notin Texts /\ Dot # Unset /\ Unset \notin Texts \cup Domains \cup Types
  /\ Unset \notin Merged \cup Pods \cup Configs \cup Repos
  /\ Invalid \notin Merged \cup {Unset}
  /\ \A ts \in SUBSET Tags : ts \notin {Unset, Invalid}
  /\ Revisions \subseteq Repos /\ Events \subseteq AllEvents
  /\ Olds \subseteq {c \in Configs : c.probes = "derived" => c.type = "compose"}
  /\ Flags \subseteq {f \in Merged : f.tags \notin {Unset, Invalid} /\ f.probes = "none"}

VARIABLES
  conf,      \* config.json, Unset when there is none
  repo,      \* the revision in the clone, Unset without a clone
  manifest,  \* the ports of gare's copy of the pod manifest, Unset without one
  unit,      \* the workload type the unit file was written for, Unset without one
  pc,        \* pc[p]: the next step of process p
  op,        \* op[p]: the command it runs
  mine,      \* mine[p]: the configuration it has in memory
  arg,       \* arg[p]: the flags of a create, the tag or hostname of an edit
  asked,     \* history: the flags of the create and the hostnames the operator wants
  doomed     \* history: a destroy of the application has begun

files == <<conf, repo, manifest, unit>>
locals == <<op, mine, arg>>
history == <<asked, doomed>>
vars == <<files, pc, locals, history>>

NoFlags == [type |-> Unset, build |-> Unset, dir |-> Unset, health |-> Unset, port |-> 0,
            cport |-> 0, tags |-> {}, probes |-> "none"]
Commands == {"none", "create", "deploy", "destroy", "tag", "untag", "add", "remove"}

TypeOK ==
  /\ conf \in {Unset} \cup Configs /\ repo \in {Unset} \cup Revisions
  /\ manifest \in Pods \cup {Unset} /\ unit \in Types \cup {Unset}
  /\ pc \in [Procs -> {"idle", "clone", "resolve", "manifest", "unit", "save", "pull", "sync",
                       "prepare", "done", "edit", "stop", "purge"}]
  /\ op \in [Procs -> Commands] /\ mine \in [Procs -> Configs \cup {Unset}]
  /\ arg \in [Procs -> Flags \cup {NoFlags} \cup Tags \cup Domains]
  /\ asked \in [flags: Flags \cup {NoFlags}, domains: SUBSET Domains]
  /\ doomed \in BOOLEAN

-----------------------------------------------------------------------------
(* Reading and merging configurations.                                     *)

Or(value, fallback) == IF value # Unset THEN value ELSE fallback
OrPort(value, fallback) == IF value # 0 THEN value ELSE fallback

(* Keys of an older gare count only where the new ones are empty.          *)
MigrateDomain(c) == IF c.domains = {} /\ c.old.domain # Unset THEN {c.old.domain} ELSE c.domains
MigrateHealth(c) == Or(c.health, c.old.health)

LoadConfig(c) ==
  [c EXCEPT !.domains = MigrateDomain(c), !.health = MigrateHealth(c), !.old = NoKeys]

(* What a command reads in the clone; nothing, where there is none.        *)
Checkout == IF repo # Unset THEN repo
            ELSE [gare |-> Unset, exposed |-> 0, manifest |-> Unset, published |-> 0,
                  checked |-> FALSE]

(* SaveConfig writes the fields of today's gare only.                      *)
Saved(c) == c

(* mergeGareFileDefaults: the flags, then gare.yml.  A gare.yml without a  *)
(* type asks for a container.                                              *)
MergeDefaults(f, gare) ==
  IF gare = Unset THEN f
  ELSE [type   |-> Or(f.type, Or(gare.type, "container")),
        build  |-> Or(f.build, gare.build),
        dir    |-> Or(f.dir, gare.dir),
        health |-> Or(f.health, gare.health),
        port   |-> OrPort(f.port, gare.port),
        cport  |-> OrPort(f.cport, gare.cport),
        tags   |-> IF f.tags # {} THEN f.tags ELSE gare.tags,
        probes |-> gare.probes]

(* normalizeAppType                                                        *)
AppType(o) == Or(o.type, IF o.dir # Unset THEN "static" ELSE "container")

AssignedPort(o, pt) == pt

(* normalizeCreateOptions, and the metadata saveAppMetadata records.       *)
Created(o, revision, pt) ==
  LET kind == AppType(o) IN
  [type |-> kind, build |-> o.build, health |-> o.health, port |-> AssignedPort(o, pt),
   dir |-> IF kind = "static" THEN Or(o.dir, Dot) ELSE o.dir,
   cport |-> IF kind = "container" THEN OrPort(o.cport, revision.exposed) ELSE o.cport,
   tags |-> IF o.tags \in {Unset, Invalid} THEN {} ELSE o.tags, probes |-> o.probes,
   domains |-> {}, old |-> NoKeys]

(* Mutants: probes no revision declares any more stay; gare.yml is merged  *)
(* over what is recorded.                                                  *)
KeepProbes(c, revision) ==
  IF revision.gare.probes = "declared" THEN "declared"
  ELSE IF c.type = "compose" /\ revision.checked THEN "derived" ELSE c.probes

OverRecorded(value, fallback) == IF fallback # Unset THEN fallback ELSE value

(* applyGareHealthConfig, after the type is known.                         *)
Probes(c, revision) ==
  IF revision.gare.probes = "declared" THEN "declared"
  ELSE IF c.type = "compose" /\ revision.checked THEN "derived" ELSE "none"

(* A text that is recorded is not replaced at a deploy.                    *)
Recorded(value, fallback) == Or(value, fallback)

(* syncGareFileConfig: port, container port, type and tags of gare.yml     *)
(* replace what is recorded, the texts only fill what is empty.            *)
SyncGareFile(c, revision) ==
  LET gare == revision.gare
      d == [c EXCEPT !.type = Or(gare.type, @)]
  IN  IF gare = Unset THEN c
      ELSE [d EXCEPT !.build = Recorded(@, gare.build),
                     !.health = Recorded(@, gare.health),
                     !.dir = IF d.type = "static" /\ @ \in {Unset, Dot} THEN Or(gare.dir, @) ELSE @,
                     !.port = OrPort(gare.port, @),
                     !.cport = OrPort(gare.cport, @),
                     !.tags = IF gare.tags \in {Unset, Invalid} THEN @ ELSE gare.tags,
                     !.probes = Probes(d, revision)]

(* The container port the containerfile exposes, if none is recorded.      *)
DetectPort(c, revision) ==
  IF c.type = "container" THEN [c EXCEPT !.cport = OrPort(@, revision.exposed)] ELSE c

(* ValidatePort: the compose file publishes the port.                      *)
Routable(t, pt, revision) == t = "compose" => pt # 0 /\ pt = revision.published

-----------------------------------------------------------------------------
At(p, step) == pc[p] = step
Goto(p, step) == pc' = [pc EXCEPT ![p] = step]

(* loadAppConfig; create and destroy work without a configuration.         *)
Begin(p, command, first, cfg, argument) ==
  /\ At(p, "idle")
  /\ Goto(p, first)
  /\ op' = [op EXCEPT ![p] = command]
  /\ mine' = [mine EXCEPT ![p] = cfg]
  /\ arg' = [arg EXCEPT ![p] = argument]

Load(p, command, first, argument) ==
  /\ conf # Unset
  /\ Begin(p, command, first, LoadConfig(conf), argument)
  /\ UNCHANGED <<files, history>>

Exit(p) == /\ Goto(p, "idle")
           /\ op' = [op EXCEPT ![p] = "none"]
           /\ mine' = [mine EXCEPT ![p] = Unset]
           /\ arg' = [arg EXCEPT ![p] = NoFlags]

Proceed(p, step) == Goto(p, step) /\ UNCHANGED locals

-----------------------------------------------------------------------------
(* gare app create                                                         *)

(* Mutant of BeginCreate: nobody looks for a configuration.                *)
BeginAnyway(p) == \E f \in Flags : /\ Begin(p, "create", "clone", Unset, f)
                                   /\ UNCHANGED <<files, history>>

BeginCreate(p) == /\ conf = Unset
                  /\ \E f \in Flags : Begin(p, "create", "clone", Unset, f)
                  /\ UNCHANGED <<files, history>>

(* git clone needs the directory to be free.                               *)
Clone(p) == /\ At(p, "clone") /\ repo = Unset
            /\ repo' \in Revisions
            /\ Proceed(p, "resolve")
            /\ UNCHANGED <<conf, manifest, unit, history>>

(* A failed clone is rolled back, and with it what else is stored there.   *)
CloneFails(p) == /\ At(p, "clone")
                 /\ repo # Unset \/ "clone" \in Events
                 /\ Proceed(p, "purge")
                 /\ UNCHANGED <<files, history>>

(* resolveAppOptions and DiscoverAvailablePort; an error leaves the clone. *)
Resolve(p) ==
  /\ At(p, "resolve")
  /\ IF Checkout.gare = Invalid THEN Exit(p)
     ELSE LET o == MergeDefaults(arg[p], Checkout.gare) IN
          \/ /\ ~Routable(AppType(o), o.port, Checkout) \/ "port" \in Events
             /\ Exit(p)
          \/ \E pt \in Ports :
               /\ o.port \in {0, pt} /\ Routable(AppType(o), o.port, Checkout)
               /\ mine' = [mine EXCEPT ![p] = Created(o, Checkout, pt)]
               /\ Goto(p, IF AppType(o) = "container" THEN "manifest" ELSE "unit")
               /\ UNCHANGED <<op, arg>>
  /\ UNCHANGED <<files, history>>

ContainerPort(c) == OrPort(c.cport, c.port)

(* Mutant: a manifest that exists is left as it is.                        *)
WriteManifestOnce(p) ==
  /\ At(p, "manifest")
  /\ manifest' = IF Checkout.manifest # Unset THEN Checkout.manifest
                 ELSE IF manifest # Unset THEN manifest
                 ELSE [host |-> mine[p].port, container |-> ContainerPort(mine[p])]
  /\ Proceed(p, "unit")
  /\ UNCHANGED <<conf, repo, unit, history>>

(* The repository's manifest is adopted with its ports; gare's own is      *)
(* generated or, if there is one, its ports are updated.                   *)
WriteManifest(p) ==
  /\ At(p, "manifest")
  /\ manifest' = IF Checkout.manifest # Unset THEN Checkout.manifest
                 ELSE [host |-> mine[p].port, container |-> ContainerPort(mine[p])]
  /\ Proceed(p, "unit")
  /\ UNCHANGED <<conf, repo, unit, history>>

(* Mutant of WriteUnit: the metadata is recorded before there is a unit.   *)
SaveMetadataEarly(p) ==
  /\ At(p, "unit") /\ op[p] = "create"
  /\ conf' = Saved(mine[p])
  /\ asked' = [flags |-> arg[p], domains |-> {}] /\ doomed' = FALSE
  /\ Exit(p)
  /\ UNCHANGED <<repo, manifest, unit>>

WriteUnit(p) ==
  /\ At(p, "unit")
  /\ unit' = mine[p].type
  /\ Proceed(p, IF op[p] = "create" THEN "save" ELSE "done")
  /\ UNCHANGED <<conf, repo, manifest, history>>

(* saveAppMetadata comes last, and refuses tags of gare.yml that are not   *)
(* valid when everything else was written.                                 *)
SaveMetadata(p) ==
  /\ At(p, "save")
  /\ IF arg[p].tags = {} /\ Checkout.gare \notin {Unset, Invalid} /\ Checkout.gare.tags = Invalid
     THEN UNCHANGED <<conf, history>>
     ELSE /\ conf' = Saved(mine[p])
          /\ asked' = [flags |-> arg[p], domains |-> {}] /\ doomed' = FALSE
  /\ Exit(p)
  /\ UNCHANGED <<repo, manifest, unit>>

-----------------------------------------------------------------------------
(* gare deploy                                                             *)

BeginDeploy(p) == Load(p, "deploy", "pull", NoFlags)

Pull(p) == /\ At(p, "pull") /\ repo # Unset
           /\ repo' \in Revisions
           /\ Proceed(p, "sync")
           /\ UNCHANGED <<conf, manifest, unit, history>>

PullFails(p) == /\ At(p, "pull")
                /\ repo = Unset \/ "clone" \in Events
                /\ Exit(p)
                /\ UNCHANGED <<files, history>>

(* Mutant of Sync: the record is made anew, as a create makes it.          *)
SyncAnew(p) ==
  /\ At(p, "sync") /\ Checkout.gare # Invalid
  /\ mine' = [mine EXCEPT ![p] =
                [DetectPort(SyncGareFile(@, Checkout), Checkout) EXCEPT !.domains = {}]]
  /\ conf' = Saved(mine'[p])
  /\ Goto(p, "prepare")
  /\ UNCHANGED <<op, arg, repo, manifest, unit, history>>

(* syncDeployConfig: what is merged is saved before anything is built; a   *)
(* save that fails is a warning.                                           *)
Sync(p) ==
  /\ At(p, "sync") /\ Checkout.gare # Invalid
  /\ mine' = [mine EXCEPT ![p] = DetectPort(SyncGareFile(@, Checkout), Checkout)]
  /\ \/ conf' = Saved(mine'[p])
     \/ "save" \in Events /\ UNCHANGED conf
  /\ Goto(p, "prepare")
  /\ UNCHANGED <<op, arg, repo, manifest, unit, history>>

(* gare.yml is refused, or the port it asks for is taken.                  *)
SyncFails(p) ==
  /\ At(p, "sync")
  /\ \/ Checkout.gare = Invalid
     \/ /\ "port" \in Events /\ Checkout.gare \notin {Unset, Invalid}
        /\ Checkout.gare.port \notin {0, mine[p].port}
  /\ Exit(p)
  /\ UNCHANGED <<files, history>>

(* prepareWorkload: a compose file has to publish the port, a container    *)
(* needs something to build from.                                          *)
Prepare(p) ==
  /\ At(p, "prepare")
  /\ IF /\ Routable(mine[p].type, mine[p].port, Checkout)
        /\ mine[p].type = "container" => repo # Unset
     THEN Proceed(p, IF mine[p].type = "container" THEN "manifest" ELSE "unit")
     ELSE Exit(p)
  /\ UNCHANGED <<files, history>>

(* The workload is started and verified, and the command ends.             *)
Deployed(p) == At(p, "done") /\ Exit(p) /\ UNCHANGED <<files, history>>

-----------------------------------------------------------------------------
(* gare tag add, gare tag rm, gare domain add, gare domain rm              *)

BeginEdit(p) ==
  \/ \E t \in Tags : Load(p, "tag", "edit", t) \/ Load(p, "untag", "edit", t)
  \/ \E d \in Domains : Load(p, "add", "edit", d) \/ Load(p, "remove", "edit", d)

Edited(p) == LET c == mine[p]
                 a == arg[p] IN
  CASE op[p] = "tag"    -> [c EXCEPT !.tags = @ \cup {a}]
    [] op[p] = "untag"  -> [c EXCEPT !.tags = @ \ {a}]
    [] op[p] = "add"    -> [c EXCEPT !.domains = @ \cup {a}]
    [] op[p] = "remove" -> [c EXCEPT !.domains = @ \ {a}]

(* A hostname that is there already, or a tag or hostname to remove that   *)
(* is not, is answered without a save; otherwise the whole record is saved.*)
Edit(p) ==
  /\ At(p, "edit")
  /\ \/ /\ Edited(p) # mine[p] \/ op[p] = "tag"
        /\ conf' = Saved(Edited(p))
        /\ asked' = CASE op[p] = "add"    -> [asked EXCEPT !.domains = @ \cup {arg[p]}]
                      [] op[p] = "remove" -> [asked EXCEPT !.domains = @ \ {arg[p]}]
                      [] OTHER            -> asked
     \/ Edited(p) = mine[p] /\ op[p] # "tag" /\ UNCHANGED <<conf, asked>>
     \/ "save" \in Events /\ UNCHANGED <<conf, asked>>
  /\ Exit(p)
  /\ UNCHANGED <<repo, manifest, unit, doomed>>

-----------------------------------------------------------------------------
(* gare destroy, and the rollback of a create                              *)

BeginDestroy(p) == /\ Begin(p, "destroy", "stop",
                            IF conf = Unset THEN Unset ELSE LoadConfig(conf), NoFlags)
                   /\ doomed' = TRUE
                   /\ UNCHANGED <<files, asked>>

RemoveUnit(p) == /\ At(p, "stop")
                 /\ unit' = Unset
                 /\ Proceed(p, "purge")
                 /\ UNCHANGED <<conf, repo, manifest, history>>

(* DeleteAppStorage removes the files of the directory in no given order.  *)
DeleteStorage(p) ==
  /\ At(p, "purge")
  /\ \/ conf # Unset /\ conf' = Unset /\ UNCHANGED <<repo, manifest, pc, locals>>
     \/ repo # Unset /\ repo' = Unset /\ UNCHANGED <<conf, manifest, pc, locals>>
     \/ manifest # Unset /\ manifest' = Unset /\ UNCHANGED <<conf, repo, pc, locals>>
     \/ /\ conf = Unset /\ repo = Unset /\ manifest = Unset /\ Exit(p)
        /\ UNCHANGED <<conf, repo, manifest>>
  /\ UNCHANGED <<unit, history>>

(* What ends a command early.  WriteFile may also report an error after    *)
(* its rename: with the record replaced, a create or an edit that ends     *)
(* with it, or a deploy that only warns, takes the step of a save that     *)
(* succeeds (SaveMetadata, Edit, Sync).                                    *)
Fails(p) == /\ \/ "fail" \in Events /\ pc[p] \in {"prepare", "manifest", "unit", "done"}
               \/ "save" \in Events /\ pc[p] = "save"
               \/ "kill" \in Events /\ pc[p] # "idle"
            /\ Exit(p)
            /\ UNCHANGED <<files, history>>

-----------------------------------------------------------------------------
(* No application, or one an older gare left.                              *)
Init ==
  /\ repo \in Revisions \cup {Unset}
  /\ conf \in IF repo = Unset THEN {Unset} ELSE Olds
  /\ manifest = IF conf # Unset /\ conf.type = "container"
                THEN [host |-> conf.port, container |-> ContainerPort(conf)] ELSE Unset
  /\ unit = IF conf = Unset THEN Unset ELSE conf.type
  /\ pc = [p \in Procs |-> "idle"] /\ op = [p \in Procs |-> "none"]
  /\ mine = [p \in Procs |-> Unset] /\ arg = [p \in Procs |-> NoFlags]
  /\ asked = [flags |-> NoFlags, domains |-> IF conf = Unset THEN {} ELSE LoadConfig(conf).domains]
  /\ doomed = FALSE

CreateNext(p) == BeginCreate(p) \/ Clone(p) \/ CloneFails(p) \/ Resolve(p) \/ SaveMetadata(p)
DeployNext(p) == BeginDeploy(p) \/ Pull(p) \/ PullFails(p) \/ Sync(p) \/ SyncFails(p) \/ Prepare(p)
                 \/ WriteManifest(p) \/ WriteUnit(p) \/ Deployed(p)
EditNext(p) == BeginEdit(p) \/ Edit(p)
DestroyNext(p) == BeginDestroy(p) \/ RemoveUnit(p) \/ DeleteStorage(p)

Next == \E p \in Procs : CreateNext(p) \/ DeployNext(p) \/ EditNext(p) \/ DestroyNext(p) \/ Fails(p)

Spec == Init /\ [][Next]_vars

-----------------------------------------------------------------------------
(* The hostnames of a recorded application are those the operator added    *)
(* and did not remove, and the one an older gare recorded: no deploy,      *)
(* change of type or edit of something else loses one, and one that was    *)
(* removed does not come back from a key of the old file.                  *)
DomainsKept == conf # Unset => LoadConfig(conf).domains = asked.domains

(* A build command, a health path and a directory other than "." given to  *)
(* gare app create stay, whatever gare.yml says in the revisions deployed  *)
(* later.                                                                  *)
FlagsKept ==
  conf # Unset =>
    /\ asked.flags.build # Unset => conf.build = asked.flags.build
    /\ asked.flags.health # Unset => conf.health = asked.flags.health
    /\ asked.flags.dir \notin {Unset, Dot} => conf.dir = asked.flags.dir

(* Who finds a configuration finds a clone and a unit, until a destroy     *)
(* begins: the record is what makes the application exist, and a create    *)
(* that ends early leaves none.                                            *)
ConfigLast == conf # Unset /\ ~doomed => repo # Unset /\ unit # Unset

(* Probes derived from a compose file are recorded only for a compose      *)
(* stack, after any changes of type.                                       *)
DerivedOnlyCompose == conf # Unset /\ conf.probes = "derived" => conf.type = "compose"

(* When a deploy of a container has written its files, the manifest gare   *)
(* maintains publishes the port the snippet routes to, also where it was   *)
(* left by a revision with other ports or before the workload was          *)
(* something else.                                                         *)
ManifestMatches ==
  \A p \in Procs : pc[p] = "done" /\ mine[p].type = "container" /\ Checkout.manifest = Unset =>
    manifest = [host |-> mine[p].port, container |-> ContainerPort(mine[p])]

(* Only a destroy takes a recorded application away: a create rolls back   *)
(* its own storage.                                                        *)
OnlyDestroyRemoves ==
  [][conf # Unset /\ conf' = Unset => \E p \in Procs : pc[p] = "purge" /\ op[p] = "destroy"]_vars
=============================================================================
