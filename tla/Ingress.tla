------------------------------ MODULE Ingress ------------------------------
(***************************************************************************)
(* The port and the hostnames of an application: what config.json records, *)
(* what the Caddy snippet says, what the running Caddy serves and what the *)
(* workload binds.  Each process runs one gare command at a time; every    *)
(* command loads the whole configuration once and saves the whole of it,   *)
(* and steps of other processes fall between.                              *)
(*                                                                         *)
(* Caddy and podman are external.  Caddy takes a configuration whole or    *)
(* refuses it, and refuses one in which two snippets name the same site.   *)
(* A workload binds the port its manifest or unit was written with, a      *)
(* compose stack the port the compose file in the clone publishes.         *)
(***************************************************************************)
EXTENDS Naturals

CONSTANTS
  Procs,      \* gare processes and deploy goroutines of the daemon
  Apps,       \* application names
  Domains,    \* hostnames
  Ports,      \* host ports
  Exclusive,  \* no two processes work on one application
  Scenes      \* the hosts a behaviour may take place on

AllEvents == {"clone",      \* git clone fails
              "prepare",    \* the build or the manifest fails
              "save",       \* config.json cannot be saved, or the save reports so
              "files",      \* the files of Caddy cannot be written, or report so
              "reload",     \* Caddy cannot be reloaded, or answers no probe
              "restart",    \* the workload does not come up
              "edit",       \* the operator rewrites the Caddyfile, or runs gare init
              "race",       \* and may do so while a reload is under way
              "lookalike"}  \* an import line that names conf.d, and not the snippets

(* A scene: the processes that run commands, the applications that are     *)
(* compose stacks, the hostnames and ports in use, and what may go wrong.  *)
ASSUME IngressAssumption ==
  /\ Ports \subseteq Nat \ {0}
  /\ Exclusive \in BOOLEAN
  /\ Scenes \subseteq [procs: SUBSET Procs, compose: SUBSET Apps,
                      hosts: SUBSET Domains, ports: SUBSET Ports,
                      events: SUBSET AllEvents]

None == [domains |-> {}, port |-> 0]  \* no config.json, no snippet

VARIABLES
  scene,    \* the scene of this behaviour, which never changes
  conf,     \* conf[a]: domains and port in config.json, or None
  snippet,  \* snippet[a]: domains and port in the Caddy snippet, or None
  imported, \* the Caddyfile's import of the snippets: there, missing, or a
            \* line for something else that gare takes for it
  serving,  \* serving[a]: a's snippet in the configuration Caddy runs
  binds,    \* binds[a]: the port a's workload binds when it starts
  bound,    \* bound[a]: the port it has bound, 0 when the unit is not active
  pc,       \* pc[p]: the next step of process p
  op,       \* op[p]: the command it runs
  app,      \* app[p]: the application it works on
  mine,     \* mine[p]: the configuration it holds in memory
  arg       \* arg[p]: the hostname on its command line

caddyVars == <<snippet, imported, serving>>
portVars  == <<binds, bound>>
localVars == <<op, app, mine, arg>>
vars == <<scene, conf, caddyVars, portVars, pc, localVars>>

Sites == [domains: SUBSET Domains, port: Ports \cup {0}]
Commands == {"create", "deploy", "start", "restart", "stop", "destroy", "add", "remove"}

TypeOK ==
  /\ scene \in Scenes /\ imported \in {"yes", "no", "other"}
  /\ conf \in [Apps -> Sites] /\ snippet \in [Apps -> Sites] /\ serving \in [Apps -> Sites]
  /\ binds \in [Apps -> Ports \cup {0}] /\ bound \in [Apps -> Ports \cup {0}]
  /\ pc \in [Procs -> {"idle", "clone", "artifacts", "save", "pull", "sync", "prepare",
                       "snippet", "unsnippet", "delete", "reload", "load", "check",
                       "saveDomains", "syncActive", "restart", "stop", "report"}]
  /\ op \in [Procs -> Commands \cup {"none"}]
  /\ app \in [Procs -> Apps] /\ mine \in [Procs -> Sites]
  /\ arg \in [Procs -> SUBSET Domains]

Event(name) == name \in scene.events

(* What an operator's Caddyfile may say of the import.                     *)
Caddyfiles == {"yes", "no"} \cup (IF Event("lookalike") THEN {"other"} ELSE {})

Init ==
  /\ scene \in Scenes /\ imported \in Caddyfiles
  /\ conf = [a \in Apps |-> None]
  /\ snippet = [a \in Apps |-> None] /\ serving = [a \in Apps |-> None]
  /\ binds = [a \in Apps |-> 0] /\ bound = [a \in Apps |-> 0]
  /\ pc = [p \in Procs |-> "idle"] /\ op = [p \in Procs |-> "none"]
  /\ app \in [Procs -> Apps]
  /\ mine = [p \in Procs |-> None] /\ arg = [p \in Procs |-> {}]

-----------------------------------------------------------------------------
At(p, step) == pc[p] = step
Goto(p, step) == pc' = [pc EXCEPT ![p] = step]
Conf(p) == conf[app[p]]

Free(a) == Exclusive => \A q \in Procs : pc[q] # "idle" => app[q] # a

(* loadAppConfig, and where the command goes from there.                   *)
Begin(p, a, command, first, hosts) ==
  /\ pc[p] = "idle" /\ Free(a)
  /\ Goto(p, first)
  /\ op' = [op EXCEPT ![p] = command]
  /\ app' = [app EXCEPT ![p] = a]
  /\ mine' = [mine EXCEPT ![p] = conf[a]]
  /\ arg' = [arg EXCEPT ![p] = hosts]
  /\ UNCHANGED <<conf, caddyVars, portVars>>

(* The command returns, with an error or after it reported success.        *)
End(p) == /\ Goto(p, "idle")
          /\ op' = [op EXCEPT ![p] = "none"]
          /\ mine' = [mine EXCEPT ![p] = None]
          /\ arg' = [arg EXCEPT ![p] = {}]
          /\ UNCHANGED app

Proceed(p, step) == Goto(p, step) /\ UNCHANGED localVars

-----------------------------------------------------------------------------
(* gare app create.                                                        *)

BeginCreate(p, a) == conf[a] = None /\ Begin(p, a, "create", "clone", {})

(* A failed clone deletes the application's storage.                       *)
CloneFails(p) == /\ At(p, "clone") /\ Event("clone")
                 /\ conf' = [conf EXCEPT ![app[p]] = None]
                 /\ End(p)
                 /\ UNCHANGED <<caddyVars, portVars>>

(* Mutant: only ports that are bound are avoided.                         *)
Unbound(pt) == \A b \in Apps : bound[b] # pt

(* DiscoverAvailablePort: no configuration has the port and it is free.    *)
Available(pt) == \A b \in Apps : conf[b].port # pt /\ bound[b] # pt

(* A preferred port, or the first available one.                           *)
Discovered(preferred, pt) ==
  /\ Available(pt)
  /\ IF preferred > 0 THEN pt = preferred
     ELSE \A other \in scene.ports : Available(other) => pt <= other

DiscoverPort(p) == /\ At(p, "clone")
                   /\ \E preferred \in scene.ports \cup {0}, pt \in scene.ports :
                        /\ Discovered(preferred, pt)
                        /\ mine' = [mine EXCEPT ![p] = [domains |-> {}, port |-> pt]]
                   /\ Goto(p, "artifacts")
                   /\ UNCHANGED <<op, app, arg, conf, caddyVars, portVars>>

(* The manifest or the unit is written; for a compose stack the port was   *)
(* validated against the compose file.                                     *)
WriteArtifacts(p) == /\ At(p, "artifacts")
                     /\ binds' = [binds EXCEPT ![app[p]] = mine[p].port]
                     /\ Proceed(p, "save")
                     /\ UNCHANGED <<conf, caddyVars, bound>>

(* AddDomain and RemoveDomain.                                             *)
Edited(p) == IF op[p] = "add" THEN mine[p].domains \cup arg[p] ELSE mine[p].domains \ arg[p]

SaveMetadata(p) == /\ At(p, "save")
                   /\ conf' = [conf EXCEPT ![app[p]] = mine[p]]
                   /\ Proceed(p, "report")
                   /\ UNCHANGED <<caddyVars, portVars>>

(* create and domain add or rm end with the error of a save, which may     *)
(* have replaced config.json all the same.                                 *)
SaveFails(p) ==
  /\ pc[p] \in {"save", "saveDomains"} /\ Event("save")
  /\ conf' \in {conf, [conf EXCEPT ![app[p]] = IF At(p, "save") THEN mine[p]
                                               ELSE [mine[p] EXCEPT !.domains = Edited(p)]]}
  /\ End(p)
  /\ UNCHANGED <<caddyVars, portVars>>

-----------------------------------------------------------------------------
(* gare deploy.                                                            *)

BeginDeploy(p, a) == conf[a] # None /\ Begin(p, a, "deploy", "pull", {})

(* git pull: a compose stack will bind what the new compose file publishes. *)
Pull(p) == /\ At(p, "pull")
           /\ IF app[p] \in scene.compose
              THEN \E pt \in scene.ports : binds' = [binds EXCEPT ![app[p]] = pt]
              ELSE UNCHANGED binds
           /\ Proceed(p, "sync")
           /\ UNCHANGED <<conf, caddyVars, bound>>

(* syncDeployConfig: the port of gare.yml, if it names another one that is *)
(* available.  The configuration is saved before anything else is done; a  *)
(* save that fails is a warning, and the deploy goes on with what it holds. *)
SyncDeployConfig(p) ==
  /\ At(p, "sync")
  /\ \E pt \in scene.ports :
       /\ pt # mine[p].port => Available(pt)
       /\ mine' = [mine EXCEPT ![p].port = pt]
       /\ \/ conf' = [conf EXCEPT ![app[p]] = mine'[p]]
          \/ Event("save") /\ UNCHANGED conf
  /\ Goto(p, "prepare")
  /\ UNCHANGED <<op, app, arg, caddyVars, portVars>>

(* prepareWorkload: build and write the manifest or the unit; a compose    *)
(* file has to publish the port (compose.ValidatePort).                    *)
Prepare(p) == /\ At(p, "prepare")
              /\ app[p] \in scene.compose => binds[app[p]] = mine[p].port
              /\ binds' = [binds EXCEPT ![app[p]] = mine[p].port]
              /\ Proceed(p, "snippet")
              /\ UNCHANGED <<conf, caddyVars, bound>>

PrepareFails(p) == /\ At(p, "prepare")
                   /\ \/ app[p] \in scene.compose /\ binds[app[p]] # mine[p].port
                      \/ Event("prepare")
                   /\ End(p)
                   /\ UNCHANGED <<conf, caddyVars, portVars>>

-----------------------------------------------------------------------------
(* Ingress and restart: deploy, start, restart.                            *)

BeginStart(p, a)   == conf[a] # None /\ Begin(p, a, "start", "snippet", {})
BeginRestart(p, a) == conf[a] # None /\ Begin(p, a, "restart", "snippet", {})

(* Nothing is added to a Caddyfile with a line that imports something of a *)
(* conf.d (hasConfDirImport).                                              *)
Ensured == IF imported = "no" THEN "yes" ELSE imported

EnsureCaddyfile == imported' = Ensured

(* WriteSnippet first sees to the import.                                  *)
EnsuredFor(p) == IF mine[p].domains # {} THEN Ensured ELSE imported

(* Mutant: nothing is done for an application without domains.             *)
SyncNonEmpty(p) ==
  /\ At(p, "snippet")
  /\ snippet' = [snippet EXCEPT ![app[p]] = IF mine[p].domains # {} THEN mine[p] ELSE @]
  /\ imported' = EnsuredFor(p)
  /\ Proceed(p, "reload")
  /\ UNCHANGED <<conf, serving, portVars>>

(* What the process has in memory, or nothing without hostnames.           *)
Synced(p) == [snippet EXCEPT ![app[p]] = IF mine[p].domains # {} THEN mine[p] ELSE None]

(* syncAppIngress writes the snippet, or removes it.                       *)
SyncAppIngress(p) ==
  /\ At(p, "snippet")
  /\ snippet' = Synced(p)
  /\ imported' = EnsuredFor(p)
  /\ Proceed(p, "reload")
  /\ UNCHANGED <<conf, serving, portVars>>

Activates(p) == op[p] \in {"deploy", "start", "restart"}

(* The files of Caddy cannot be written, or the write reports an error     *)
(* after the rename: an error, but for a stop, a destroy or an application *)
(* without domains; only a destroy reloads then.                           *)
SnippetFails(p) ==
  /\ pc[p] \in {"snippet", "unsnippet"} /\ Event("files")
  /\ CASE op[p] = "stop"    -> Proceed(p, "stop")
       [] op[p] = "destroy" -> Proceed(p, "delete")
       [] OTHER -> IF Activates(p) /\ mine[p].domains = {} THEN Proceed(p, "restart")
                                                           ELSE End(p)
  /\ IF At(p, "snippet") /\ mine[p].domains # {}
     THEN imported' \in {imported, Ensured} /\ snippet' \in {snippet, Synced(p)}
     ELSE UNCHANGED <<imported, snippet>>
  /\ UNCHANGED <<conf, serving, portVars>>

(* Where a command goes after its reload.                                  *)
AfterReload(p) == IF Activates(p) THEN "restart" ELSE IF op[p] = "stop" THEN "stop" ELSE "report"

(* An error only if the command activates an application with domains,     *)
(* a warning otherwise.                                                    *)
ReloadError(p) == IF Activates(p) /\ mine[p].domains # {} THEN End(p)
                                                           ELSE Proceed(p, AfterReload(p))

(* Mutant: the reload trusts the import that was there before.             *)
TrustImport(p) == At(p, "reload") /\ Proceed(p, "load")
                    /\ UNCHANGED <<conf, caddyVars, portVars>>

(* Every reload first adds the import of the snippets again if it is gone, *)
RepairImport(p) == /\ At(p, "reload")
                   /\ EnsureCaddyfile
                   /\ Proceed(p, "load")
                   /\ UNCHANGED <<conf, snippet, serving, portVars>>

RepairFails(p) == /\ At(p, "reload") /\ Event("files")
                  /\ imported' \in {imported, Ensured}
                  /\ ReloadError(p)
                  /\ UNCHANGED <<conf, snippet, serving, portVars>>

(* Caddy takes the snippets only if no site is named twice.                *)
Unambiguous(s) == \A a, b \in Apps : a # b => s[a].domains \cap s[b].domains = {}

Accepted == imported = "yes" => Unambiguous(snippet)

(* and then has Caddy take the Caddyfile it finds.                         *)
Loads(p) == /\ At(p, "load") /\ Accepted
            /\ serving' = IF imported = "yes" THEN snippet ELSE [a \in Apps |-> None]
            /\ UNCHANGED <<conf, snippet, imported, portVars>>

Reload(p) == Loads(p) /\ Proceed(p, AfterReload(p))

(* Caddy took the snippet, and then answers no probe (verifyIngress).      *)
ProbeFails(p) == /\ Loads(p) /\ Event("reload")
                 /\ Activates(p) /\ mine[p].domains # {}
                 /\ End(p)

ReloadFails(p) == /\ At(p, "load")
                  /\ ~Accepted \/ Event("reload")
                  /\ ReloadError(p)
                  /\ UNCHANGED <<conf, caddyVars, portVars>>

CanBind(a) == \A b \in Apps \ {a} : bound[b] # binds[a]

(* Mutant: a unit that is up is left alone by every command.              *)
StartIfDown(p) ==
  /\ At(p, "restart")
  /\ IF bound[app[p]] # 0
     THEN UNCHANGED bound
     ELSE CanBind(app[p]) /\ bound' = [bound EXCEPT ![app[p]] = binds[app[p]]]
  /\ Proceed(p, "report")
  /\ UNCHANGED <<conf, caddyVars, binds>>

(* The unit comes up; start leaves one that is up alone.                   *)
RestartUnit(p) ==
  /\ At(p, "restart")
  /\ IF op[p] = "start" /\ bound[app[p]] # 0
     THEN UNCHANGED bound
     ELSE CanBind(app[p]) /\ bound' = [bound EXCEPT ![app[p]] = binds[app[p]]]
  /\ Proceed(p, "report")
  /\ UNCHANGED <<conf, caddyVars, binds>>

RestartFails(p) == /\ At(p, "restart")
                   /\ op[p] = "start" => bound[app[p]] = 0
                   /\ ~CanBind(app[p]) \/ Event("restart")
                   /\ bound' = [bound EXCEPT ![app[p]] = 0]
                   /\ End(p)
                   /\ UNCHANGED <<conf, caddyVars, binds>>

-----------------------------------------------------------------------------
(* gare stop and gare destroy.                                             *)

BeginStop(p, a)    == conf[a] # None /\ Begin(p, a, "stop", "unsnippet", {})
BeginDestroy(p, a) == Begin(p, a, "destroy", "stop", {})

RemoveSnippet(p) == /\ At(p, "unsnippet")
                    /\ snippet' = [snippet EXCEPT ![app[p]] = None]
                    /\ Proceed(p, IF op[p] = "stop" THEN "reload" ELSE "delete")
                    /\ UNCHANGED <<conf, imported, serving, portVars>>

StopUnit(p) == /\ At(p, "stop")
               /\ bound' = [bound EXCEPT ![app[p]] = 0]
               /\ Proceed(p, IF op[p] = "stop" THEN "report" ELSE "unsnippet")
               /\ UNCHANGED <<conf, caddyVars, binds>>

(* The unit file is gone by now as well.                                   *)
DeleteAppStorage(p) == /\ At(p, "delete")
                       /\ conf' = [conf EXCEPT ![app[p]] = None]
                       /\ binds' = [binds EXCEPT ![app[p]] = 0]
                       /\ Proceed(p, "reload")
                       /\ UNCHANGED <<caddyVars, bound>>

-----------------------------------------------------------------------------
(* gare domain add and gare domain rm.                                     *)

BeginAdd(p, a, d)    == conf[a] # None /\ Begin(p, a, "add", "check", {d})
BeginRemove(p, a, d) == conf[a] # None /\ d \in conf[a].domains
                          /\ Begin(p, a, "remove", "saveDomains", {d})

(* Mutant: only the application's own hostnames are compared.             *)
TakenByItself(p) == arg[p] \cap mine[p].domains # {}

(* checkDomainAvailable reads every configuration; AddDomain its own.      *)
Taken(p) == arg[p] \cap (mine[p].domains \cup UNION {conf[b].domains : b \in Apps}) # {}

CheckDomainAvailable(p) == /\ At(p, "check")
                           /\ IF Taken(p) THEN End(p) ELSE Proceed(p, "saveDomains")
                           /\ UNCHANGED <<conf, caddyVars, portVars>>

SaveDomains(p) == /\ At(p, "saveDomains")
                  /\ mine' = [mine EXCEPT ![p].domains = Edited(p)]
                  /\ conf' = [conf EXCEPT ![app[p]] = mine'[p]]
                  /\ Goto(p, "syncActive")
                  /\ UNCHANGED <<op, app, arg, caddyVars, portVars>>

(* syncAndReloadIfActive: only for a unit systemd reports active.          *)
SyncIfActive(p) == /\ At(p, "syncActive")
                   /\ Proceed(p, IF bound[app[p]] # 0 THEN "snippet" ELSE "report")
                   /\ UNCHANGED <<conf, caddyVars, portVars>>

(* The command reported success.                                           *)
Report(p) == At(p, "report") /\ End(p) /\ UNCHANGED <<conf, caddyVars, portVars>>

-----------------------------------------------------------------------------
BeginNext(p) == \E a \in Apps :
  \/ BeginCreate(p, a) \/ BeginDeploy(p, a) \/ BeginStart(p, a) \/ BeginRestart(p, a)
  \/ BeginStop(p, a) \/ BeginDestroy(p, a)
  \/ \E d \in scene.hosts : BeginAdd(p, a, d) \/ BeginRemove(p, a, d)

ConfigNext(p) == \/ CloneFails(p) \/ DiscoverPort(p) \/ WriteArtifacts(p) \/ SaveMetadata(p)
                 \/ SaveFails(p)
                 \/ Pull(p) \/ SyncDeployConfig(p) \/ Prepare(p) \/ PrepareFails(p)
                 \/ CheckDomainAvailable(p) \/ SaveDomains(p) \/ SyncIfActive(p)

ServeNext(p) == \/ SyncAppIngress(p) \/ SnippetFails(p) \/ RepairImport(p) \/ RepairFails(p)
                \/ Reload(p) \/ ReloadFails(p) \/ ProbeFails(p) \/ RestartUnit(p) \/ RestartFails(p) \/ RemoveSnippet(p)
                \/ StopUnit(p) \/ DeleteAppStorage(p) \/ Report(p)

(* The operator replaces the Caddyfile by one without gare's import, or    *)
(* with a line that passes for it.                                         *)
EditCaddyfile == /\ \/ Event("edit") /\ \A p \in Procs : ~At(p, "load")
                    \/ Event("race")
                 /\ imported' \in Caddyfiles \ {imported, "yes"}
                 /\ UNCHANGED <<conf, snippet, serving, portVars, pc, localVars>>

(* gare init sees to the import too, and reloads nothing.                  *)
GareInit == /\ Event("edit") /\ imported = "no"
            /\ EnsureCaddyfile
            /\ UNCHANGED <<conf, snippet, serving, portVars, pc, localVars>>

Next == /\ \/ \E p \in scene.procs : BeginNext(p) \/ ConfigNext(p) \/ ServeNext(p)
           \/ EditCaddyfile \/ GareInit
        /\ UNCHANGED scene

Spec == Init /\ [][Next]_vars
-----------------------------------------------------------------------------
(* Properties.                                                             *)

(* One command at a time.                                                  *)
Alone == \A p, q \in scene.procs : p = q

(* Nothing fails but clones, and no Caddyfile is edited during a reload or *)
(* given a line that passes for the import: README.md says what breaks.    *)
Steady == /\ Alone
          /\ scene.compose = {}
          /\ scene.events \subseteq {"clone", "edit"}

(* No hostname belongs to two applications (checkDomainAvailable).         *)
DomainsDistinct == Alone => Unambiguous(conf)

(* No port is assigned to two applications, whatever became of the         *)
(* deploys that changed it (DiscoverAvailablePort, syncGareFilePorts).     *)
PortsDistinct ==
  Alone => \A a, b \in Apps : conf[a] # None /\ conf[a].port = conf[b].port => a = b

(* gare repairs an import that is missing before it reloads; not one that  *)
(* goes missing after that, nor a line it takes for the import.            *)
Repairable == scene.events \cap {"race", "lookalike"} = {}

(* A deploy that reports success left the workload on the port it synced,  *)
(* which is the recorded one unless the save failed, the hostnames as they *)
(* were recorded, and the running Caddy routing exactly those to that port *)
(* (activateApp).                                                          *)
DeployServes ==
  \A p \in Procs : At(p, "report") /\ op[p] = "deploy" =>
    /\ bound[app[p]] = mine[p].port
    /\ Conf(p).domains = mine[p].domains
    /\ ~Event("save") => Conf(p) = mine[p]
    /\ Repairable /\ mine[p].domains # {} => serving[app[p]] = mine[p]

(* After stop, destroy or domain rm report success the running Caddy no    *)
(* longer serves the hostnames for that application, whatever the operator *)
(* did to the Caddyfile between two reloads.                               *)
Withdrawn ==
  Steady => \A p \in Procs : At(p, "report") =>
    /\ op[p] \in {"stop", "destroy"} => serving[app[p]] = None
    /\ op[p] = "remove" => serving[app[p]].domains \cap arg[p] = {}

(* "When an application is active, adding or removing domains              *)
(* automatically updates the Caddy snippet and reloads the proxy": the     *)
(* running Caddy serves a hostname added to an active application.         *)
AddedDomainServed ==
  Steady => \A p \in Procs : At(p, "report") /\ op[p] = "add" /\ bound[app[p]] # 0 =>
    serving[app[p]].domains = Conf(p).domains

(* "ingress never routes to a port the stack does not bind": with no       *)
(* command at work, Caddy routes to the port a running workload bound.     *)
RoutesToBoundPort ==
  (\A p \in Procs : At(p, "idle")) =>
    \A a \in Apps : serving[a] # None /\ bound[a] # 0 => serving[a].port = bound[a]
=============================================================================
