--------------------------- MODULE IngressProofs ---------------------------
(***************************************************************************)
(* Proofs about Ingress: its types, that no port and no hostname belongs   *)
(* to two applications, that a deploy that reports success is served on    *)
(* the port its workload binds, and that Caddy serves what the commands    *)
(* about hostnames say it does.                                            *)
(*                                                                         *)
(* A step of one process changes its own variables and what there is of    *)
(* its own application.  The first part says so of every action; each      *)
(* invariant then asks only what the step does to those, and what the      *)
(* process may rely on is that nobody else works on its application.       *)
(***************************************************************************)
EXTENDS Ingress, TLAPS

Steps == {"idle", "clone", "artifacts", "save", "pull", "sync", "prepare",
          "snippet", "unsnippet", "delete", "reload", "load", "check", "saveDomains",
          "syncActive", "restart", "stop", "report"}
PortValues == Ports \cup {0}
Names == Commands \cup {"none"}

(* TypeOK, of what the host has and of what the processes have.            *)
HostTypes ==
  /\ imported \in {"yes", "no", "other"}
  /\ conf \in [Apps -> Sites] /\ snippet \in [Apps -> Sites] /\ serving \in [Apps -> Sites]
  /\ binds \in [Apps -> PortValues] /\ bound \in [Apps -> PortValues]

LocalTypes ==
  /\ pc \in [Procs -> Steps] /\ op \in [Procs -> Names]
  /\ app \in [Procs -> Apps] /\ mine \in [Procs -> Sites]
  /\ arg \in [Procs -> SUBSET Domains]

Types == scene \in Scenes /\ HostTypes /\ LocalTypes

(* Which command takes which step.                                         *)
PositionAt(p) ==
  \/ op[p] = "none"    /\ pc[p] = "idle"
  \/ op[p] = "create"  /\ pc[p] \in {"clone", "artifacts", "save", "report"}
  \/ op[p] = "deploy"  /\ pc[p] \in {"pull", "sync", "prepare", "snippet", "reload", "load",
                                     "restart", "report"}
  \/ op[p] \in {"start", "restart"}
                       /\ pc[p] \in {"snippet", "reload", "load", "restart", "report"}
  \/ op[p] = "stop"    /\ pc[p] \in {"unsnippet", "reload", "load", "stop", "report"}
  \/ op[p] = "destroy" /\ pc[p] \in {"stop", "unsnippet", "delete", "reload", "load", "report"}
  \/ op[p] = "add"     /\ pc[p] \in {"check", "saveDomains", "syncActive", "snippet", "reload",
                                     "load", "report"}
  \/ op[p] = "remove"  /\ pc[p] \in {"saveDomains", "syncActive", "snippet", "reload", "load",
                                     "report"}

Positions == \A p \in Procs : PositionAt(p) /\ (p \notin scene.procs => pc[p] = "idle")

(* No two processes work on one application.                               *)
Sole == Exclusive \/ Alone =>
          \A p, q \in Procs : pc[p] # "idle" /\ pc[q] # "idle" /\ app[p] = app[q] => p = q

(* What a process holds in memory is what config.json says, but for the    *)
(* port a deploy could not save.                                           *)
HeldAt(p) ==
  /\ pc[p] \in {"pull", "sync", "check", "saveDomains"} => Conf(p) = mine[p] /\ mine[p] # None
  /\ op[p] = "deploy" =>
       /\ mine[p] # None /\ Conf(p).domains = mine[p].domains
       /\ ~Event("save") => Conf(p) = mine[p]
  /\ pc[p] \in {"clone", "artifacts", "save"} => Conf(p) = None

Held == Exclusive \/ Alone => \A p \in Procs : HeldAt(p)

(* A hostname about to be saved is nobody's.                               *)
DomainAt(p) ==
  /\ pc[p] \in {"artifacts", "save"} => mine[p].domains = {}
  /\ pc[p] = "saveDomains" /\ op[p] = "add" =>
       \A b \in Apps : arg[p] \cap conf[b].domains = {}

DomainInv == Alone => Unambiguous(conf) /\ \A p \in Procs : DomainAt(p)

(* A port about to be saved is nobody's.                                   *)
PortAt(p) == pc[p] \in {"artifacts", "save"} =>
               mine[p].port # 0 /\ \A b \in Apps : conf[b].port # mine[p].port

PortInv == Alone =>
  /\ \A a, b \in Apps : conf[a] # None /\ conf[a].port = conf[b].port => a = b
  /\ \A a \in Apps : conf[a] # None => conf[a].port # 0
  /\ \A p \in Procs : PortAt(p)

(* What a deploy has done so far is not undone by other applications.      *)
DeployAt(p) == op[p] = "deploy" =>
  /\ pc[p] \in {"snippet", "reload", "load", "restart"} => binds[app[p]] = mine[p].port
  /\ pc[p] = "report" => bound[app[p]] = mine[p].port
  /\ mine[p].domains # {} =>
       /\ pc[p] \in {"reload", "load", "restart", "report"} => snippet[app[p]] = mine[p]
       /\ Repairable /\ pc[p] \in {"restart", "report"} => serving[app[p]] = mine[p]

(* Between its repair and its reload the import is there.                  *)
ImportInv == Repairable =>
  /\ imported # "other"
  /\ \A p \in Procs : pc[p] = "load" => imported = "yes"

DeployInv == Exclusive => \A p \in Procs : DeployAt(p)

IInv == Types /\ Positions /\ Sole /\ Held /\ DomainInv /\ PortInv /\ ImportInv /\ DeployInv

-----------------------------------------------------------------------------
(* A step of p leaves the other processes alone, ...                       *)
Others(p) ==
  \A q \in Procs : q # p =>
    /\ pc'[q] = pc[q] /\ op'[q] = op[q] /\ app'[q] = app[q]
    /\ mine'[q] = mine[q] /\ arg'[q] = arg[q]

(* ... and the applications it does not work on, but for a reload.         *)
Elsewhere(p) ==
  \A b \in Apps : pc[p] = "idle" \/ b # app[p] =>
    /\ conf'[b] = conf[b] /\ snippet'[b] = snippet[b]
    /\ binds'[b] = binds[b] /\ bound'[b] = bound[b]
    /\ \/ serving'[b] \in {serving[b], snippet[b]}
       \/ pc[p] = "load" /\ imported # "yes"

Kept(p) == op'[p] = op[p] /\ app'[p] = app[p] /\ mine'[p] = mine[p] /\ arg'[p] = arg[p]

(* TypeOK in its parts.                                                    *)
LEMMA TypesOfTypeOK == TypeOK <=> Types
BY DEF TypeOK, Types, HostTypes, LocalTypes, Steps, Names, PortValues

(* A scene takes its processes from Procs.                                 *)
LEMMA SceneTypes ==
  ASSUME Types
  PROVE  /\ scene.procs \subseteq Procs /\ scene.hosts \subseteq Domains
         /\ scene.ports \subseteq Ports
BY IngressAssumption DEF Types

(* A new step, and nothing else.                                           *)
LEMMA GotoLocal ==
  ASSUME LocalTypes, NEW p \in Procs, NEW s \in Steps, Goto(p, s)
  PROVE  /\ pc' \in [Procs -> Steps] /\ pc'[p] = s
         /\ \A q \in Procs : q # p => pc'[q] = pc[q]
BY DEF LocalTypes, Goto

(* The next step of a command that goes on.                                *)
LEMMA ProceedLocal ==
  ASSUME LocalTypes, NEW p \in Procs, NEW s \in Steps, Proceed(p, s)
  PROVE  LocalTypes' /\ Others(p) /\ Kept(p) /\ pc'[p] = s
BY GotoLocal DEF Proceed, localVars, Others, Kept, LocalTypes

(* A command that is over.                                                 *)
LEMMA EndLocal ==
  ASSUME LocalTypes, NEW p \in Procs, End(p)
  PROVE  /\ LocalTypes' /\ Others(p)
         /\ pc'[p] = "idle" /\ op'[p] = "none" /\ app'[p] = app[p]
<1>1. None \in Sites
  BY DEF None, Sites
<1>2. pc' \in [Procs -> Steps] /\ pc'[p] = "idle" /\ \A q \in Procs : q # p => pc'[q] = pc[q]
  BY GotoLocal DEF End, Steps
<1>3. QED
  BY <1>1, <1>2 DEF End, Others, LocalTypes, Names

(* A command that begins.                                                  *)
LEMMA BeginLocal ==
  ASSUME LocalTypes, HostTypes, NEW p \in Procs, NEW a \in Apps,
         NEW command \in Names, NEW s \in Steps, NEW hosts \in SUBSET Domains,
         Begin(p, a, command, s, hosts)
  PROVE  /\ LocalTypes' /\ Others(p)
         /\ pc[p] = "idle" /\ pc'[p] = s /\ op'[p] = command /\ app'[p] = a
         /\ mine'[p] = conf[a] /\ arg'[p] = hosts
         /\ Free(a)
         /\ UNCHANGED <<conf, caddyVars, portVars>>
<1>1. pc' \in [Procs -> Steps] /\ pc'[p] = s /\ \A q \in Procs : q # p => pc'[q] = pc[q]
  BY GotoLocal DEF Begin
<1>2. conf[a] \in Sites
  BY DEF HostTypes
<1>3. QED
  BY <1>1, <1>2 DEF Begin, Others, LocalTypes

(* What a command begins with.                                             *)
BeginsAt(p) == \E a \in Apps :
  /\ app'[p] = a /\ Free(a) /\ mine'[p] = conf[a]
  /\ \/ conf[a] = None /\ op'[p] = "create" /\ pc'[p] = "clone"
     \/ op'[p] = "destroy" /\ pc'[p] = "stop"
     \/ /\ conf[a] # None
        /\ \/ op'[p] = "deploy" /\ pc'[p] = "pull"
           \/ op'[p] \in {"start", "restart"} /\ pc'[p] = "snippet"
           \/ op'[p] = "stop" /\ pc'[p] = "unsnippet"
           \/ op'[p] = "add" /\ pc'[p] = "check"
           \/ op'[p] = "remove" /\ pc'[p] = "saveDomains"

(* Every command begins so, on an application nobody works on.             *)
LEMMA BeginStep ==
  ASSUME Types, NEW p \in scene.procs, BeginNext(p)
  PROVE  /\ LocalTypes' /\ Others(p)
         /\ pc[p] = "idle" /\ BeginsAt(p)
         /\ UNCHANGED <<conf, caddyVars, portVars>>
<1>1. p \in Procs /\ LocalTypes /\ HostTypes
  BY SceneTypes DEF Types
<1>2. PICK a \in Apps :
         \/ BeginCreate(p, a) \/ BeginDeploy(p, a) \/ BeginStart(p, a) \/ BeginRestart(p, a)
         \/ BeginStop(p, a) \/ BeginDestroy(p, a)
         \/ \E d \in scene.hosts : BeginAdd(p, a, d) \/ BeginRemove(p, a, d)
  BY DEF BeginNext
<1>3. ASSUME BeginCreate(p, a)
      PROVE  /\ LocalTypes' /\ Others(p) /\ pc[p] = "idle" /\ BeginsAt(p)
             /\ UNCHANGED <<conf, caddyVars, portVars>>
  <2>1. "create" \in Names /\ "clone" \in Steps
    BY DEF Names, Commands, Steps
  <2>2. QED
    BY <1>1, <1>3, <2>1, BeginLocal DEF BeginCreate, BeginsAt
<1>4. ASSUME BeginDeploy(p, a)
      PROVE  /\ LocalTypes' /\ Others(p) /\ pc[p] = "idle" /\ BeginsAt(p)
             /\ UNCHANGED <<conf, caddyVars, portVars>>
  <2>1. "deploy" \in Names /\ "pull" \in Steps
    BY DEF Names, Commands, Steps
  <2>2. QED
    BY <1>1, <1>4, <2>1, BeginLocal DEF BeginDeploy, BeginsAt
<1>5. ASSUME BeginStart(p, a)
      PROVE  /\ LocalTypes' /\ Others(p) /\ pc[p] = "idle" /\ BeginsAt(p)
             /\ UNCHANGED <<conf, caddyVars, portVars>>
  <2>1. "start" \in Names /\ "snippet" \in Steps
    BY DEF Names, Commands, Steps
  <2>2. QED
    BY <1>1, <1>5, <2>1, BeginLocal DEF BeginStart, BeginsAt
<1>6. ASSUME BeginRestart(p, a)
      PROVE  /\ LocalTypes' /\ Others(p) /\ pc[p] = "idle" /\ BeginsAt(p)
             /\ UNCHANGED <<conf, caddyVars, portVars>>
  <2>1. "restart" \in Names /\ "snippet" \in Steps
    BY DEF Names, Commands, Steps
  <2>2. QED
    BY <1>1, <1>6, <2>1, BeginLocal DEF BeginRestart, BeginsAt
<1>7. ASSUME BeginStop(p, a)
      PROVE  /\ LocalTypes' /\ Others(p) /\ pc[p] = "idle" /\ BeginsAt(p)
             /\ UNCHANGED <<conf, caddyVars, portVars>>
  <2>1. "stop" \in Names /\ "unsnippet" \in Steps
    BY DEF Names, Commands, Steps
  <2>2. QED
    BY <1>1, <1>7, <2>1, BeginLocal DEF BeginStop, BeginsAt
<1>8. ASSUME BeginDestroy(p, a)
      PROVE  /\ LocalTypes' /\ Others(p) /\ pc[p] = "idle" /\ BeginsAt(p)
             /\ UNCHANGED <<conf, caddyVars, portVars>>
  <2>1. "destroy" \in Names /\ "stop" \in Steps
    BY DEF Names, Commands, Steps
  <2>2. QED
    BY <1>1, <1>8, <2>1, BeginLocal DEF BeginDestroy, BeginsAt
<1>9. ASSUME NEW d \in scene.hosts, BeginAdd(p, a, d)
      PROVE  /\ LocalTypes' /\ Others(p) /\ pc[p] = "idle" /\ BeginsAt(p)
             /\ UNCHANGED <<conf, caddyVars, portVars>>
  <2>1. "add" \in Names /\ "check" \in Steps
    BY DEF Names, Commands, Steps
  <2>2. {d} \in SUBSET Domains
    BY SceneTypes
  <2>3. QED
    BY <1>1, <1>9, <2>1, <2>2, BeginLocal DEF BeginAdd, BeginsAt
<1>10. ASSUME NEW d \in scene.hosts, BeginRemove(p, a, d)
      PROVE  /\ LocalTypes' /\ Others(p) /\ pc[p] = "idle" /\ BeginsAt(p)
             /\ UNCHANGED <<conf, caddyVars, portVars>>
  <2>1. "remove" \in Names /\ "saveDomains" \in Steps
    BY DEF Names, Commands, Steps
  <2>2. {d} \in SUBSET Domains
    BY SceneTypes
  <2>3. QED
    BY <1>1, <1>10, <2>1, <2>2, BeginLocal DEF BeginRemove, BeginsAt
<1>11. QED
  BY <1>2, <1>3, <1>4, <1>5, <1>6, <1>7, <1>8, <1>9, <1>10

(* The steps and the values a command may take.                            *)
LEMMA ValueTypes ==
  ASSUME Types, NEW p \in scene.procs
  PROVE  /\ p \in Procs /\ app[p] \in Apps /\ mine[p] \in Sites /\ arg[p] \in SUBSET Domains
         /\ LocalTypes /\ HostTypes
         /\ None \in Sites /\ 0 \in PortValues /\ mine[p].port \in PortValues
         /\ scene.ports \subseteq PortValues
         /\ \A s \in Sites, d \in SUBSET Domains, pt \in PortValues :
              /\ [domains |-> d, port |-> pt] \in Sites
              /\ [s EXCEPT !.domains = d] \in Sites
              /\ [s EXCEPT !.port = pt] \in Sites
BY SceneTypes DEF Types, LocalTypes, Sites, None, PortValues

(* What a save that fails may leave.                                       *)
LEMMA FailedSave ==
  ASSUME Types, NEW p \in scene.procs, SaveFails(p)
  PROVE  \E s \in Sites :
           /\ conf' = conf \/ conf' = [conf EXCEPT ![app[p]] = s]
           /\ s.port = mine[p].port
           /\ pc[p] = "save" => s.domains = mine[p].domains
           /\ pc[p] = "saveDomains" => s.domains = Edited(p)
<1>1. Edited(p) \in SUBSET Domains
  BY ValueTypes DEF Edited, Sites
<1>2. [mine[p] EXCEPT !.domains = Edited(p)] \in Sites
  BY <1>1, ValueTypes
<1>3. CASE pc[p] = "save"
  BY <1>3, ValueTypes DEF SaveFails, At
<1>4. CASE pc[p] = "saveDomains"
  <2>1. conf' \in {conf, [conf EXCEPT ![app[p]] = [mine[p] EXCEPT !.domains = Edited(p)]]}
    BY <1>4 DEF SaveFails, At
  <2>2. QED
    BY <1>2, <1>4, <2>1, ValueTypes DEF Sites
<1>5. QED
  BY <1>3, <1>4 DEF SaveFails

(* A deploy syncs a port that is its own or nobody's, and saves it or not. *)
LEMMA SyncedPort ==
  ASSUME Types, NEW p \in scene.procs, SyncDeployConfig(p)
  PROVE  \E pt \in scene.ports :
           /\ pt \in PortValues /\ pt # 0
           /\ pt # mine[p].port => Available(pt)
           /\ mine' = [mine EXCEPT ![p].port = pt] /\ mine' \in [Procs -> Sites]
           /\ mine'[p].port = pt /\ mine'[p].domains = mine[p].domains
           /\ \/ conf' = [conf EXCEPT ![app[p]] = mine'[p]]
              \/ Event("save") /\ conf' = conf
<1>1. PICK pt \in scene.ports :
        /\ pt # mine[p].port => Available(pt)
        /\ mine' = [mine EXCEPT ![p].port = pt]
        /\ \/ conf' = [conf EXCEPT ![app[p]] = mine'[p]]
           \/ Event("save") /\ conf' = conf
  BY DEF SyncDeployConfig
<1>2. pt \in PortValues /\ pt # 0
  BY SceneTypes, IngressAssumption DEF PortValues
<1>3. mine' \in [Procs -> Sites] /\ mine'[p].port = pt /\ mine'[p].domains = mine[p].domains
  BY <1>1, <1>2, ValueTypes DEF LocalTypes, Sites
<1>4. QED
  BY <1>1, <1>2, <1>3

(* A step keeps the types, and leaves alone what is not its own.           *)
LEMMA LocalStep ==
  ASSUME Types, NEW p \in scene.procs, UNCHANGED scene,
         BeginNext(p) \/ ConfigNext(p) \/ ServeNext(p)
  PROVE  Types' /\ Others(p) /\ Elsewhere(p)
<1> USE DEF caddyVars, portVars, Types, HostTypes, Elsewhere, At, Steps
<1>1. CASE CloneFails(p)
  BY <1>1, ValueTypes, EndLocal
     DEF CloneFails
<1>2. CASE DiscoverPort(p)
  <2>1. PICK pt \in scene.ports : mine' = [mine EXCEPT ![p] = [domains |-> {}, port |-> pt]]
    BY <1>2 DEF DiscoverPort
  <2>2. mine' \in [Procs -> Sites] /\ \A q \in Procs : q # p => mine'[q] = mine[q]
    <3>1. [domains |-> {}, port |-> pt] \in Sites
      BY ValueTypes
    <3>2. QED
      BY <2>1, <3>1, ValueTypes DEF LocalTypes
  <2>3. LocalTypes' /\ Others(p)
    BY <1>2, <2>2, ValueTypes, GotoLocal DEF DiscoverPort, LocalTypes, Others
  <2>4. QED
    BY <1>2, <2>3, ValueTypes DEF DiscoverPort
<1>3. CASE WriteArtifacts(p)
  BY <1>3, ValueTypes, ProceedLocal
     DEF WriteArtifacts
<1>4. CASE SaveMetadata(p)
  BY <1>4, ValueTypes, ProceedLocal
     DEF SaveMetadata
<1>5. CASE SaveFails(p)
  <2>1. PICK s \in Sites : conf' = conf \/ conf' = [conf EXCEPT ![app[p]] = s]
    BY <1>5, FailedSave
  <2>2. QED
    BY <1>5, <2>1, ValueTypes, EndLocal DEF SaveFails
<1>6. CASE Pull(p)
  BY <1>6, ValueTypes, ProceedLocal
     DEF Pull
<1>7. CASE SyncDeployConfig(p)
  <2>1. /\ conf' = conf \/ conf' = [conf EXCEPT ![app[p]] = mine'[p]]
        /\ mine' \in [Procs -> Sites] /\ \A q \in Procs : q # p => mine'[q] = mine[q]
    BY <1>7, SyncedPort, ValueTypes DEF LocalTypes
  <2>2. LocalTypes' /\ Others(p)
    BY <1>7, <2>1, ValueTypes, GotoLocal DEF SyncDeployConfig, LocalTypes, Others
  <2>3. QED
    BY <1>7, <2>1, <2>2, ValueTypes DEF SyncDeployConfig, LocalTypes
<1>8. CASE Prepare(p)
  BY <1>8, ValueTypes, ProceedLocal
     DEF Prepare
<1>9. CASE PrepareFails(p)
  BY <1>9, ValueTypes, EndLocal
     DEF PrepareFails
<1>10. CASE CheckDomainAvailable(p)
  BY <1>10, ValueTypes, ProceedLocal, EndLocal
     DEF CheckDomainAvailable
<1>11. CASE SaveDomains(p)
  <2>1. Edited(p) \in SUBSET Domains
    BY ValueTypes DEF Edited, Sites
  <2>2. mine' \in [Procs -> Sites] /\ \A q \in Procs : q # p => mine'[q] = mine[q]
    BY <1>11, <2>1, ValueTypes DEF SaveDomains, LocalTypes
  <2>3. LocalTypes' /\ Others(p)
    BY <1>11, <2>2, ValueTypes, GotoLocal DEF SaveDomains, LocalTypes, Others
  <2>4. QED
    BY <1>11, <2>2, <2>3, ValueTypes DEF SaveDomains
<1>12. CASE SyncIfActive(p)
  BY <1>12, ValueTypes, ProceedLocal
     DEF SyncIfActive
<1>13. CASE SyncAppIngress(p)
  BY <1>13, ValueTypes, ProceedLocal
     DEF SyncAppIngress, Synced, EnsuredFor, Ensured
<1>14. CASE SnippetFails(p)
  BY <1>14, ValueTypes, ProceedLocal, EndLocal
     DEF SnippetFails, Synced, Ensured
<1>15. CASE RepairImport(p)
  BY <1>15, ValueTypes, ProceedLocal
     DEF RepairImport, EnsureCaddyfile, Ensured
<1>16. CASE RepairFails(p)
  BY <1>16, ValueTypes, ProceedLocal, EndLocal
     DEF RepairFails, ReloadError, AfterReload, Ensured
<1>17. CASE Reload(p)
  BY <1>17, ValueTypes, ProceedLocal
     DEF Reload, Loads, AfterReload
<1>18. CASE ReloadFails(p)
  BY <1>18, ValueTypes, ProceedLocal, EndLocal
     DEF ReloadFails, ReloadError, AfterReload
<1>19. CASE ProbeFails(p)
  BY <1>19, ValueTypes, EndLocal
     DEF ProbeFails, Loads
<1>20. CASE RestartUnit(p)
  BY <1>20, ValueTypes, ProceedLocal
     DEF RestartUnit
<1>21. CASE RestartFails(p)
  BY <1>21, ValueTypes, EndLocal
     DEF RestartFails
<1>22. CASE RemoveSnippet(p)
  BY <1>22, ValueTypes, ProceedLocal
     DEF RemoveSnippet
<1>23. CASE StopUnit(p)
  BY <1>23, ValueTypes, ProceedLocal
     DEF StopUnit
<1>24. CASE DeleteAppStorage(p)
  BY <1>24, ValueTypes, ProceedLocal
     DEF DeleteAppStorage
<1>25. CASE Report(p)
  BY <1>25, ValueTypes, EndLocal
     DEF Report
<1>26. CASE BeginNext(p)
  BY <1>26, ValueTypes, BeginStep
<1>27. QED
  BY <1>1, <1>2, <1>3, <1>4, <1>5, <1>6, <1>7, <1>8, <1>9, <1>10, <1>11,
     <1>12, <1>13, <1>14, <1>15, <1>16, <1>17, <1>18, <1>19, <1>20, <1>21,
     <1>22, <1>23, <1>24, <1>25, <1>26
     DEF ConfigNext, ServeNext

(* A process that works stays with its application, or begins.             *)
LEMMA AppStep ==
  ASSUME Types, NEW p \in scene.procs, UNCHANGED scene,
         BeginNext(p) \/ ConfigNext(p) \/ ServeNext(p)
  PROVE  \/ pc[p] # "idle" /\ app'[p] = app[p]
         \/ pc[p] = "idle" /\ BeginsAt(p) /\ UNCHANGED <<conf, caddyVars, portVars>>
<1> USE DEF At, Kept, Steps
<1>1. CASE CloneFails(p)
  BY <1>1, ValueTypes, EndLocal
     DEF CloneFails
<1>2. CASE DiscoverPort(p)
  BY <1>2, ValueTypes, GotoLocal
     DEF DiscoverPort
<1>3. CASE WriteArtifacts(p)
  BY <1>3, ValueTypes, ProceedLocal
     DEF WriteArtifacts
<1>4. CASE SaveMetadata(p)
  BY <1>4, ValueTypes, ProceedLocal
     DEF SaveMetadata
<1>5. CASE SaveFails(p)
  BY <1>5, ValueTypes, EndLocal
     DEF SaveFails
<1>6. CASE Pull(p)
  BY <1>6, ValueTypes, ProceedLocal
     DEF Pull
<1>7. CASE SyncDeployConfig(p)
  BY <1>7, ValueTypes, GotoLocal
     DEF SyncDeployConfig
<1>8. CASE Prepare(p)
  BY <1>8, ValueTypes, ProceedLocal
     DEF Prepare
<1>9. CASE PrepareFails(p)
  BY <1>9, ValueTypes, EndLocal
     DEF PrepareFails
<1>10. CASE CheckDomainAvailable(p)
  BY <1>10, ValueTypes, ProceedLocal, EndLocal
     DEF CheckDomainAvailable
<1>11. CASE SaveDomains(p)
  BY <1>11, ValueTypes, GotoLocal
     DEF SaveDomains
<1>12. CASE SyncIfActive(p)
  BY <1>12, ValueTypes, ProceedLocal
     DEF SyncIfActive
<1>13. CASE SyncAppIngress(p)
  BY <1>13, ValueTypes, ProceedLocal
     DEF SyncAppIngress, Synced, EnsuredFor, Ensured
<1>14. CASE SnippetFails(p)
  BY <1>14, ValueTypes, ProceedLocal, EndLocal
     DEF SnippetFails, Synced, Ensured
<1>15. CASE RepairImport(p)
  BY <1>15, ValueTypes, ProceedLocal
     DEF RepairImport, EnsureCaddyfile, Ensured
<1>16. CASE RepairFails(p)
  BY <1>16, ValueTypes, ProceedLocal, EndLocal
     DEF RepairFails, ReloadError, AfterReload, Ensured
<1>17. CASE Reload(p)
  BY <1>17, ValueTypes, ProceedLocal
     DEF Reload, Loads, AfterReload
<1>18. CASE ReloadFails(p)
  BY <1>18, ValueTypes, ProceedLocal, EndLocal
     DEF ReloadFails, ReloadError, AfterReload
<1>19. CASE ProbeFails(p)
  BY <1>19, ValueTypes, EndLocal
     DEF ProbeFails, Loads
<1>20. CASE RestartUnit(p)
  BY <1>20, ValueTypes, ProceedLocal
     DEF RestartUnit
<1>21. CASE RestartFails(p)
  BY <1>21, ValueTypes, EndLocal
     DEF RestartFails
<1>22. CASE RemoveSnippet(p)
  BY <1>22, ValueTypes, ProceedLocal
     DEF RemoveSnippet
<1>23. CASE StopUnit(p)
  BY <1>23, ValueTypes, ProceedLocal
     DEF StopUnit
<1>24. CASE DeleteAppStorage(p)
  BY <1>24, ValueTypes, ProceedLocal
     DEF DeleteAppStorage
<1>25. CASE Report(p)
  BY <1>25, ValueTypes, EndLocal
     DEF Report
<1>26. CASE BeginNext(p)
  BY <1>26, BeginStep
<1>27. QED
  BY <1>1, <1>2, <1>3, <1>4, <1>5, <1>6, <1>7, <1>8, <1>9, <1>10, <1>11,
     <1>12, <1>13, <1>14, <1>15, <1>16, <1>17, <1>18, <1>19, <1>20, <1>21,
     <1>22, <1>23, <1>24, <1>25, <1>26
     DEF ConfigNext, ServeNext

(* The import is repaired, if anything, and was before a reload.           *)
LEMMA ImportActor ==
  ASSUME Types, NEW p \in scene.procs, UNCHANGED scene,
         BeginNext(p) \/ ConfigNext(p) \/ ServeNext(p)
  PROVE  /\ imported' \in {imported, Ensured}
         /\ pc'[p] = "load" => imported' = Ensured
<1> USE DEF At, Kept, Steps, Activates, EnsuredFor, caddyVars
<1>1. CASE CloneFails(p)
  BY <1>1, ValueTypes, EndLocal
     DEF CloneFails
<1>2. CASE DiscoverPort(p)
  BY <1>2, ValueTypes, GotoLocal
     DEF DiscoverPort
<1>3. CASE WriteArtifacts(p)
  BY <1>3, ValueTypes, ProceedLocal
     DEF WriteArtifacts
<1>4. CASE SaveMetadata(p)
  BY <1>4, ValueTypes, ProceedLocal
     DEF SaveMetadata
<1>5. CASE SaveFails(p)
  BY <1>5, ValueTypes, EndLocal
     DEF SaveFails
<1>6. CASE Pull(p)
  BY <1>6, ValueTypes, ProceedLocal
     DEF Pull
<1>7. CASE SyncDeployConfig(p)
  BY <1>7, ValueTypes, GotoLocal
     DEF SyncDeployConfig
<1>8. CASE Prepare(p)
  BY <1>8, ValueTypes, ProceedLocal
     DEF Prepare
<1>9. CASE PrepareFails(p)
  BY <1>9, ValueTypes, EndLocal
     DEF PrepareFails
<1>10. CASE CheckDomainAvailable(p)
  BY <1>10, ValueTypes, ProceedLocal, EndLocal
     DEF CheckDomainAvailable
<1>11. CASE SaveDomains(p)
  BY <1>11, ValueTypes, GotoLocal
     DEF SaveDomains
<1>12. CASE SyncIfActive(p)
  BY <1>12, ValueTypes, ProceedLocal
     DEF SyncIfActive
<1>13. CASE SyncAppIngress(p)
  BY <1>13, ValueTypes, ProceedLocal
     DEF SyncAppIngress, Synced, EnsuredFor, Ensured
<1>14. CASE SnippetFails(p)
  BY <1>14, ValueTypes, ProceedLocal, EndLocal
     DEF SnippetFails, Synced, Ensured
<1>15. CASE RepairImport(p)
  BY <1>15, ValueTypes, ProceedLocal
     DEF RepairImport, EnsureCaddyfile, Ensured
<1>16. CASE RepairFails(p)
  BY <1>16, ValueTypes, ProceedLocal, EndLocal
     DEF RepairFails, ReloadError, AfterReload, Ensured
<1>17. CASE Reload(p)
  BY <1>17, ValueTypes, ProceedLocal
     DEF Reload, Loads, AfterReload
<1>18. CASE ReloadFails(p)
  BY <1>18, ValueTypes, ProceedLocal, EndLocal
     DEF ReloadFails, ReloadError, AfterReload
<1>19. CASE ProbeFails(p)
  BY <1>19, ValueTypes, EndLocal
     DEF ProbeFails, Loads
<1>20. CASE RestartUnit(p)
  BY <1>20, ValueTypes, ProceedLocal
     DEF RestartUnit
<1>21. CASE RestartFails(p)
  BY <1>21, ValueTypes, EndLocal
     DEF RestartFails
<1>22. CASE RemoveSnippet(p)
  BY <1>22, ValueTypes, ProceedLocal
     DEF RemoveSnippet
<1>23. CASE StopUnit(p)
  BY <1>23, ValueTypes, ProceedLocal
     DEF StopUnit
<1>24. CASE DeleteAppStorage(p)
  BY <1>24, ValueTypes, ProceedLocal
     DEF DeleteAppStorage
<1>25. CASE Report(p)
  BY <1>25, ValueTypes, EndLocal
     DEF Report
<1>26. CASE BeginNext(p)
  BY <1>26, BeginStep DEF BeginsAt
<1>27. QED
  BY <1>1, <1>2, <1>3, <1>4, <1>5, <1>6, <1>7, <1>8, <1>9, <1>10, <1>11,
     <1>12, <1>13, <1>14, <1>15, <1>16, <1>17, <1>18, <1>19, <1>20, <1>21,
     <1>22, <1>23, <1>24, <1>25, <1>26
     DEF ConfigNext, ServeNext

(* The command goes on as its steps say.                                   *)
LEMMA PositionActor ==
  ASSUME Types, NEW p \in scene.procs, UNCHANGED scene, PositionAt(p),
         BeginNext(p) \/ ConfigNext(p) \/ ServeNext(p)
  PROVE  PositionAt(p)'
<1> USE DEF At, Kept, Steps, PositionAt, Activates
<1>1. CASE CloneFails(p)
  BY <1>1, ValueTypes, EndLocal
     DEF CloneFails
<1>2. CASE DiscoverPort(p)
  BY <1>2, ValueTypes, GotoLocal
     DEF DiscoverPort
<1>3. CASE WriteArtifacts(p)
  BY <1>3, ValueTypes, ProceedLocal
     DEF WriteArtifacts
<1>4. CASE SaveMetadata(p)
  BY <1>4, ValueTypes, ProceedLocal
     DEF SaveMetadata
<1>5. CASE SaveFails(p)
  BY <1>5, ValueTypes, EndLocal
     DEF SaveFails
<1>6. CASE Pull(p)
  BY <1>6, ValueTypes, ProceedLocal
     DEF Pull
<1>7. CASE SyncDeployConfig(p)
  BY <1>7, ValueTypes, GotoLocal
     DEF SyncDeployConfig
<1>8. CASE Prepare(p)
  BY <1>8, ValueTypes, ProceedLocal
     DEF Prepare
<1>9. CASE PrepareFails(p)
  BY <1>9, ValueTypes, EndLocal
     DEF PrepareFails
<1>10. CASE CheckDomainAvailable(p)
  BY <1>10, ValueTypes, ProceedLocal, EndLocal
     DEF CheckDomainAvailable
<1>11. CASE SaveDomains(p)
  BY <1>11, ValueTypes, GotoLocal
     DEF SaveDomains
<1>12. CASE SyncIfActive(p)
  BY <1>12, ValueTypes, ProceedLocal
     DEF SyncIfActive
<1>13. CASE SyncAppIngress(p)
  BY <1>13, ValueTypes, ProceedLocal
     DEF SyncAppIngress, Synced, EnsuredFor, Ensured
<1>14. CASE SnippetFails(p)
  BY <1>14, ValueTypes, ProceedLocal, EndLocal
     DEF SnippetFails, Synced, Ensured
<1>15. CASE RepairImport(p)
  BY <1>15, ValueTypes, ProceedLocal
     DEF RepairImport, EnsureCaddyfile, Ensured
<1>16. CASE RepairFails(p)
  BY <1>16, ValueTypes, ProceedLocal, EndLocal
     DEF RepairFails, ReloadError, AfterReload, Ensured
<1>17. CASE Reload(p)
  BY <1>17, ValueTypes, ProceedLocal
     DEF Reload, Loads, AfterReload
<1>18. CASE ReloadFails(p)
  BY <1>18, ValueTypes, ProceedLocal, EndLocal
     DEF ReloadFails, ReloadError, AfterReload
<1>19. CASE ProbeFails(p)
  BY <1>19, ValueTypes, EndLocal
     DEF ProbeFails, Loads
<1>20. CASE RestartUnit(p)
  BY <1>20, ValueTypes, ProceedLocal
     DEF RestartUnit
<1>21. CASE RestartFails(p)
  BY <1>21, ValueTypes, EndLocal
     DEF RestartFails
<1>22. CASE RemoveSnippet(p)
  BY <1>22, ValueTypes, ProceedLocal
     DEF RemoveSnippet
<1>23. CASE StopUnit(p)
  BY <1>23, ValueTypes, ProceedLocal
     DEF StopUnit
<1>24. CASE DeleteAppStorage(p)
  BY <1>24, ValueTypes, ProceedLocal
     DEF DeleteAppStorage
<1>25. CASE Report(p)
  BY <1>25, ValueTypes, EndLocal
     DEF Report
<1>26. CASE BeginNext(p)
  BY <1>26, BeginStep DEF BeginsAt
<1>27. QED
  BY <1>1, <1>2, <1>3, <1>4, <1>5, <1>6, <1>7, <1>8, <1>9, <1>10, <1>11,
     <1>12, <1>13, <1>14, <1>15, <1>16, <1>17, <1>18, <1>19, <1>20, <1>21,
     <1>22, <1>23, <1>24, <1>25, <1>26
     DEF ConfigNext, ServeNext

(* What it saves is what it holds.                                         *)
LEMMA HeldActor ==
  ASSUME Types, NEW p \in scene.procs, UNCHANGED scene, PositionAt(p), HeldAt(p),
         BeginNext(p) \/ ConfigNext(p) \/ ServeNext(p)
  PROVE  HeldAt(p)'
<1> USE DEF At, Kept, Steps, PositionAt, Activates, HeldAt, Conf, Event, HostTypes,
            LocalTypes
<1>1. CASE CloneFails(p)
  BY <1>1, ValueTypes, EndLocal
     DEF CloneFails
<1>2. CASE DiscoverPort(p)
  BY <1>2, ValueTypes, GotoLocal
     DEF DiscoverPort
<1>3. CASE WriteArtifacts(p)
  BY <1>3, ValueTypes, ProceedLocal
     DEF WriteArtifacts
<1>4. CASE SaveMetadata(p)
  BY <1>4, ValueTypes, ProceedLocal
     DEF SaveMetadata
<1>5. CASE SaveFails(p)
  BY <1>5, ValueTypes, EndLocal
     DEF SaveFails
<1>6. CASE Pull(p)
  BY <1>6, ValueTypes, ProceedLocal
     DEF Pull
<1>7. CASE SyncDeployConfig(p)
  <2>1. /\ mine'[p] # None /\ mine'[p].domains = mine[p].domains
        /\ \/ conf'[app[p]] = mine'[p]
           \/ Event("save") /\ conf'[app[p]] = conf[app[p]]
    BY <1>7, SyncedPort, ValueTypes DEF None
  <2>2. app'[p] = app[p] /\ pc'[p] = "prepare"
    BY <1>7, ValueTypes, GotoLocal DEF SyncDeployConfig
  <2>3. Conf(p) = mine[p]
    BY <1>7 DEF SyncDeployConfig
  <2>4. QED
    BY <2>1, <2>2, <2>3
<1>8. CASE Prepare(p)
  BY <1>8, ValueTypes, ProceedLocal
     DEF Prepare
<1>9. CASE PrepareFails(p)
  BY <1>9, ValueTypes, EndLocal
     DEF PrepareFails
<1>10. CASE CheckDomainAvailable(p)
  BY <1>10, ValueTypes, ProceedLocal, EndLocal
     DEF CheckDomainAvailable
<1>11. CASE SaveDomains(p)
  BY <1>11, ValueTypes, GotoLocal
     DEF SaveDomains
<1>12. CASE SyncIfActive(p)
  BY <1>12, ValueTypes, ProceedLocal
     DEF SyncIfActive
<1>13. CASE SyncAppIngress(p)
  BY <1>13, ValueTypes, ProceedLocal
     DEF SyncAppIngress, Synced, EnsuredFor, Ensured
<1>14. CASE SnippetFails(p)
  BY <1>14, ValueTypes, ProceedLocal, EndLocal
     DEF SnippetFails, Synced, Ensured
<1>15. CASE RepairImport(p)
  BY <1>15, ValueTypes, ProceedLocal
     DEF RepairImport, EnsureCaddyfile, Ensured
<1>16. CASE RepairFails(p)
  BY <1>16, ValueTypes, ProceedLocal, EndLocal
     DEF RepairFails, ReloadError, AfterReload, Ensured
<1>17. CASE Reload(p)
  BY <1>17, ValueTypes, ProceedLocal
     DEF Reload, Loads, AfterReload
<1>18. CASE ReloadFails(p)
  BY <1>18, ValueTypes, ProceedLocal, EndLocal
     DEF ReloadFails, ReloadError, AfterReload
<1>19. CASE ProbeFails(p)
  BY <1>19, ValueTypes, EndLocal
     DEF ProbeFails, Loads
<1>20. CASE RestartUnit(p)
  BY <1>20, ValueTypes, ProceedLocal
     DEF RestartUnit
<1>21. CASE RestartFails(p)
  BY <1>21, ValueTypes, EndLocal
     DEF RestartFails
<1>22. CASE RemoveSnippet(p)
  BY <1>22, ValueTypes, ProceedLocal
     DEF RemoveSnippet
<1>23. CASE StopUnit(p)
  BY <1>23, ValueTypes, ProceedLocal
     DEF StopUnit
<1>24. CASE DeleteAppStorage(p)
  BY <1>24, ValueTypes, ProceedLocal
     DEF DeleteAppStorage
<1>25. CASE Report(p)
  BY <1>25, ValueTypes, EndLocal
     DEF Report
<1>26. CASE BeginNext(p)
  BY <1>26, ValueTypes, BeginStep DEF BeginsAt
<1>27. QED
  BY <1>1, <1>2, <1>3, <1>4, <1>5, <1>6, <1>7, <1>8, <1>9, <1>10, <1>11,
     <1>12, <1>13, <1>14, <1>15, <1>16, <1>17, <1>18, <1>19, <1>20, <1>21,
     <1>22, <1>23, <1>24, <1>25, <1>26
     DEF ConfigNext, ServeNext

(* A deploy does one thing after the other.                                *)
LEMMA DeployActor ==
  ASSUME Types, NEW p \in scene.procs, UNCHANGED scene, PositionAt(p), DeployAt(p), ImportInv,
         BeginNext(p) \/ ConfigNext(p) \/ ServeNext(p)
  PROVE  DeployAt(p)'
<1>1. CASE CloneFails(p)
  BY <1>1, ValueTypes, EndLocal
     DEF CloneFails, At, Kept, Steps, PositionAt, Activates, DeployAt,
         HostTypes, LocalTypes, portVars
<1>2. CASE DiscoverPort(p)
  BY <1>2, ValueTypes, GotoLocal
     DEF DiscoverPort, At, Kept, Steps, PositionAt, Activates, DeployAt,
         HostTypes, LocalTypes, portVars
<1>3. CASE WriteArtifacts(p)
  BY <1>3, ValueTypes, ProceedLocal
     DEF WriteArtifacts, At, Kept, Steps, PositionAt, Activates, DeployAt,
         HostTypes, LocalTypes, portVars
<1>4. CASE SaveMetadata(p)
  BY <1>4, ValueTypes, ProceedLocal
     DEF SaveMetadata, At, Kept, Steps, PositionAt, Activates, DeployAt,
         HostTypes, LocalTypes, portVars
<1>5. CASE SaveFails(p)
  BY <1>5, ValueTypes, EndLocal
     DEF SaveFails, At, Kept, Steps, PositionAt, Activates, DeployAt,
         HostTypes, LocalTypes, portVars
<1>6. CASE Pull(p)
  BY <1>6, ValueTypes, ProceedLocal
     DEF Pull, At, Kept, Steps, PositionAt, Activates, DeployAt, HostTypes,
         LocalTypes, portVars
<1>7. CASE SyncDeployConfig(p)
  BY <1>7, ValueTypes, GotoLocal
     DEF SyncDeployConfig, At, Kept, Steps, PositionAt, Activates, DeployAt,
         HostTypes, LocalTypes, portVars
<1>8. CASE Prepare(p)
  BY <1>8, ValueTypes, ProceedLocal
     DEF Prepare, At, Kept, Steps, PositionAt, Activates, DeployAt,
         HostTypes, LocalTypes, portVars
<1>9. CASE PrepareFails(p)
  BY <1>9, ValueTypes, EndLocal
     DEF PrepareFails, At, Kept, Steps, PositionAt, Activates, DeployAt,
         HostTypes, LocalTypes, portVars
<1>10. CASE CheckDomainAvailable(p)
  BY <1>10, ValueTypes, ProceedLocal, EndLocal
     DEF CheckDomainAvailable, At, Kept, Steps, PositionAt, Activates,
         DeployAt, HostTypes, LocalTypes, portVars
<1>11. CASE SaveDomains(p)
  BY <1>11, ValueTypes, GotoLocal
     DEF SaveDomains, At, Kept, Steps, PositionAt, Activates, DeployAt,
         HostTypes, LocalTypes, portVars
<1>12. CASE SyncIfActive(p)
  BY <1>12, ValueTypes, ProceedLocal
     DEF SyncIfActive, At, Kept, Steps, PositionAt, Activates, DeployAt,
         HostTypes, LocalTypes, portVars
<1>13. CASE SyncAppIngress(p)
  <2>1. pc'[p] = "reload" /\ Kept(p)
    BY <1>13, ValueTypes, ProceedLocal DEF SyncAppIngress, Synced, EnsuredFor, Ensured, Steps, Activates
  <2>2. QED
    BY <1>13, <2>1, ValueTypes
       DEF SyncAppIngress, Synced, EnsuredFor, Ensured, HostTypes, DeployAt, Kept, At, PositionAt, portVars, caddyVars
<1>14. CASE SnippetFails(p)
  <2>1. op'[p] = "deploy" => /\ pc'[p] = "restart" /\ Kept(p)
                            /\ mine[p].domains = {} /\ op[p] = "deploy"
    BY <1>14, ValueTypes, ProceedLocal, EndLocal
       DEF SnippetFails, Synced, Ensured, Steps, Activates, Kept, At, PositionAt
  <2>2. QED
    BY <1>14, <2>1 DEF SnippetFails, Synced, Ensured, DeployAt, Kept, At, PositionAt, portVars
<1>15. CASE RepairImport(p)
  BY <1>15, ValueTypes, ProceedLocal
     DEF RepairImport, EnsureCaddyfile, Ensured, At, Kept, Steps, PositionAt, Activates, DeployAt,
         HostTypes, LocalTypes, portVars
<1>16. CASE RepairFails(p)
  BY <1>16, ValueTypes, ProceedLocal, EndLocal
     DEF RepairFails, ReloadError, AfterReload, Ensured, At, Kept, Steps, PositionAt, Activates, DeployAt,
         HostTypes, LocalTypes, portVars
<1>17. CASE Reload(p)
  <2>1. (op[p] = "deploy" => pc'[p] = "restart") /\ Kept(p)
    BY <1>17, ValueTypes, ProceedLocal DEF Reload, Loads, AfterReload, Steps, Activates
  <2>2. QED
    BY <1>17, <2>1, ValueTypes
       DEF Reload, ImportInv, Repairable, Loads, AfterReload, HostTypes, DeployAt, Kept, At, PositionAt, portVars, caddyVars
<1>18. CASE ReloadFails(p)
  <2>1. op'[p] = "deploy" => /\ pc'[p] = "restart" /\ Kept(p)
                            /\ mine[p].domains = {} /\ op[p] = "deploy"
    BY <1>18, ValueTypes, ProceedLocal, EndLocal
       DEF ReloadFails, ReloadError, AfterReload, Steps, Activates, Kept, At, PositionAt
  <2>2. QED
    BY <1>18, <2>1 DEF ReloadFails, ReloadError, AfterReload, DeployAt, Kept, At, PositionAt, portVars
<1>19. CASE ProbeFails(p)
  BY <1>19, ValueTypes, EndLocal
     DEF ProbeFails, Loads, At, Kept, Steps, PositionAt, Activates, DeployAt,
         HostTypes, LocalTypes, portVars
<1>20. CASE RestartUnit(p)
  <2>1. pc'[p] = "report" /\ Kept(p)
    BY <1>20, ValueTypes, ProceedLocal DEF RestartUnit, Steps, Activates
  <2>2. QED
    BY <1>20, <2>1, ValueTypes
       DEF RestartUnit, Repairable, HostTypes, DeployAt, Kept, At, PositionAt, portVars, caddyVars
<1>21. CASE RestartFails(p)
  BY <1>21, ValueTypes, EndLocal
     DEF RestartFails, At, Kept, Steps, PositionAt, Activates, DeployAt,
         HostTypes, LocalTypes, portVars
<1>22. CASE RemoveSnippet(p)
  BY <1>22, ValueTypes, ProceedLocal
     DEF RemoveSnippet, At, Kept, Steps, PositionAt, Activates, DeployAt,
         HostTypes, LocalTypes, portVars
<1>23. CASE StopUnit(p)
  BY <1>23, ValueTypes, ProceedLocal
     DEF StopUnit, At, Kept, Steps, PositionAt, Activates, DeployAt,
         HostTypes, LocalTypes, portVars
<1>24. CASE DeleteAppStorage(p)
  BY <1>24, ValueTypes, ProceedLocal
     DEF DeleteAppStorage, At, Kept, Steps, PositionAt, Activates, DeployAt,
         HostTypes, LocalTypes, portVars
<1>25. CASE Report(p)
  BY <1>25, ValueTypes, EndLocal
     DEF Report, At, Kept, Steps, PositionAt, Activates, DeployAt,
         HostTypes, LocalTypes, portVars
<1>26. CASE BeginNext(p)
  BY <1>26, BeginStep DEF BeginsAt, DeployAt
<1>27. QED
  BY <1>1, <1>2, <1>3, <1>4, <1>5, <1>6, <1>7, <1>8, <1>9, <1>10, <1>11,
     <1>12, <1>13, <1>14, <1>15, <1>16, <1>17, <1>18, <1>19, <1>20, <1>21,
     <1>22, <1>23, <1>24, <1>25, <1>26
     DEF ConfigNext, ServeNext

(* No hostname is saved that is another application's.                     *)
LEMMA DomainActor ==
  ASSUME Types, NEW p \in scene.procs, UNCHANGED scene,
         PositionAt(p), HeldAt(p), Unambiguous(conf), DomainAt(p),
         BeginNext(p) \/ ConfigNext(p) \/ ServeNext(p)
  PROVE  Unambiguous(conf)' /\ DomainAt(p)'
<1> USE DEF At, Kept, Steps, PositionAt, DomainAt
<1>1. CASE CloneFails(p)
  <2>1. conf' = [conf EXCEPT ![app[p]] = None] /\ pc'[p] \in {"idle", "reload"}
    BY <1>1, ValueTypes, EndLocal DEF CloneFails
  <2>2. QED
    BY <2>1, ValueTypes DEF Unambiguous, HostTypes, None
<1>2. CASE DiscoverPort(p)
  <2>1. mine'[p].domains = {} /\ pc'[p] = "artifacts" /\ conf' = conf
    BY <1>2, ValueTypes, GotoLocal DEF DiscoverPort, LocalTypes
  <2>2. QED
    BY <2>1 DEF Unambiguous
<1>3. CASE WriteArtifacts(p)
  BY <1>3, ValueTypes, ProceedLocal
     DEF WriteArtifacts, Unambiguous
<1>4. CASE SaveMetadata(p)
  <2>1. conf' = [conf EXCEPT ![app[p]] = mine[p]] /\ mine[p].domains = {} /\ pc'[p] = "report"
    BY <1>4, ValueTypes, ProceedLocal DEF SaveMetadata
  <2>2. QED
    BY <2>1, ValueTypes DEF Unambiguous, HostTypes
<1>5. CASE SaveFails(p)
  <2>1. PICK s \in Sites : /\ conf' = conf \/ conf' = [conf EXCEPT ![app[p]] = s]
                           /\ pc[p] = "save" => s.domains = mine[p].domains
                           /\ pc[p] = "saveDomains" => s.domains = Edited(p)
    BY <1>5, FailedSave
  <2>2. pc'[p] = "idle"
    BY <1>5, ValueTypes, EndLocal DEF SaveFails
  <2>3. \A b \in Apps : b # app[p] => s.domains \cap conf[b].domains = {}
    <3>1. CASE pc[p] = "save"
      BY <2>1, <3>1
    <3>2. CASE pc[p] = "saveDomains"
      BY <2>1, <3>2, ValueTypes DEF HeldAt, Conf, Edited, Unambiguous
    <3>3. QED
      BY <1>5, <3>1, <3>2 DEF SaveFails
  <2>4. QED
    BY <2>1, <2>2, <2>3, ValueTypes DEF Unambiguous, HostTypes
<1>6. CASE Pull(p)
  BY <1>6, ValueTypes, ProceedLocal
     DEF Pull, Unambiguous
<1>7. CASE SyncDeployConfig(p)
  <2>1. /\ conf' = conf \/ conf' = [conf EXCEPT ![app[p]] = mine'[p]]
        /\ mine'[p].domains = conf[app[p]].domains
    BY <1>7, SyncedPort DEF SyncDeployConfig, HeldAt, Conf
  <2>2. pc'[p] = "prepare"
    BY <1>7, ValueTypes, GotoLocal DEF SyncDeployConfig
  <2>3. QED
    BY <2>1, <2>2, ValueTypes DEF Unambiguous, HostTypes
<1>8. CASE Prepare(p)
  BY <1>8, ValueTypes, ProceedLocal
     DEF Prepare, Unambiguous
<1>9. CASE PrepareFails(p)
  BY <1>9, ValueTypes, EndLocal
     DEF PrepareFails, Unambiguous
<1>10. CASE CheckDomainAvailable(p)
  <2>1. CASE Taken(p)
    BY <1>10, <2>1, ValueTypes, EndLocal DEF CheckDomainAvailable
  <2>2. CASE ~Taken(p)
    BY <1>10, <2>2, ValueTypes, ProceedLocal DEF CheckDomainAvailable, Taken
  <2>3. QED
    BY <2>1, <2>2
<1>11. CASE SaveDomains(p)
  <2>1. conf' = [conf EXCEPT ![app[p]] = mine'[p]] /\ mine'[p].domains = Edited(p)
    BY <1>11, ValueTypes DEF SaveDomains, LocalTypes, Sites
  <2>2. conf[app[p]] = mine[p]
    BY <1>11 DEF SaveDomains, HeldAt, Conf
  <2>3. pc'[p] = "syncActive"
    BY <1>11, ValueTypes, GotoLocal DEF SaveDomains
  <2>4. \A b \in Apps : b # app[p] => Edited(p) \cap conf[b].domains = {}
    BY <1>11, <2>2, ValueTypes DEF SaveDomains, Edited, Unambiguous
  <2>5. QED
    BY <2>1, <2>3, <2>4, ValueTypes DEF Unambiguous, HostTypes
<1>12. CASE SyncIfActive(p)
  BY <1>12, ValueTypes, ProceedLocal
     DEF SyncIfActive, Unambiguous
<1>13. CASE SyncAppIngress(p)
  BY <1>13, ValueTypes, ProceedLocal
     DEF SyncAppIngress, Synced, EnsuredFor, Ensured, Unambiguous
<1>14. CASE SnippetFails(p)
  BY <1>14, ValueTypes, ProceedLocal, EndLocal
     DEF SnippetFails, Synced, Ensured, Unambiguous
<1>15. CASE RepairImport(p)
  BY <1>15, ValueTypes, ProceedLocal
     DEF RepairImport, EnsureCaddyfile, Ensured, Unambiguous
<1>16. CASE RepairFails(p)
  BY <1>16, ValueTypes, ProceedLocal, EndLocal
     DEF RepairFails, ReloadError, AfterReload, Ensured, Unambiguous
<1>17. CASE Reload(p)
  BY <1>17, ValueTypes, ProceedLocal
     DEF Reload, Loads, AfterReload, Unambiguous
<1>18. CASE ReloadFails(p)
  BY <1>18, ValueTypes, ProceedLocal, EndLocal
     DEF ReloadFails, ReloadError, AfterReload, Unambiguous
<1>19. CASE ProbeFails(p)
  BY <1>19, ValueTypes, EndLocal
     DEF ProbeFails, Loads, Unambiguous
<1>20. CASE RestartUnit(p)
  BY <1>20, ValueTypes, ProceedLocal
     DEF RestartUnit, Unambiguous
<1>21. CASE RestartFails(p)
  BY <1>21, ValueTypes, EndLocal
     DEF RestartFails, Unambiguous
<1>22. CASE RemoveSnippet(p)
  BY <1>22, ValueTypes, ProceedLocal
     DEF RemoveSnippet, Unambiguous
<1>23. CASE StopUnit(p)
  BY <1>23, ValueTypes, ProceedLocal
     DEF StopUnit, Unambiguous
<1>24. CASE DeleteAppStorage(p)
  <2>1. conf' = [conf EXCEPT ![app[p]] = None] /\ pc'[p] \in {"idle", "reload"}
    BY <1>24, ValueTypes, ProceedLocal DEF DeleteAppStorage
  <2>2. QED
    BY <2>1, ValueTypes DEF Unambiguous, HostTypes, None
<1>25. CASE Report(p)
  BY <1>25, ValueTypes, EndLocal
     DEF Report, Unambiguous
<1>26. CASE BeginNext(p)
  BY <1>26, BeginStep DEF BeginsAt
<1>27. QED
  BY <1>1, <1>2, <1>3, <1>4, <1>5, <1>6, <1>7, <1>8, <1>9, <1>10, <1>11,
     <1>12, <1>13, <1>14, <1>15, <1>16, <1>17, <1>18, <1>19, <1>20, <1>21,
     <1>22, <1>23, <1>24, <1>25, <1>26
     DEF ConfigNext, ServeNext

(* Every application has a port, and no two the same.                      *)
PortsApart ==
  /\ \A a, b \in Apps : conf[a] # None /\ conf[a].port = conf[b].port => a = b
  /\ \A a \in Apps : conf[a] # None => conf[a].port # 0

(* No port is saved that is another application's.                         *)
LEMMA PortActor ==
  ASSUME Types, NEW p \in scene.procs, UNCHANGED scene,
         PositionAt(p), HeldAt(p), PortsApart, PortAt(p),
         BeginNext(p) \/ ConfigNext(p) \/ ServeNext(p)
  PROVE  PortsApart' /\ PortAt(p)'
<1> USE DEF At, Kept, Steps, PositionAt, PortAt, PortsApart
<1>1. CASE CloneFails(p)
  <2>1. conf' = [conf EXCEPT ![app[p]] = None] /\ pc'[p] \in {"idle", "reload"}
    BY <1>1, ValueTypes, EndLocal DEF CloneFails
  <2>2. QED
    BY <2>1, ValueTypes DEF HostTypes, None
<1>2. CASE DiscoverPort(p)
  <2>1. PICK pt \in scene.ports : Available(pt) /\ mine'[p].port = pt
    BY <1>2, ValueTypes DEF DiscoverPort, Discovered, LocalTypes
  <2>2. pt # 0
    BY SceneTypes, IngressAssumption
  <2>3. pc'[p] = "artifacts" /\ conf' = conf
    BY <1>2, ValueTypes, GotoLocal DEF DiscoverPort
  <2>4. QED
    BY <2>1, <2>2, <2>3 DEF Available
<1>3. CASE WriteArtifacts(p)
  BY <1>3, ValueTypes, ProceedLocal
     DEF WriteArtifacts
<1>4. CASE SaveMetadata(p)
  <2>1. conf' = [conf EXCEPT ![app[p]] = mine[p]] /\ pc'[p] = "report"
    BY <1>4, ValueTypes, ProceedLocal DEF SaveMetadata
  <2>2. mine[p].port # 0 /\ \A b \in Apps : conf[b].port # mine[p].port
    BY <1>4 DEF SaveMetadata
  <2>3. QED
    BY <2>1, <2>2, ValueTypes DEF HostTypes
<1>5. CASE SaveFails(p)
  <2>1. PICK s \in Sites : /\ conf' = conf \/ conf' = [conf EXCEPT ![app[p]] = s]
                           /\ s.port = mine[p].port
    BY <1>5, FailedSave
  <2>2. pc'[p] = "idle"
    BY <1>5, ValueTypes, EndLocal DEF SaveFails
  <2>3. s.port # 0 /\ \A b \in Apps : b # app[p] => conf[b].port # s.port
    <3>1. CASE pc[p] = "save"
      BY <2>1, <3>1
    <3>2. CASE pc[p] = "saveDomains"
      BY <2>1, <3>2, ValueTypes DEF HeldAt, Conf
    <3>3. QED
      BY <1>5, <3>1, <3>2 DEF SaveFails
  <2>4. QED
    BY <2>1, <2>2, <2>3, ValueTypes DEF HostTypes
<1>6. CASE Pull(p)
  BY <1>6, ValueTypes, ProceedLocal
     DEF Pull
<1>7. CASE SyncDeployConfig(p)
  <2>1. PICK pt \in scene.ports :
          /\ pt # 0 /\ mine'[p].port = pt
          /\ pt # mine[p].port => Available(pt)
          /\ conf' = conf \/ conf' = [conf EXCEPT ![app[p]] = mine'[p]]
    BY <1>7, SyncedPort
  <2>2. \A b \in Apps : b # app[p] => conf[b].port # pt
    <3>1. CASE pt # mine[p].port
      BY <2>1, <3>1 DEF Available
    <3>2. CASE pt = mine[p].port
      BY <1>7, <3>2, ValueTypes DEF SyncDeployConfig, HeldAt, Conf
    <3>3. QED
      BY <3>1, <3>2
  <2>3. pc'[p] = "prepare"
    BY <1>7, ValueTypes, GotoLocal DEF SyncDeployConfig
  <2>4. QED
    BY <2>1, <2>2, <2>3, ValueTypes DEF HostTypes
<1>8. CASE Prepare(p)
  BY <1>8, ValueTypes, ProceedLocal
     DEF Prepare
<1>9. CASE PrepareFails(p)
  BY <1>9, ValueTypes, EndLocal
     DEF PrepareFails
<1>10. CASE CheckDomainAvailable(p)
  BY <1>10, ValueTypes, ProceedLocal, EndLocal
     DEF CheckDomainAvailable
<1>11. CASE SaveDomains(p)
  <2>1. conf' = [conf EXCEPT ![app[p]] = mine'[p]] /\ mine'[p].port = conf[app[p]].port
    BY <1>11, ValueTypes DEF SaveDomains, LocalTypes, Sites, HeldAt, Conf
  <2>2. conf[app[p]] # None
    BY <1>11 DEF SaveDomains, HeldAt, Conf
  <2>3. pc'[p] = "syncActive"
    BY <1>11, ValueTypes, GotoLocal DEF SaveDomains
  <2>4. QED
    BY <2>1, <2>2, <2>3, ValueTypes DEF HostTypes
<1>12. CASE SyncIfActive(p)
  BY <1>12, ValueTypes, ProceedLocal
     DEF SyncIfActive
<1>13. CASE SyncAppIngress(p)
  BY <1>13, ValueTypes, ProceedLocal
     DEF SyncAppIngress, Synced, EnsuredFor, Ensured
<1>14. CASE SnippetFails(p)
  BY <1>14, ValueTypes, ProceedLocal, EndLocal
     DEF SnippetFails, Synced, Ensured
<1>15. CASE RepairImport(p)
  BY <1>15, ValueTypes, ProceedLocal
     DEF RepairImport, EnsureCaddyfile, Ensured
<1>16. CASE RepairFails(p)
  BY <1>16, ValueTypes, ProceedLocal, EndLocal
     DEF RepairFails, ReloadError, AfterReload, Ensured
<1>17. CASE Reload(p)
  BY <1>17, ValueTypes, ProceedLocal
     DEF Reload, Loads, AfterReload
<1>18. CASE ReloadFails(p)
  BY <1>18, ValueTypes, ProceedLocal, EndLocal
     DEF ReloadFails, ReloadError, AfterReload
<1>19. CASE ProbeFails(p)
  BY <1>19, ValueTypes, EndLocal
     DEF ProbeFails, Loads
<1>20. CASE RestartUnit(p)
  BY <1>20, ValueTypes, ProceedLocal
     DEF RestartUnit
<1>21. CASE RestartFails(p)
  BY <1>21, ValueTypes, EndLocal
     DEF RestartFails
<1>22. CASE RemoveSnippet(p)
  BY <1>22, ValueTypes, ProceedLocal
     DEF RemoveSnippet
<1>23. CASE StopUnit(p)
  BY <1>23, ValueTypes, ProceedLocal
     DEF StopUnit
<1>24. CASE DeleteAppStorage(p)
  <2>1. conf' = [conf EXCEPT ![app[p]] = None] /\ pc'[p] \in {"idle", "reload"}
    BY <1>24, ValueTypes, ProceedLocal DEF DeleteAppStorage
  <2>2. QED
    BY <2>1, ValueTypes DEF HostTypes, None
<1>25. CASE Report(p)
  BY <1>25, ValueTypes, EndLocal
     DEF Report
<1>26. CASE BeginNext(p)
  BY <1>26, BeginStep DEF BeginsAt
<1>27. QED
  BY <1>1, <1>2, <1>3, <1>4, <1>5, <1>6, <1>7, <1>8, <1>9, <1>10, <1>11,
     <1>12, <1>13, <1>14, <1>15, <1>16, <1>17, <1>18, <1>19, <1>20, <1>21,
     <1>22, <1>23, <1>24, <1>25, <1>26
     DEF ConfigNext, ServeNext

(* One command at a time, of which none but a clone fails.                 *)

(* What Caddy should serve of an application that is up.                   *)
Routed(a) == IF conf[a].domains # {} THEN conf[a] ELSE None

(* An application nobody works on.                                         *)
Settled(a) ==
  /\ snippet[a] = IF bound[a] # 0 THEN Routed(a) ELSE None
  /\ serving[a] = snippet[a]
  /\ bound[a] \in {0, conf[a].port}
  /\ binds[a] = conf[a].port

(* The application p works on, and how far it has come.                    *)
FlightAt(p) == LET a == app[p] IN
  /\ pc[p] \in {"idle", "clone", "pull", "sync", "check", "saveDomains", "report"} => Settled(a)
  /\ pc[p] \in {"artifacts", "save"} =>
       bound[a] = 0 /\ snippet[a] = None /\ serving[a] = None
  /\ pc[p] = "save" => binds[a] = mine[p].port
  /\ pc[p] \in {"snippet", "syncActive"} => conf[a] = mine[p]
  /\ pc[p] \in {"snippet", "syncActive", "restart"} => conf[a] # None
  /\ pc[p] \in {"reload", "load"} /\ op[p] \in {"deploy", "start", "restart"} => conf[a] # None
  /\ pc[p] \in {"snippet", "syncActive", "reload", "load", "restart"} => binds[a] = conf[a].port
  /\ pc[p] \in {"stop", "unsnippet"} /\ op[p] = "stop" => binds[a] = conf[a].port
  /\ op[p] \in {"start", "stop", "add", "remove"} => bound[a] \in {0, conf[a].port}
  /\ pc[p] \in {"snippet", "reload", "load"} /\ op[p] \in {"add", "remove"} => bound[a] # 0
  /\ pc[p] = "syncActive" => serving[a] = snippet[a] /\ (bound[a] = 0 => snippet[a] = None)
  /\ pc[p] \in {"reload", "load"} =>
       snippet[a] = IF op[p] \in {"stop", "destroy"} THEN None ELSE Routed(a)
  /\ pc[p] = "restart" => snippet[a] = Routed(a) /\ serving[a] = snippet[a]
  /\ pc[p] = "stop" /\ op[p] = "stop" => snippet[a] = None /\ serving[a] = None
  /\ pc[p] \in {"unsnippet", "reload", "load", "delete"} /\ op[p] = "destroy" => bound[a] = 0
  /\ pc[p] \in {"reload", "load"} /\ op[p] = "destroy" => conf[a] = None
  /\ pc[p] = "delete" => snippet[a] = None
  /\ pc[p] = "report" /\ op[p] \in {"stop", "destroy"} => bound[a] = 0
  /\ op[p] = "remove" /\ pc[p] # "saveDomains" => conf[a].domains \cap arg[p] = {}

SteadyAt(p) == FlightAt(p) /\ \A b \in Apps : b # app[p] => Settled(b)

SteadyInv == Steady => \A p \in scene.procs : SteadyAt(p)

(* The import is there when Caddy is reloaded.                             *)
LEMMA SteadyImport ==
  ASSUME Steady, ImportInv
  PROVE  Repairable /\ \A q \in Procs : pc[q] = "load" => imported = "yes"
BY DEF Steady, ImportInv, Repairable

(* Caddy takes the snippets: they name what config.json says.              *)
LEMMA SnippetsApart ==
  ASSUME Types, NEW p \in scene.procs, SteadyAt(p), Unambiguous(conf), pc[p] = "load"
  PROVE  Unambiguous(snippet)
<1>1. \A b \in Apps : snippet[b].domains \subseteq conf[b].domains
  BY ValueTypes DEF SteadyAt, FlightAt, Settled, Routed, None
<1>2. QED
  BY <1>1 DEF Unambiguous

(* The port is free: the others have bound the ports of config.json.       *)
LEMMA PortFree ==
  ASSUME Types, NEW p \in scene.procs, SteadyAt(p), PortsApart, pc[p] = "restart"
  PROVE  CanBind(app[p])
BY ValueTypes DEF SteadyAt, FlightAt, Settled, PortsApart, CanBind

(* What a command does, step by step, until its application is settled.    *)
LEMMA FlightActor ==
  ASSUME Types, NEW p \in scene.procs, UNCHANGED scene,
         Steady, PositionAt(p), HeldAt(p), Unambiguous(conf), PortsApart, SteadyAt(p),
         ImportInv, BeginNext(p) \/ ConfigNext(p) \/ ServeNext(p)
  PROVE  FlightAt(p)'
<1>1. CASE CloneFails(p)
  <2>1. pc[p] = "clone" /\ pc'[p] = "idle" /\ op'[p] = "none" /\ app'[p] = app[p]
    BY <1>1, ValueTypes, EndLocal DEF CloneFails, At, Steps
  <2>2. /\ conf'[app[p]] = None /\ snippet'[app[p]] = snippet[app[p]]
        /\ serving'[app[p]] = serving[app[p]] /\ binds'[app[p]] = binds[app[p]]
        /\ bound'[app[p]] = bound[app[p]]
    BY <1>1, ValueTypes DEF CloneFails, HostTypes, caddyVars, portVars
  <2>3. QED
    BY <1>1, <2>1, <2>2, ValueTypes
       DEF SteadyAt, FlightAt, Settled, Routed, Kept, PositionAt, HeldAt, Conf, Activates,
           None
<1>2. CASE DiscoverPort(p)
  <2>1. pc[p] = "clone" /\ pc'[p] = "artifacts" /\ op'[p] = op[p] /\ app'[p] = app[p]
    BY <1>2, ValueTypes, GotoLocal DEF DiscoverPort, At, Steps
  <2>2. /\ conf'[app[p]] = conf[app[p]] /\ snippet'[app[p]] = snippet[app[p]]
        /\ serving'[app[p]] = serving[app[p]] /\ binds'[app[p]] = binds[app[p]]
        /\ bound'[app[p]] = bound[app[p]]
    BY <1>2, ValueTypes DEF DiscoverPort, HostTypes, caddyVars, portVars
  <2>3. QED
    BY <1>2, <2>1, <2>2, ValueTypes
       DEF SteadyAt, FlightAt, Settled, Routed, Kept, PositionAt, HeldAt, Conf, Activates,
           None
<1>3. CASE WriteArtifacts(p)
  <2>1. pc[p] = "artifacts" /\ pc'[p] = "save" /\ Kept(p)
    BY <1>3, ValueTypes, ProceedLocal DEF WriteArtifacts, At, Steps
  <2>2. /\ conf'[app[p]] = conf[app[p]] /\ snippet'[app[p]] = snippet[app[p]]
        /\ serving'[app[p]] = serving[app[p]] /\ binds'[app[p]] = mine[p].port
        /\ bound'[app[p]] = bound[app[p]]
    BY <1>3, ValueTypes DEF WriteArtifacts, HostTypes, caddyVars, portVars
  <2>3. QED
    BY <1>3, <2>1, <2>2, ValueTypes
       DEF SteadyAt, FlightAt, Settled, Routed, Kept, PositionAt, HeldAt, Conf, Activates,
           None
<1>4. CASE SaveMetadata(p)
  <2>1. pc[p] = "save" /\ pc'[p] = "report" /\ Kept(p)
    BY <1>4, ValueTypes, ProceedLocal DEF SaveMetadata, At, Steps
  <2>2. /\ conf'[app[p]] = mine[p] /\ snippet'[app[p]] = snippet[app[p]]
        /\ serving'[app[p]] = serving[app[p]] /\ binds'[app[p]] = binds[app[p]]
        /\ bound'[app[p]] = bound[app[p]]
    BY <1>4, ValueTypes DEF SaveMetadata, HostTypes, caddyVars, portVars
  <2>3. QED
    BY <1>4, <2>1, <2>2, ValueTypes
       DEF SteadyAt, FlightAt, Settled, Routed, Kept, PositionAt, HeldAt, Conf, Activates,
           None
<1>5. CASE SaveFails(p)
  BY <1>5 DEF SaveFails, Event, Steady
<1>6. CASE Pull(p)
  <2>1. pc[p] = "pull" /\ pc'[p] = "sync" /\ Kept(p)
    BY <1>6, ValueTypes, ProceedLocal DEF Pull, At, Steps
  <2>2. /\ conf'[app[p]] = conf[app[p]] /\ snippet'[app[p]] = snippet[app[p]]
        /\ serving'[app[p]] = serving[app[p]] /\ binds'[app[p]] = binds[app[p]]
        /\ bound'[app[p]] = bound[app[p]]
    BY <1>6, ValueTypes DEF Pull, HostTypes, caddyVars, portVars, Steady
  <2>3. QED
    BY <1>6, <2>1, <2>2, ValueTypes
       DEF SteadyAt, FlightAt, Settled, Routed, Kept, PositionAt, HeldAt, Conf, Activates,
           None
<1>7. CASE SyncDeployConfig(p)
  <2>1. pc'[p] = "prepare" /\ op'[p] = "deploy" /\ app'[p] = app[p]
    BY <1>7, ValueTypes, GotoLocal DEF SyncDeployConfig, At, PositionAt, Steps
  <2>2. QED
    BY <2>1 DEF FlightAt
<1>8. CASE Prepare(p)
  <2>1. pc[p] = "prepare" /\ pc'[p] = "snippet" /\ Kept(p)
    BY <1>8, ValueTypes, ProceedLocal DEF Prepare, At, Steps
  <2>2. /\ conf'[app[p]] = conf[app[p]] /\ snippet'[app[p]] = snippet[app[p]]
        /\ serving'[app[p]] = serving[app[p]] /\ binds'[app[p]] = mine[p].port
        /\ bound'[app[p]] = bound[app[p]]
        /\ conf[app[p]] = mine[p] /\ mine[p] # None
    BY <1>8, <2>1, ValueTypes
       DEF Prepare, HostTypes, caddyVars, portVars, PositionAt, HeldAt, Conf, Event, Steady
  <2>3. QED
    BY <1>8, <2>1, <2>2, ValueTypes
       DEF SteadyAt, FlightAt, Settled, Routed, Kept, PositionAt, HeldAt, Conf, Activates,
           None
<1>9. CASE PrepareFails(p)
  BY <1>9, ValueTypes DEF PrepareFails, Event, Steady
<1>10. CASE CheckDomainAvailable(p)
  <2>1. CASE Taken(p)
    <3>1. pc[p] = "check" /\ pc'[p] = "idle" /\ op'[p] = "none" /\ app'[p] = app[p]
      BY <1>10, <2>1, ValueTypes, EndLocal DEF CheckDomainAvailable, At
    <3>2. QED
      BY <1>10, <3>1
         DEF CheckDomainAvailable, SteadyAt, FlightAt, Settled, Routed, caddyVars,
             portVars
  <2>2. CASE ~Taken(p)
    <3>1. pc[p] = "check" /\ pc'[p] = "saveDomains" /\ Kept(p)
      BY <1>10, <2>2, ValueTypes, ProceedLocal DEF CheckDomainAvailable, At, Steps
    <3>2. QED
      BY <1>10, <3>1
         DEF CheckDomainAvailable, SteadyAt, FlightAt, Settled, Routed, Kept, PositionAt,
             caddyVars, portVars
  <2>3. QED
    BY <2>1, <2>2
<1>11. CASE SaveDomains(p)
  <2>1. /\ pc[p] = "saveDomains"
        /\ pc'[p] = "syncActive"
        /\ UNCHANGED <<op, app, arg, caddyVars, portVars>>
    BY <1>11, ValueTypes, GotoLocal DEF SaveDomains, At, Steps
  <2>2. /\ mine'[p].domains = Edited(p) /\ mine'[p].port = conf[app[p]].port
        /\ conf'[app[p]] = mine'[p]
    <3>1. mine[p] = conf[app[p]]
      BY <2>1 DEF HeldAt, Conf
    <3>2. conf' = [conf EXCEPT ![app[p]] = mine'[p]]
      BY <1>11 DEF SaveDomains
    <3>3. mine' = [mine EXCEPT ![p].domains = Edited(p)]
      BY <1>11 DEF SaveDomains
    <3>4. QED
      BY <3>1, <3>2, <3>3, ValueTypes DEF LocalTypes, HostTypes, Sites
  <2>3. conf[app[p]].port # 0
    BY <2>1, ValueTypes DEF HeldAt, PortsApart, Conf
  <2>4. op[p] = "remove" => Edited(p) \cap arg[p] = {}
    BY DEF Edited
  <2>5. Settled(app[p]) /\ op[p] \in {"add", "remove"}
    BY <2>1 DEF SteadyAt, FlightAt, PositionAt
  <2>6. QED
    BY <2>1, <2>2, <2>3, <2>4, <2>5 DEF FlightAt, Settled, None, caddyVars, portVars
<1>12. CASE SyncIfActive(p)
  <2>1. /\ pc[p] = "syncActive"
        /\ pc'[p] = (IF bound[app[p]] # 0 THEN "snippet" ELSE "report")
        /\ Kept(p)
    BY <1>12, ValueTypes, ProceedLocal DEF SyncIfActive, At, Steps
  <2>2. /\ conf'[app[p]] = conf[app[p]] /\ snippet'[app[p]] = snippet[app[p]]
        /\ serving'[app[p]] = serving[app[p]] /\ binds'[app[p]] = binds[app[p]]
        /\ bound'[app[p]] = bound[app[p]]
    BY <1>12, ValueTypes DEF SyncIfActive, HostTypes, caddyVars, portVars
  <2>3. QED
    BY <1>12, <2>1, <2>2, ValueTypes
       DEF SteadyAt, FlightAt, Settled, Routed, Kept, PositionAt, HeldAt, Conf, Activates,
           None
<1>13. CASE SyncAppIngress(p)
  <2>1. pc[p] = "snippet" /\ pc'[p] = "reload" /\ Kept(p)
    BY <1>13, ValueTypes, ProceedLocal DEF SyncAppIngress, Synced, EnsuredFor, Ensured, At, Steps
  <2>2. /\ conf'[app[p]] = conf[app[p]]
        /\ snippet'[app[p]] = (IF mine[p].domains # {} THEN mine[p] ELSE None)
        /\ serving'[app[p]] = serving[app[p]] /\ binds'[app[p]] = binds[app[p]]
        /\ bound'[app[p]] = bound[app[p]]
    BY <1>13, ValueTypes DEF SyncAppIngress, Synced, EnsuredFor, Ensured, HostTypes, caddyVars, portVars
  <2>3. QED
    BY <1>13, <2>1, <2>2, ValueTypes
       DEF SteadyAt, FlightAt, Settled, Routed, Kept, PositionAt, HeldAt, Conf, Activates,
           None
<1>14. CASE SnippetFails(p)
  BY <1>14 DEF SnippetFails, Synced, Ensured, Event, Steady
<1>15. CASE RepairImport(p)
  <2>1. pc[p] = "reload" /\ pc'[p] = "load" /\ Kept(p)
    BY <1>15, ValueTypes, ProceedLocal DEF RepairImport, At, Steps
  <2>2. UNCHANGED <<conf, snippet, serving, portVars>>
    BY <1>15 DEF RepairImport
  <2>3. QED
    BY <2>1, <2>2 DEF SteadyAt, FlightAt, Routed, Kept, PositionAt, portVars
<1>16. CASE RepairFails(p)
  BY <1>16 DEF RepairFails, Event, Steady
<1>17. CASE Reload(p)
  <2>1. /\ pc[p] = "load"
        /\ pc'[p] = (IF Activates(p) THEN "restart"
                    ELSE IF op[p] = "stop" THEN "stop" ELSE "report")
        /\ Kept(p)
    BY <1>17, ValueTypes, ProceedLocal DEF Reload, Loads, AfterReload, At, Steps
  <2>2. /\ conf'[app[p]] = conf[app[p]] /\ snippet'[app[p]] = snippet[app[p]]
        /\ serving'[app[p]] = snippet[app[p]] /\ binds'[app[p]] = binds[app[p]]
        /\ bound'[app[p]] = bound[app[p]]
    BY <1>17, <2>1, ValueTypes, SteadyImport
       DEF Reload, Loads, HostTypes, caddyVars, portVars
  <2>3. QED
    BY <1>17, <2>1, <2>2, ValueTypes
       DEF SteadyAt, FlightAt, Settled, Routed, Kept, PositionAt, HeldAt, Conf, Activates,
           None
<1>18. CASE ReloadFails(p)
  BY <1>18, SnippetsApart DEF ReloadFails, Accepted, Event, Steady, At
<1>19. CASE ProbeFails(p)
  BY <1>19 DEF ProbeFails, Loads, Event, Steady
<1>20. CASE RestartUnit(p)
  <2>1. pc[p] = "restart" /\ pc'[p] = "report" /\ Kept(p)
    BY <1>20, ValueTypes, ProceedLocal DEF RestartUnit, At, Steps
  <2>2. /\ conf'[app[p]] = conf[app[p]] /\ snippet'[app[p]] = snippet[app[p]]
        /\ serving'[app[p]] = serving[app[p]] /\ binds'[app[p]] = binds[app[p]]
        /\ bound'[app[p]] = (IF op[p] = "start" /\ bound[app[p]] # 0
                              THEN bound[app[p]] ELSE binds[app[p]])
    BY <1>20, ValueTypes DEF RestartUnit, HostTypes, caddyVars, portVars
  <2>3. conf[app[p]].port # 0
    BY <2>1, ValueTypes DEF PortsApart, SteadyAt, FlightAt
  <2>4. op[p] \in {"deploy", "start", "restart"}
    BY <2>1 DEF PositionAt
  <2>5. QED
    BY <1>20, <2>1, <2>2, <2>3, <2>4, ValueTypes
       DEF SteadyAt, FlightAt, Settled, Routed, Kept, PositionAt, HeldAt, Conf, Activates,
           None
<1>21. CASE RestartFails(p)
  BY <1>21, PortFree DEF RestartFails, Event, Steady, At
<1>22. CASE RemoveSnippet(p)
  <2>1. /\ pc[p] = "unsnippet"
        /\ pc'[p] = (IF op[p] = "stop" THEN "reload" ELSE "delete")
        /\ Kept(p)
    BY <1>22, ValueTypes, ProceedLocal DEF RemoveSnippet, At, Steps
  <2>2. /\ conf'[app[p]] = conf[app[p]] /\ snippet'[app[p]] = None
        /\ serving'[app[p]] = serving[app[p]] /\ binds'[app[p]] = binds[app[p]]
        /\ bound'[app[p]] = bound[app[p]]
    BY <1>22, ValueTypes DEF RemoveSnippet, HostTypes, caddyVars, portVars
  <2>3. QED
    BY <1>22, <2>1, <2>2, ValueTypes
       DEF SteadyAt, FlightAt, Settled, Routed, Kept, PositionAt, HeldAt, Conf, Activates,
           None
<1>23. CASE StopUnit(p)
  <2>1. /\ pc[p] = "stop"
        /\ pc'[p] = (IF op[p] = "stop" THEN "report" ELSE "unsnippet")
        /\ Kept(p)
    BY <1>23, ValueTypes, ProceedLocal DEF StopUnit, At, Steps
  <2>2. /\ conf'[app[p]] = conf[app[p]] /\ snippet'[app[p]] = snippet[app[p]]
        /\ serving'[app[p]] = serving[app[p]] /\ binds'[app[p]] = binds[app[p]]
        /\ bound'[app[p]] = 0
    BY <1>23, ValueTypes DEF StopUnit, HostTypes, caddyVars, portVars
  <2>3. QED
    BY <1>23, <2>1, <2>2, ValueTypes
       DEF SteadyAt, FlightAt, Settled, Routed, Kept, PositionAt, HeldAt, Conf, Activates,
           None
<1>24. CASE DeleteAppStorage(p)
  <2>1. pc[p] = "delete" /\ pc'[p] = "reload" /\ Kept(p)
    BY <1>24, ValueTypes, ProceedLocal DEF DeleteAppStorage, At, Steps
  <2>2. /\ conf'[app[p]] = None /\ snippet'[app[p]] = snippet[app[p]]
        /\ serving'[app[p]] = serving[app[p]] /\ binds'[app[p]] = 0
        /\ bound'[app[p]] = bound[app[p]]
    BY <1>24, ValueTypes DEF DeleteAppStorage, HostTypes, caddyVars, portVars
  <2>3. QED
    BY <1>24, <2>1, <2>2, ValueTypes
       DEF SteadyAt, FlightAt, Settled, Routed, Kept, PositionAt, HeldAt, Conf, Activates,
           None
<1>25. CASE Report(p)
  <2>1. pc[p] = "report" /\ pc'[p] = "idle" /\ op'[p] = "none" /\ app'[p] = app[p]
    BY <1>25, ValueTypes, EndLocal DEF Report, At, Steps
  <2>2. /\ conf'[app[p]] = conf[app[p]] /\ snippet'[app[p]] = snippet[app[p]]
        /\ serving'[app[p]] = serving[app[p]] /\ binds'[app[p]] = binds[app[p]]
        /\ bound'[app[p]] = bound[app[p]]
    BY <1>25, ValueTypes DEF Report, HostTypes, caddyVars, portVars
  <2>3. QED
    BY <1>25, <2>1, <2>2, ValueTypes
       DEF SteadyAt, FlightAt, Settled, Routed, Kept, PositionAt, HeldAt, Conf, Activates,
           None
<1>26. CASE BeginNext(p)
  <2>1. PICK a \in Apps : app'[p] = a
    BY <1>26, BeginStep DEF BeginsAt
  <2>2. QED
    BY <1>26, <2>1, ValueTypes, BeginStep
       DEF BeginsAt, SteadyAt, FlightAt, Settled, Routed, caddyVars, portVars, None
<1>27. QED
  BY <1>1, <1>2, <1>3, <1>4, <1>5, <1>6, <1>7, <1>8, <1>9, <1>10, <1>11,
     <1>12, <1>13, <1>14, <1>15, <1>16, <1>17, <1>18, <1>19, <1>20, <1>21,
     <1>22, <1>23, <1>24, <1>25, <1>26
     DEF ConfigNext, ServeNext

-----------------------------------------------------------------------------
(* A step of a process, from the invariant.                                *)
Step(p) == UNCHANGED scene /\ (BeginNext(p) \/ ConfigNext(p) \/ ServeNext(p))

(* What one process may rely on while another takes a step.                *)
LEMMA Untouched ==
  ASSUME IInv, Exclusive \/ Alone, NEW p \in scene.procs, Elsewhere(p),
         NEW q \in Procs, q # p, pc[q] # "idle"
  PROVE  /\ conf'[app[q]] = conf[app[q]] /\ snippet'[app[q]] = snippet[app[q]]
         /\ binds'[app[q]] = binds[app[q]] /\ bound'[app[q]] = bound[app[q]]
         /\ Repairable => serving'[app[q]] \in {serving[app[q]], snippet[app[q]]}
<1>1. p \in Procs /\ app[q] \in Apps
  BY SceneTypes DEF IInv, Types, LocalTypes
<1>2. pc[p] = "idle" \/ app[q] # app[p]
  BY <1>1 DEF IInv, Sole
<1>3. QED
  BY <1>1, <1>2 DEF Elsewhere, IInv, ImportInv

(* The order of the steps.                                                 *)
LEMMA PositionsStep ==
  ASSUME IInv, NEW p \in scene.procs, Step(p)
  PROVE  Positions'
<1>1. Types /\ p \in Procs /\ PositionAt(p)
  BY SceneTypes DEF IInv, Positions
<1>2. PositionAt(p)' /\ Others(p)
  BY <1>1, PositionActor, LocalStep DEF Step
<1>3. ASSUME NEW q \in Procs, q # p
      PROVE  PositionAt(q)' /\ (q \notin scene'.procs => pc'[q] = "idle")
  BY <1>2, <1>3 DEF IInv, Positions, PositionAt, Others, Step
<1>4. QED
  BY <1>2, <1>3 DEF Positions, Step

(* No process begins on an application another works on.                   *)
LEMMA SoleStep ==
  ASSUME IInv, NEW p \in scene.procs, Step(p)
  PROVE  Sole'
<1>1. Types /\ p \in Procs
  BY SceneTypes DEF IInv
<1>2. Others(p) /\ Positions'
  BY <1>1, LocalStep, PositionsStep DEF Step
<1>3. CASE Alone
  BY <1>2, <1>3 DEF Sole, Alone, Positions, Step
<1>4. ASSUME Exclusive, NEW q \in Procs, q # p, pc'[q] # "idle", pc'[p] # "idle"
      PROVE  app'[q] # app'[p]
  <2>1. pc[q] # "idle" /\ app'[q] = app[q]
    BY <1>2, <1>4 DEF Others
  <2>2. CASE pc[p] # "idle" /\ app'[p] = app[p]
    BY <1>1, <1>4, <2>1, <2>2 DEF IInv, Sole
  <2>3. CASE BeginsAt(p)
    BY <1>4, <2>1, <2>3 DEF BeginsAt, Free
  <2>4. QED
    BY <1>1, <2>2, <2>3, AppStep DEF Step
<1>5. ASSUME Exclusive, NEW q \in Procs, NEW r \in Procs, q # p, r # p,
             pc'[q] # "idle", pc'[r] # "idle", app'[q] = app'[r]
      PROVE  q = r
  BY <1>2, <1>5 DEF IInv, Sole, Others
<1>6. CASE Exclusive
  BY <1>4, <1>5, <1>6 DEF Sole
<1>7. QED
  BY <1>3, <1>6 DEF Sole, Alone, Step

(* What a process holds stays what config.json says.                       *)
LEMMA HeldStep ==
  ASSUME IInv, NEW p \in scene.procs, Step(p)
  PROVE  Held'
<1> SUFFICES ASSUME Exclusive \/ Alone
             PROVE  \A q \in Procs : HeldAt(q)'
  BY DEF Held, Alone, Step
<1>1. Types /\ p \in Procs /\ PositionAt(p) /\ HeldAt(p)
  BY SceneTypes DEF IInv, Positions, Held
<1>2. HeldAt(p)' /\ Others(p) /\ Elsewhere(p)
  BY <1>1, HeldActor, LocalStep DEF Step
<1>3. ASSUME NEW q \in Procs, q # p PROVE HeldAt(q)'
  <2>1. HeldAt(q) /\ PositionAt(q)
    BY DEF IInv, Held, Positions
  <2>2. CASE pc[q] = "idle"
    BY <1>2, <1>3, <2>1, <2>2 DEF HeldAt, PositionAt, Others
  <2>3. CASE pc[q] # "idle"
    <3>1. conf'[app[q]] = conf[app[q]]
      BY <1>2, <1>3, <2>3, Untouched
    <3>2. QED
      BY <1>2, <1>3, <2>1, <3>1 DEF HeldAt, Others, Conf, Event, Step
  <2>4. QED
    BY <2>2, <2>3
<1>4. QED
  BY <1>2, <1>3

(* With one process at work, the others have nothing to save.              *)
LEMMA DomainStep ==
  ASSUME IInv, NEW p \in scene.procs, Step(p)
  PROVE  DomainInv'
<1> SUFFICES ASSUME Alone
             PROVE  Unambiguous(conf)' /\ \A q \in Procs : DomainAt(q)'
  BY DEF DomainInv, Alone, Step
<1>1. Types /\ p \in Procs /\ PositionAt(p) /\ HeldAt(p) /\ Unambiguous(conf) /\ DomainAt(p)
  BY SceneTypes DEF IInv, Positions, Held, DomainInv
<1>2. Unambiguous(conf)' /\ DomainAt(p)' /\ Others(p)
  BY <1>1, DomainActor, LocalStep DEF Step
<1>3. ASSUME NEW q \in Procs, q # p PROVE pc'[q] = "idle"
  BY <1>2, <1>3 DEF IInv, Positions, Alone, Others
<1>4. QED
  BY <1>2, <1>3 DEF DomainAt

(* And no port to save.                                                    *)
LEMMA PortStep ==
  ASSUME IInv, NEW p \in scene.procs, Step(p)
  PROVE  PortInv'
<1> SUFFICES ASSUME Alone
             PROVE  PortsApart' /\ \A q \in Procs : PortAt(q)'
  BY DEF PortInv, PortsApart, Alone, Step
<1>1. Types /\ p \in Procs /\ PositionAt(p) /\ HeldAt(p) /\ PortsApart /\ PortAt(p)
  BY SceneTypes DEF IInv, Positions, Held, PortInv, PortsApart
<1>2. PortsApart' /\ PortAt(p)' /\ Others(p)
  BY <1>1, PortActor, LocalStep DEF Step
<1>3. ASSUME NEW q \in Procs, q # p PROVE pc'[q] = "idle"
  BY <1>2, <1>3 DEF IInv, Positions, Alone, Others
<1>4. QED
  BY <1>2, <1>3 DEF PortAt

(* No repair takes an import away.                                         *)
LEMMA ImportStep ==
  ASSUME IInv, NEW p \in scene.procs, Step(p)
  PROVE  ImportInv'
<1> SUFFICES ASSUME Repairable
             PROVE  imported' # "other" /\ \A q \in Procs : pc'[q] = "load" => imported' = "yes"
  BY DEF ImportInv, Repairable, Step
<1>1. /\ imported' \in {imported, Ensured} /\ Others(p)
      /\ pc'[p] = "load" => imported' = Ensured
  BY ImportActor, LocalStep DEF IInv, Step
<1>2. imported \in {"yes", "no"} /\ \A q \in Procs : pc[q] = "load" => imported = "yes"
  BY DEF IInv, ImportInv, Types, HostTypes
<1>3. QED
  BY <1>1, <1>2 DEF Ensured, Others

(* Another application's reload has Caddy take the snippet the deploy      *)
(* wrote.                                                                  *)
LEMMA DeployStep ==
  ASSUME IInv, NEW p \in scene.procs, Step(p)
  PROVE  DeployInv'
<1> SUFFICES ASSUME Exclusive
             PROVE  \A q \in Procs : DeployAt(q)'
  BY DEF DeployInv
<1>1. Types /\ p \in Procs /\ PositionAt(p) /\ DeployAt(p) /\ ImportInv
  BY SceneTypes DEF IInv, Positions, DeployInv
<1>2. DeployAt(p)' /\ Others(p) /\ Elsewhere(p)
  BY <1>1, DeployActor, LocalStep DEF Step
<1>3. ASSUME NEW q \in Procs, q # p PROVE DeployAt(q)'
  <2>1. DeployAt(q) /\ PositionAt(q)
    BY DEF IInv, DeployInv, Positions
  <2>2. CASE pc[q] = "idle"
    BY <1>2, <1>3, <2>1, <2>2 DEF DeployAt, PositionAt, Others
  <2>3. CASE pc[q] # "idle"
    <3>1. /\ snippet'[app[q]] = snippet[app[q]]
          /\ binds'[app[q]] = binds[app[q]] /\ bound'[app[q]] = bound[app[q]]
          /\ Repairable => serving'[app[q]] \in {serving[app[q]], snippet[app[q]]}
      BY <1>2, <1>3, <2>3, Untouched
    <3>2. QED
      BY <1>2, <1>3, <2>1, <3>1 DEF DeployAt, Others, Repairable, Step
  <2>4. QED
    BY <2>2, <2>3
<1>4. QED
  BY <1>2, <1>3

-----------------------------------------------------------------------------
(* The host before gare was used.                                          *)
LEMMA Initially == Init => IInv
<1> SUFFICES ASSUME Init PROVE IInv
  OBVIOUS
<1>1. Types
  BY DEF Init, Caddyfiles, Types, HostTypes, LocalTypes, Sites, None, Steps, Names, PortValues
<1>2. \A p \in Procs : pc[p] = "idle" /\ op[p] = "none"
  BY DEF Init
<1>3. Positions /\ Sole /\ Held
  BY <1>2 DEF Positions, PositionAt, Sole, Held, HeldAt
<1>4. \A a \in Apps : conf[a] = None
  BY DEF Init
<1>5. DomainInv /\ PortInv /\ ImportInv /\ DeployInv
  BY <1>2, <1>4
     DEF Init, Caddyfiles, Event, Repairable, ImportInv, DomainInv, DomainAt, PortInv, PortAt, DeployInv, DeployAt, Unambiguous, None
<1>6. QED
  BY <1>1, <1>3, <1>5 DEF IInv

(* Nothing of it is about the Caddyfile.                                   *)
LEMMA OperatorStep ==
  ASSUME IInv, UNCHANGED <<scene, conf, snippet, serving, portVars, pc, localVars>>,
         imported' \in {"yes", "no", "other"}, ImportInv'
  PROVE  IInv'
<1> USE DEF portVars, localVars
<1>1. Types' /\ Positions' /\ Sole'
  BY DEF IInv, Types, HostTypes, LocalTypes, Positions, PositionAt, Sole, Alone
<1>2. Held' /\ DomainInv' /\ PortInv'
  BY
     DEF IInv, Held, HeldAt, Conf, Event, DomainInv, DomainAt, PortInv, PortAt, Unambiguous,
         Alone
<1>3. DeployInv'
  BY DEF IInv, DeployInv, DeployAt, Repairable
<1>4. QED
  BY <1>1, <1>2, <1>3 DEF IInv

(* The invariant holds of every behaviour, on any host.                    *)
THEOREM Inductive == Spec => []IInv
<1>1. IInv /\ [Next]_vars => IInv'
  <2> SUFFICES ASSUME IInv, [Next]_vars PROVE IInv'
    OBVIOUS
  <2>1. ASSUME NEW p \in scene.procs, Step(p) PROVE IInv'
    <3>1. Types'
      BY <2>1, LocalStep DEF IInv, Step
    <3>2. QED
      BY <2>1, <3>1, PositionsStep, SoleStep, HeldStep, DomainStep, PortStep, ImportStep,
         DeployStep
         DEF IInv
  <2>2. CASE EditCaddyfile /\ UNCHANGED scene
    <3>1. imported' \in {"yes", "no", "other"} /\ ImportInv'
      BY <2>2
         DEF EditCaddyfile, Caddyfiles, Event, At, IInv, ImportInv, Repairable
    <3>2. QED
      BY <2>2, <3>1, OperatorStep DEF EditCaddyfile
  <2>3. CASE GareInit /\ UNCHANGED scene
    <3>1. imported' = "yes" /\ ImportInv'
      BY <2>3 DEF GareInit, EnsureCaddyfile, Ensured, IInv, ImportInv, Repairable
    <3>2. QED
      BY <2>3, <3>1, OperatorStep DEF GareInit
  <2>4. CASE UNCHANGED vars
    <3>1. imported' \in {"yes", "no", "other"} /\ ImportInv'
      BY <2>4 DEF vars, caddyVars, IInv, Types, HostTypes, ImportInv, Repairable
    <3>2. QED
      BY <2>4, <3>1, OperatorStep DEF vars, caddyVars
  <2>5. QED
    BY <2>1, <2>2, <2>3, <2>4 DEF Next, Step
<1>2. QED
  BY <1>1, Initially, PTL DEF Spec

(* Configurations, snippets and ports keep their types, for any number of  *)
(* processes and applications.                                             *)
THEOREM TypeCorrect == Spec => []TypeOK
<1>1. IInv => TypeOK
  BY TypesOfTypeOK DEF IInv
<1>2. QED
  BY <1>1, Inductive, PTL

(* With one command at a time no hostname belongs to two applications.     *)
THEOREM DomainsDistinctHolds == Spec => []DomainsDistinct
<1>1. IInv => DomainsDistinct
  BY DEF IInv, DomainInv, DomainsDistinct
<1>2. QED
  BY <1>1, Inductive, PTL

(* With one command at a time no port is assigned to two applications,     *)
(* whatever became of the deploys that changed it.                         *)
THEOREM PortsDistinctHolds == Spec => []PortsDistinct
<1>1. IInv => PortsDistinct
  BY DEF IInv, PortInv, PortsDistinct
<1>2. QED
  BY <1>1, Inductive, PTL

(* A deploy that reports success left Caddy route its hostnames to the     *)
(* port its workload binds, whatever commands on other applications do,    *)
(* if nobody else works on this one.                                       *)
THEOREM DeployServesHolds ==
  ASSUME Exclusive
  PROVE  Spec => []DeployServes
<1>1. IInv => DeployServes
  BY DEF IInv, DeployInv, DeployAt, Held, HeldAt, DeployServes, At
<1>2. QED
  BY <1>1, Inductive, PTL

-----------------------------------------------------------------------------
(* With one process at work, every other application is settled.           *)
LEMMA SteadyStep ==
  ASSUME IInv, SteadyInv, NEW p \in scene.procs, Step(p)
  PROVE  SteadyInv'
<1> SUFFICES ASSUME Steady
             PROVE  SteadyAt(p)'
  BY DEF SteadyInv, Steady, Alone, Step
<1>1. /\ Types /\ PositionAt(p) /\ HeldAt(p) /\ Unambiguous(conf) /\ PortsApart
      /\ SteadyAt(p) /\ ImportInv
  BY SceneTypes
     DEF IInv, Positions, Held, DomainInv, PortInv, PortsApart, SteadyInv, Steady
<1>2. FlightAt(p)' /\ Elsewhere(p)
  BY <1>1, FlightActor, LocalStep DEF Step
<1>3. \/ pc[p] # "idle" /\ app'[p] = app[p]
      \/ pc[p] = "idle" /\ UNCHANGED <<conf, caddyVars, portVars>>
  BY <1>1, AppStep DEF Step
<1>4. ASSUME NEW b \in Apps, b # app'[p] PROVE Settled(b)'
  <2>1. CASE pc[p] # "idle" /\ app'[p] = app[p]
    <3>1. Settled(b) /\ b # app[p]
      BY <1>1, <1>4, <2>1 DEF SteadyAt
    <3>2. QED
      BY <1>1, <1>2, <3>1, ValueTypes, SteadyImport DEF Elsewhere, Settled, Routed
  <2>2. CASE pc[p] = "idle" /\ UNCHANGED <<conf, caddyVars, portVars>>
    <3>1. Settled(b)
      BY <1>1, <2>2 DEF SteadyAt, FlightAt
    <3>2. QED
      BY <2>2, <3>1 DEF Settled, Routed, caddyVars, portVars
  <2>3. QED
    BY <1>3, <2>1, <2>2
<1>5. QED
  BY <1>2, <1>4 DEF SteadyAt

(* So every application is as its commands left it.                        *)
LEMMA SteadyHolds == Spec => [](IInv /\ SteadyInv)
<1>1. Init => SteadyInv
  <2> SUFFICES ASSUME Init PROVE SteadyInv
    OBVIOUS
  <2>1. \A a \in Apps : Settled(a)
    BY DEF Init, Settled, Routed, None
  <2>2. \A p \in scene.procs : pc[p] = "idle" /\ op[p] = "none" /\ app[p] \in Apps
    BY Initially, SceneTypes DEF Init, IInv
  <2>3. QED
    BY <2>1, <2>2 DEF SteadyInv, SteadyAt, FlightAt
<1>2. IInv /\ SteadyInv /\ [Next]_vars => SteadyInv'
  <2> SUFFICES ASSUME IInv, SteadyInv, [Next]_vars PROVE SteadyInv'
    OBVIOUS
  <2>1. ASSUME NEW p \in scene.procs, Step(p) PROVE SteadyInv'
    BY <2>1, SteadyStep
  <2>2. CASE UNCHANGED <<scene, conf, snippet, serving, portVars, pc, localVars>>
    <3>1. \A a : Settled(a) => Settled(a)'
      BY <2>2 DEF Settled, Routed, portVars
    <3>2. \A p : FlightAt(p) => FlightAt(p)'
      BY <2>2, <3>1 DEF FlightAt, Routed, portVars, localVars
    <3>3. QED
      BY <2>2, <3>1, <3>2 DEF SteadyInv, Steady, Alone, SteadyAt, localVars
  <2>3. QED
    BY <2>1, <2>2 DEF Next, Step, EditCaddyfile, GareInit, vars, caddyVars
<1>3. QED
  BY <1>1, <1>2, Inductive, PTL DEF Spec

(* With one command at a time, of which nothing but a clone fails, and     *)
(* whatever the operator does to the Caddyfile, Caddy stops to serve what  *)
(* a stop, a destroy or a domain rm takes away.                            *)
THEOREM WithdrawnHolds == Spec => []Withdrawn
<1>1. IInv /\ SteadyInv => Withdrawn
  <2> SUFFICES ASSUME IInv, SteadyInv, Steady, NEW p \in Procs, At(p, "report")
               PROVE  /\ op[p] \in {"stop", "destroy"} => serving[app[p]] = None
                      /\ op[p] = "remove" => serving[app[p]].domains \cap arg[p] = {}
    BY DEF Withdrawn
  <2>1. p \in scene.procs
    BY DEF IInv, Positions, At
  <2>2. FlightAt(p)
    BY <2>1 DEF SteadyInv, SteadyAt
  <2>3. QED
    BY <2>2 DEF FlightAt, Settled, Routed, At, None
<1>2. QED
  BY <1>1, SteadyHolds, PTL

(* And it serves a hostname added to an application that is up.            *)
THEOREM AddedDomainServedHolds == Spec => []AddedDomainServed
<1>1. IInv /\ SteadyInv => AddedDomainServed
  <2> SUFFICES ASSUME IInv, SteadyInv, Steady, NEW p \in Procs, At(p, "report"),
                      bound[app[p]] # 0
               PROVE  serving[app[p]].domains = Conf(p).domains
    BY DEF AddedDomainServed
  <2>1. p \in scene.procs
    BY DEF IInv, Positions, At
  <2>2. FlightAt(p)
    BY <2>1 DEF SteadyInv, SteadyAt
  <2>3. QED
    <3>1. Settled(app[p])
      BY <2>2 DEF FlightAt, At
    <3>2. QED
      BY <3>1 DEF Settled, Routed, None, Conf
<1>2. QED
  BY <1>1, SteadyHolds, PTL
=============================================================================
