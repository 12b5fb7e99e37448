--------------------------- MODULE RegistryProofs ---------------------------
(***************************************************************************)
(* One command at a time on an application: whatever revisions its         *)
(* repository has, whatever fails and wherever a process is killed, its    *)
(* record keeps what the operator gave and agrees with the files beside    *)
(* it, for any number of texts, hostnames, tags, ports and revisions.      *)
(***************************************************************************)
EXTENDS Registry, TLAPS

(* The circumstances the guarantees need; the model checker shows that     *)
(* most of them fail with two processes.                                   *)
Alone == \A p, q \in Procs : p = q

(* A configuration has the texts a command line gave.                      *)
Honours(c, f) ==
  /\ f.build # Unset => c.build = f.build
  /\ f.health # Unset => c.health = f.health
  /\ f.dir \notin {Unset, Dot} => c.dir = f.dir

(* Probes derived from a compose file belong to a compose stack.           *)
Derived(c) == c.probes = "derived" => c.type = "compose"

Edits == {"tag", "untag", "add", "remove"}
CreateSteps == {"clone", "resolve", "manifest", "unit", "save"}

(* Which command is at which step, and what it holds in memory.            *)
CommandInv ==
  \A p \in Procs :
    /\ pc[p] \in {"clone", "resolve", "save"} => op[p] = "create"
    /\ pc[p] \in {"manifest", "unit"} => op[p] \in {"create", "deploy"}
    /\ pc[p] \in {"pull", "sync", "prepare", "done"} => op[p] = "deploy"
    /\ pc[p] = "edit" => op[p] \in Edits
    /\ pc[p] = "stop" => op[p] = "destroy"
    /\ pc[p] = "purge" => op[p] \in {"create", "destroy"}
    /\ pc[p] \in {"manifest", "unit", "save"} \/ op[p] \in {"deploy"} \cup Edits =>
         mine[p] \in Configs /\ mine[p].old = NoKeys /\ Derived(mine[p])
    /\ op[p] = "create" => arg[p] \in Flags
    /\ op[p] \in {"tag", "untag"} => arg[p] \in Tags
    /\ op[p] \in {"add", "remove"} => arg[p] \in Domains

(* A create works where nothing is recorded, and records what it was given.*)
CreateInv ==
  \A p \in Procs : op[p] = "create" =>
    /\ conf = Unset
    /\ pc[p] \in {"resolve", "manifest", "unit", "save"} => repo # Unset
    /\ pc[p] = "save" => unit # Unset
    /\ pc[p] \in {"manifest", "unit", "save"} =>
         mine[p].domains = {} /\ Honours(mine[p], arg[p])

(* A deploy or an edit works on a configuration that is as good as the     *)
(* recorded one.                                                           *)
WorkInv ==
  \A p \in Procs : op[p] \in {"deploy"} \cup Edits =>
    /\ conf # Unset
    /\ mine[p].domains = asked.domains
    /\ Honours(mine[p], asked.flags)

(* A destroy was announced.                                                *)
DestroyInv == \A p \in Procs : op[p] = "destroy" => doomed

(* What a deploy wrote into the manifest is still there when it is done.   *)
PodsInv ==
  \A p \in Procs :
    (/\ op[p] = "deploy" /\ pc[p] \in {"unit", "done"}
     /\ mine[p].type = "container" /\ Checkout.manifest = Unset)
    => manifest = [host |-> mine[p].port, container |-> ContainerPort(mine[p])]

RecordInv == DomainsKept /\ FlagsKept /\ ConfigLast /\ DerivedOnlyCompose

IInv == TypeOK /\ CommandInv /\ CreateInv /\ WorkInv /\ DestroyInv /\ PodsInv /\ RecordInv
-----------------------------------------------------------------------------
(* Loading, merging and editing yield configurations and keep what they    *)
(* are given.                                                              *)
LEMMA CheckoutType ==
  ASSUME RegistryAssumption, TypeOK
  PROVE  /\ Checkout.gare \in {Unset, Invalid} \cup Merged /\ Checkout.exposed \in Ports \cup {0}
         /\ Checkout.manifest \in Pods \cup {Unset} /\ Checkout.published \in Ports \cup {0}
         /\ Checkout.checked \in BOOLEAN
<1>1. CASE repo = Unset
  BY <1>1 DEF Checkout
<1>2. CASE repo # Unset
  <2>1. repo \in Repos
    BY <1>2 DEF RegistryAssumption, TypeOK
  <2> QED
    BY <1>2, <2>1 DEF Checkout, Repos
<1> QED
  BY <1>1, <1>2

LEMMA LoadKeeps ==
  ASSUME RegistryAssumption, NEW c \in Configs
  PROVE  /\ LoadConfig(c) \in Configs /\ LoadConfig(c).old = NoKeys
         /\ LoadConfig(c).domains = MigrateDomain(c)
         /\ \A f \in Flags \cup {NoFlags} : Honours(c, f) => Honours(LoadConfig(c), f)
         /\ Derived(c) => Derived(LoadConfig(c))
<1>1. MigrateDomain(c) \in SUBSET Domains /\ MigrateHealth(c) \in Texts \cup {Unset}
  BY DEF MigrateDomain, MigrateHealth, Or, Configs, Keys
<1>2. NoKeys \in Keys
  BY DEF NoKeys, Keys
<1>3. LoadConfig(c) \in Configs
  BY <1>1, <1>2 DEF LoadConfig, Configs
<1>4. /\ LoadConfig(c).old = NoKeys /\ LoadConfig(c).domains = MigrateDomain(c)
      /\ LoadConfig(c).health = MigrateHealth(c) /\ LoadConfig(c).build = c.build
      /\ LoadConfig(c).dir = c.dir /\ LoadConfig(c).probes = c.probes
      /\ LoadConfig(c).type = c.type
  BY DEF LoadConfig, Configs
<1> QED
  BY <1>3, <1>4 DEF Honours, Derived, MigrateHealth, Or

(* A configuration that was loaded once is loaded as it is.                *)
LEMMA LoadedDomains ==
  ASSUME NEW c, c.old = NoKeys
  PROVE  MigrateDomain(c) = c.domains
BY DEF MigrateDomain, NoKeys

LEMMA MergeType ==
  ASSUME RegistryAssumption, NEW f \in Flags, NEW gare \in {Unset} \cup Merged
  PROVE  /\ MergeDefaults(f, gare) \in Merged
         /\ MergeDefaults(f, gare).probes \in {"none", "declared"}
         /\ Honours(MergeDefaults(f, gare), f)
<1>1. f \in Merged /\ f.tags \notin {Unset, Invalid}
  BY DEF RegistryAssumption
<1>2. CASE gare = Unset
  BY <1>1, <1>2 DEF MergeDefaults, Honours, Merged
<1>3. CASE gare # Unset
  <2> DEFINE o == MergeDefaults(f, gare)
  <2>1. o = [type |-> Or(f.type, Or(gare.type, "container")), build |-> Or(f.build, gare.build),
             dir |-> Or(f.dir, gare.dir), health |-> Or(f.health, gare.health),
             port |-> OrPort(f.port, gare.port), cport |-> OrPort(f.cport, gare.cport),
             tags |-> IF f.tags # {} THEN f.tags ELSE gare.tags, probes |-> gare.probes]
    BY <1>3 DEF MergeDefaults
  <2>2. gare \in Merged
    BY <1>3
  <2>3. /\ Or(f.type, Or(gare.type, "container")) \in Types \cup {Unset}
        /\ Or(f.build, gare.build) \in Texts \cup {Unset}
        /\ Or(f.dir, gare.dir) \in Texts \cup {Unset, Dot}
        /\ Or(f.health, gare.health) \in Texts \cup {Unset}
        /\ OrPort(f.port, gare.port) \in Ports \cup {0}
        /\ OrPort(f.cport, gare.cport) \in Ports \cup {0}
    BY <1>1, <2>2 DEF Merged, Or, OrPort, Types
  <2>4. (IF f.tags # {} THEN f.tags ELSE gare.tags) \in {Unset, Invalid} \cup SUBSET Tags
    BY <1>1, <2>2 DEF Merged
  <2>5. gare.probes \in {"none", "declared"}
    BY <2>2 DEF Merged
  <2> HIDE DEF o
  <2>6. o \in Merged
    BY <2>1, <2>3, <2>4, <2>5 DEF Merged
  <2>7. Honours(o, f)
    BY <2>1 DEF Honours, Or
  <2> QED
    BY <2>1, <2>5, <2>6, <2>7 DEF o
<1> QED
  BY <1>2, <1>3

(* What a create records.                                                  *)
LEMMA CreatedType ==
  ASSUME RegistryAssumption, TypeOK, NEW o \in Merged, NEW pt \in Ports
  PROVE  /\ Created(o, Checkout, pt) \in Configs
         /\ Created(o, Checkout, pt).domains = {}
         /\ Created(o, Checkout, pt).old = NoKeys
         /\ Derived(Created(o, Checkout, pt))
         /\ \A f \in Flags : Honours(o, f) => Honours(Created(o, Checkout, pt), f)
<1> DEFINE c == Created(o, Checkout, pt)
<1>1. AppType(o) \in Types
  BY DEF AppType, Or, Merged, Types
<1>2. /\ (IF AppType(o) = "static" THEN Or(o.dir, Dot) ELSE o.dir) \in Texts \cup {Unset, Dot}
      /\ (IF AppType(o) = "container" THEN OrPort(o.cport, Checkout.exposed) ELSE o.cport)
            \in Ports \cup {0}
      /\ (IF o.tags \in {Unset, Invalid} THEN {} ELSE o.tags) \in SUBSET Tags
      /\ NoKeys \in Keys
  BY CheckoutType DEF Merged, Or, OrPort, NoKeys, Keys
<1>3. /\ o.build \in Texts \cup {Unset} /\ o.health \in Texts \cup {Unset}
      /\ o.probes \in {"none", "declared"}
  BY DEF Merged
<1>4. c = [type |-> AppType(o), build |-> o.build, health |-> o.health, port |-> pt,
           dir |-> IF AppType(o) = "static" THEN Or(o.dir, Dot) ELSE o.dir,
           cport |-> IF AppType(o) = "container" THEN OrPort(o.cport, Checkout.exposed) ELSE o.cport,
           tags |-> IF o.tags \in {Unset, Invalid} THEN {} ELSE o.tags, probes |-> o.probes,
           domains |-> {}, old |-> NoKeys]
  BY DEF Created, AssignedPort
<1> HIDE DEF c
<1>5. c \in Configs
  BY <1>1, <1>2, <1>3, <1>4 DEF Configs
<1>6. \A f \in Flags : Honours(o, f) => Honours(c, f)
  BY <1>4 DEF Honours, Or
<1>7. c.domains = {} /\ c.old = NoKeys /\ Derived(c)
  BY <1>3, <1>4 DEF Derived
<1> QED
  BY <1>5, <1>6, <1>7 DEF c

(* What a deploy makes of a configuration it loaded.                       *)
LEMMA SyncKeeps ==
  ASSUME RegistryAssumption, TypeOK, Checkout.gare # Invalid,
         NEW c \in Configs, Derived(c)
  PROVE  LET d == DetectPort(SyncGareFile(c, Checkout), Checkout) IN
         /\ d \in Configs /\ d.domains = c.domains /\ d.old = c.old /\ Derived(d)
         /\ \A f \in Flags \cup {NoFlags} : Honours(c, f) => Honours(d, f)
<1> DEFINE s == SyncGareFile(c, Checkout)
           d == DetectPort(s, Checkout)
<1>1. /\ s \in Configs /\ s.domains = c.domains /\ s.old = c.old /\ Derived(s)
      /\ \A f \in Flags \cup {NoFlags} : Honours(c, f) => Honours(s, f)
  <2>1. CASE Checkout.gare = Unset
    BY <2>1 DEF SyncGareFile
  <2>2. CASE Checkout.gare # Unset
    <3> DEFINE gare == Checkout.gare
               t == Or(gare.type, c.type)
               e == [c EXCEPT !.type = t]
               dir == IF t = "static" /\ c.dir \in {Unset, Dot} THEN Or(gare.dir, c.dir) ELSE c.dir
               tags == IF gare.tags \in {Unset, Invalid} THEN c.tags ELSE gare.tags
    <3>1. gare \in Merged
      BY <2>2, CheckoutType
    <3>2. /\ t \in Types /\ Or(c.build, gare.build) \in Texts \cup {Unset}
          /\ Or(c.health, gare.health) \in Texts \cup {Unset} /\ dir \in Texts \cup {Unset, Dot}
          /\ OrPort(gare.port, c.port) \in Ports /\ OrPort(gare.cport, c.cport) \in Ports \cup {0}
          /\ tags \in SUBSET Tags
      BY <3>1 DEF Merged, Configs, Or, OrPort, Types, RegistryAssumption
    <3>3. e \in Configs /\ e.type = t
      BY <3>2 DEF Configs
    <3>4. /\ Probes(e, Checkout) \in {"none", "declared", "derived"}
          /\ Probes(e, Checkout) = "derived" => t = "compose"
      BY <3>3 DEF Probes
    <3>5. /\ e.build = c.build /\ e.health = c.health /\ e.dir = c.dir /\ e.port = c.port
          /\ e.cport = c.cport /\ e.tags = c.tags /\ e.domains = c.domains /\ e.old = c.old
      BY <3>2 DEF Configs
    <3> DEFINE build == Or(e.build, gare.build)
               health == Or(e.health, gare.health)
               place == IF e.type = "static" /\ e.dir \in {Unset, Dot}
                        THEN Or(gare.dir, e.dir) ELSE e.dir
               texts == [e EXCEPT !.build = build, !.health = health, !.dir = place]
               ports == [texts EXCEPT !.port = OrPort(gare.port, e.port),
                                      !.cport = OrPort(gare.cport, e.cport)]
               labels == IF gare.tags \in {Unset, Invalid} THEN e.tags ELSE gare.tags
               probes == Probes(e, Checkout)
    <3>6. s = [ports EXCEPT !.tags = labels, !.probes = probes]
      BY <2>2, Zenon DEF SyncGareFile, Recorded
    <3>7. /\ build = Or(c.build, gare.build) /\ health = Or(c.health, gare.health)
          /\ place = dir /\ labels = tags
      BY <3>3, <3>5
    <3>8. /\ build \in Texts \cup {Unset} /\ health \in Texts \cup {Unset}
          /\ place \in Texts \cup {Unset, Dot} /\ labels \in SUBSET Tags
          /\ probes \in {"none", "declared", "derived"}
      BY <3>2, <3>4, <3>7
    <3>9. /\ texts \in Configs /\ texts.type = t /\ texts.domains = c.domains /\ texts.old = c.old
          /\ texts.build = build /\ texts.health = health /\ texts.dir = place
      <4> HIDE DEF e, build, health, place, t
      <4> QED
        BY <3>3, <3>5, <3>8 DEF Configs
    <3>10. /\ ports \in Configs /\ ports.type = t /\ ports.domains = c.domains /\ ports.old = c.old
          /\ ports.build = build /\ ports.health = health /\ ports.dir = place
      <4> HIDE DEF e, build, health, place, t, texts
      <4> QED
        BY <3>2, <3>5, <3>9 DEF Configs
    <3>11. /\ s \in Configs /\ s.type = t /\ s.domains = c.domains /\ s.old = c.old
          /\ s.build = build /\ s.health = health /\ s.dir = place
          /\ s.probes = probes
      <4> HIDE DEF e, build, health, place, t, texts, ports, labels, probes, s
      <4> QED
        BY <3>6, <3>10, <3>8 DEF Configs
    <3> HIDE DEF s, e, build, health, place
    <3> QED
      BY <3>4, <3>11, <3>7 DEF Honours, Derived, Or
  <2> QED
    BY <2>1, <2>2
<1> HIDE DEF s
<1>2. /\ d \in Configs /\ d.domains = s.domains /\ d.old = s.old
      /\ d.build = s.build /\ d.health = s.health /\ d.dir = s.dir
      /\ d.probes = s.probes /\ d.type = s.type
  BY <1>1, CheckoutType DEF DetectPort, OrPort, Configs
<1> QED
  BY <1>1, <1>2 DEF s, Honours, Derived

(* What an edit makes of it.                                               *)
LEMMA EditKeeps ==
  ASSUME RegistryAssumption, TypeOK, CommandInv, NEW p \in Procs, op[p] \in Edits
  PROVE  /\ Edited(p) \in Configs /\ Edited(p).old = mine[p].old /\ Derived(Edited(p))
         /\ \A f : Honours(mine[p], f) => Honours(Edited(p), f)
         /\ Edited(p).domains = CASE op[p] = "add"    -> mine[p].domains \cup {arg[p]}
                                  [] op[p] = "remove" -> mine[p].domains \ {arg[p]}
                                  [] OTHER            -> mine[p].domains
<1> DEFINE c == mine[p]
<1>1. c \in Configs /\ Derived(c)
  BY DEF CommandInv
<1>2. CASE op[p] = "tag"
  <2>1. arg[p] \in Tags /\ Edited(p) = [c EXCEPT !.tags = @ \cup {arg[p]}]
    BY <1>2 DEF Edited, CommandInv
  <2> QED
    BY <1>1, <1>2, <2>1 DEF Configs, Honours, Derived
<1>3. CASE op[p] = "untag"
  <2>1. Edited(p) = [c EXCEPT !.tags = @ \ {arg[p]}]
    BY <1>3 DEF Edited
  <2> QED
    BY <1>1, <1>3, <2>1 DEF Configs, Honours, Derived
<1>4. CASE op[p] = "add"
  <2>1. arg[p] \in Domains /\ Edited(p) = [c EXCEPT !.domains = @ \cup {arg[p]}]
    BY <1>4 DEF Edited, CommandInv
  <2> QED
    BY <1>1, <1>4, <2>1 DEF Configs, Honours, Derived
<1>5. CASE op[p] = "remove"
  <2>1. Edited(p) = [c EXCEPT !.domains = @ \ {arg[p]}]
    BY <1>5 DEF Edited
  <2> QED
    BY <1>1, <1>5, <2>1 DEF Configs, Honours, Derived
<1> QED
  BY <1>2, <1>3, <1>4, <1>5 DEF Edits

(* Every step yields values of their types.                                *)
LEMMA TypeStep ==
  ASSUME RegistryAssumption, TypeOK, CommandInv, [Next]_vars
  PROVE  TypeOK'
<1> USE RegistryAssumption DEF TypeOK, files, locals, history
<1>a. NoFlags \in Flags \cup {NoFlags}
  OBVIOUS
<1>1. ASSUME NEW p \in Procs, BeginCreate(p) PROVE TypeOK'
  BY <1>1 DEF BeginCreate, At, Goto, Begin, Commands
<1>2. ASSUME NEW p \in Procs, Clone(p) PROVE TypeOK'
  BY <1>2 DEF Clone, At, Goto, Proceed
<1>3. ASSUME NEW p \in Procs, CloneFails(p) PROVE TypeOK'
  BY <1>3 DEF CloneFails, At, Goto, Proceed
<1>4. ASSUME NEW p \in Procs, Resolve(p) PROVE TypeOK'
  <2>1. CASE Exit(p)
    BY <1>4, <2>1 DEF Resolve, Exit, Goto, Commands
  <2>2. CASE ~Exit(p)
    <3>1. Checkout.gare \in {Unset} \cup Merged /\ arg[p] \in Flags
      BY <1>4, <2>2, CheckoutType DEF Resolve, At, CommandInv
    <3> DEFINE o == MergeDefaults(arg[p], Checkout.gare)
    <3>2. PICK pt \in Ports : mine' = [mine EXCEPT ![p] = Created(o, Checkout, pt)]
      BY <1>4, <2>2 DEF Resolve
    <3>3. Created(o, Checkout, pt) \in Configs
      BY <3>1, MergeType, CreatedType
    <3> QED
      BY <1>4, <2>2, <3>2, <3>3 DEF Resolve, Goto
  <2> QED
    BY <2>1, <2>2
<1>5. ASSUME NEW p \in Procs, SaveMetadata(p) PROVE TypeOK'
  <2>1. mine[p] \in Configs /\ arg[p] \in Flags
    BY <1>5 DEF SaveMetadata, At, CommandInv
  <2>2. conf' \in {Unset} \cup Configs
    BY <1>5, <2>1 DEF SaveMetadata, Saved
  <2>3. asked' \in [flags: Flags \cup {NoFlags}, domains: SUBSET Domains] /\ doomed' \in BOOLEAN
    <3>1. \/ asked' = asked /\ doomed' = doomed
          \/ asked' = [flags |-> arg[p], domains |-> {}] /\ doomed' = FALSE
      BY <1>5 DEF SaveMetadata
    <3>2. [flags |-> arg[p], domains |-> {}] \in [flags: Flags \cup {NoFlags}, domains: SUBSET Domains]
      BY <2>1
    <3> QED
      BY <3>1, <3>2
  <2> QED
    BY <1>5, <2>2, <2>3 DEF SaveMetadata, Goto, Exit, Commands
<1>6. ASSUME NEW p \in Procs, BeginDeploy(p) PROVE TypeOK'
  BY <1>6, LoadKeeps DEF BeginDeploy, At, Goto, Load, Begin, Commands
<1>7. ASSUME NEW p \in Procs, Pull(p) PROVE TypeOK'
  BY <1>7 DEF Pull, At, Goto, Proceed
<1>8. ASSUME NEW p \in Procs, PullFails(p) PROVE TypeOK'
  BY <1>8 DEF PullFails, At, Goto, Exit, Commands
<1>9. ASSUME NEW p \in Procs, Sync(p) PROVE TypeOK'
  <2>1. mine[p] \in Configs /\ Derived(mine[p]) /\ Checkout.gare # Invalid
    BY <1>9 DEF Sync, At, CommandInv
  <2>2. DetectPort(SyncGareFile(mine[p], Checkout), Checkout) \in Configs
    BY <2>1, SyncKeeps
  <2>3. mine' \in [Procs -> Configs \cup {Unset}] /\ mine'[p] \in Configs
    BY <1>9, <2>2 DEF Sync
  <2> QED
    BY <1>9, <2>3 DEF Sync, Goto, Saved
<1>10. ASSUME NEW p \in Procs, SyncFails(p) PROVE TypeOK'
  BY <1>10 DEF SyncFails, At, Goto, Exit, Commands
<1>11. ASSUME NEW p \in Procs, Prepare(p) PROVE TypeOK'
  BY <1>11 DEF Prepare, At, Goto, Proceed, Exit, Commands
<1>12. ASSUME NEW p \in Procs, WriteManifest(p) PROVE TypeOK'
  <2>1. mine[p].port \in Ports /\ ContainerPort(mine[p]) \in Ports
    BY <1>12 DEF WriteManifest, At, CommandInv, Configs, ContainerPort, OrPort
  <2>2. manifest' \in Pods \cup {Unset}
    BY <1>12, <2>1, CheckoutType DEF WriteManifest, Pods
  <2> QED
    BY <1>12, <2>2 DEF WriteManifest, Goto, Proceed
<1>13. ASSUME NEW p \in Procs, WriteUnit(p) PROVE TypeOK'
  BY <1>13 DEF WriteUnit, At, Goto, Proceed, CommandInv, Configs
<1>14. ASSUME NEW p \in Procs, Deployed(p) PROVE TypeOK'
  BY <1>14 DEF Deployed, At, Goto, Exit, Commands
<1>15. ASSUME NEW p \in Procs, BeginEdit(p) PROVE TypeOK'
  <2>1. conf \in Configs /\ LoadConfig(conf) \in Configs
    BY <1>15, LoadKeeps DEF BeginEdit, Load
  <2>2. PICK c \in Edits, a \in Tags \cup Domains : Load(p, c, "edit", a)
    BY <1>15 DEF BeginEdit, Edits
  <2>3. mine' = [mine EXCEPT ![p] = LoadConfig(conf)] /\ arg' = [arg EXCEPT ![p] = a]
    BY <2>2 DEF Load, Begin
  <2> QED
    BY <2>1, <2>2, <2>3 DEF Load, Begin, Goto, Commands, Edits
<1>16. ASSUME NEW p \in Procs, Edit(p) PROVE TypeOK'
  <2>1. op[p] \in Edits
    BY <1>16 DEF Edit, At, CommandInv
  <2>2. Edited(p) \in Configs /\ (op[p] = "add" => arg[p] \in Domains)
    BY <2>1, EditKeeps DEF CommandInv
  <2>3. conf' \in {Unset} \cup Configs
    BY <1>16, <2>2 DEF Edit, Saved
  <2>4. asked' \in [flags: Flags \cup {NoFlags}, domains: SUBSET Domains]
    BY <1>16, <2>2 DEF Edit
  <2> QED
    BY <1>16, <2>3, <2>4 DEF Edit, Goto, Exit, Commands
<1>17. ASSUME NEW p \in Procs, BeginDestroy(p) PROVE TypeOK'
  BY <1>17, LoadKeeps DEF BeginDestroy, At, Goto, Begin, Commands
<1>18. ASSUME NEW p \in Procs, RemoveUnit(p) PROVE TypeOK'
  BY <1>18 DEF RemoveUnit, At, Goto, Proceed
<1>19. ASSUME NEW p \in Procs, DeleteStorage(p) PROVE TypeOK'
  BY <1>19 DEF DeleteStorage, At, Goto, Exit, Commands
<1>20. ASSUME NEW p \in Procs, Fails(p) PROVE TypeOK'
  BY <1>20 DEF Fails, At, Goto, Exit, Commands
<1>21. CASE UNCHANGED vars
  BY <1>21 DEF vars, files, locals, history
<1> QED
  BY <1>1, <1>2, <1>3, <1>4, <1>5, <1>6, <1>7, <1>8, <1>9, <1>10, <1>11, <1>12, <1>13,
       <1>14, <1>15, <1>16, <1>17, <1>18, <1>19, <1>20, <1>21 DEF Next, CreateNext,
       DeployNext, EditNext, DestroyNext

(* Every step keeps a process at a step of its command, with a             *)
(* configuration in memory where it needs one.                             *)
LEMMA CommandStep ==
  ASSUME RegistryAssumption, TypeOK, RecordInv, CommandInv, [Next]_vars
  PROVE  CommandInv'
<1> USE RegistryAssumption DEF TypeOK, CommandInv, files, locals, history, Edits
<1>1. ASSUME NEW p \in Procs, BeginCreate(p) PROVE CommandInv'
  BY <1>1 DEF BeginCreate, At, Goto, Begin
<1>2. ASSUME NEW p \in Procs, Clone(p) PROVE CommandInv'
  BY <1>2 DEF Clone, At, Goto, Proceed
<1>3. ASSUME NEW p \in Procs, CloneFails(p) PROVE CommandInv'
  BY <1>3 DEF CloneFails, At, Goto, Proceed
<1>4. ASSUME NEW p \in Procs, Resolve(p) PROVE CommandInv'
  <2>1. CASE Exit(p)
    BY <1>4, <2>1 DEF Resolve, Exit, Goto
  <2>2. CASE ~Exit(p)
    <3>1. Checkout.gare \in {Unset} \cup Merged /\ arg[p] \in Flags
      BY <1>4, <2>2, CheckoutType DEF Resolve, At
    <3> DEFINE o == MergeDefaults(arg[p], Checkout.gare)
    <3>2. PICK pt \in Ports : mine' = [mine EXCEPT ![p] = Created(o, Checkout, pt)]
      BY <1>4, <2>2 DEF Resolve
    <3>3. op' = op /\ arg' = arg /\ (Goto(p, "manifest") \/ Goto(p, "unit")) /\ op[p] = "create"
      BY <1>4, <2>2 DEF Resolve, At
    <3> DEFINE c == Created(o, Checkout, pt)
    <3>4. c \in Configs /\ c.old = NoKeys /\ Derived(c)
      BY <3>1, MergeType, CreatedType
    <3> HIDE DEF o
    <3> QED
      BY <3>2, <3>3, <3>4 DEF Goto
  <2> QED
    BY <2>1, <2>2
<1>5. ASSUME NEW p \in Procs, SaveMetadata(p) PROVE CommandInv'
  BY <1>5 DEF SaveMetadata, At, Goto, Exit
<1>6. ASSUME NEW p \in Procs, BeginDeploy(p) PROVE CommandInv'
  <2> DEFINE c == LoadConfig(conf)
  <2>1. c \in Configs /\ c.old = NoKeys /\ Derived(c)
    BY <1>6, LoadKeeps DEF BeginDeploy, Load, RecordInv, DerivedOnlyCompose, Derived
  <2> HIDE DEF c
  <2>2. /\ pc' = [pc EXCEPT ![p] = "pull"] /\ op' = [op EXCEPT ![p] = "deploy"]
        /\ mine' = [mine EXCEPT ![p] = c] /\ arg' = [arg EXCEPT ![p] = NoFlags]
    BY <1>6 DEF BeginDeploy, Load, Begin, Goto, c
  <2> QED
    BY <2>1, <2>2
<1>7. ASSUME NEW p \in Procs, Pull(p) PROVE CommandInv'
  BY <1>7 DEF Pull, At, Goto, Proceed
<1>8. ASSUME NEW p \in Procs, PullFails(p) PROVE CommandInv'
  BY <1>8 DEF PullFails, At, Goto, Exit
<1>9. ASSUME NEW p \in Procs, Sync(p) PROVE CommandInv'
  <2> DEFINE d == DetectPort(SyncGareFile(mine[p], Checkout), Checkout)
  <2>1. mine[p] \in Configs /\ mine[p].old = NoKeys /\ Derived(mine[p]) /\ Checkout.gare # Invalid
    BY <1>9 DEF Sync, At
  <2>2. d \in Configs /\ d.old = NoKeys /\ Derived(d)
    BY <2>1, SyncKeeps
  <2>3. mine' = [mine EXCEPT ![p] = d]
    BY <1>9 DEF Sync
  <2> HIDE DEF d
  <2> QED
    BY <1>9, <2>2, <2>3 DEF Sync, At, Goto
<1>10. ASSUME NEW p \in Procs, SyncFails(p) PROVE CommandInv'
  BY <1>10 DEF SyncFails, At, Goto, Exit
<1>11. ASSUME NEW p \in Procs, Prepare(p) PROVE CommandInv'
  BY <1>11 DEF Prepare, At, Goto, Proceed, Exit
<1>12. ASSUME NEW p \in Procs, WriteManifest(p) PROVE CommandInv'
  BY <1>12 DEF WriteManifest, At, Goto, Proceed
<1>13. ASSUME NEW p \in Procs, WriteUnit(p) PROVE CommandInv'
  BY <1>13 DEF WriteUnit, At, Goto, Proceed
<1>14. ASSUME NEW p \in Procs, Deployed(p) PROVE CommandInv'
  BY <1>14 DEF Deployed, At, Goto, Exit
<1>15. ASSUME NEW p \in Procs, BeginEdit(p) PROVE CommandInv'
  BY <1>15, LoadKeeps DEF BeginEdit, At, Goto, Load, Begin, RecordInv,
       DerivedOnlyCompose, Derived
<1>16. ASSUME NEW p \in Procs, Edit(p) PROVE CommandInv'
  BY <1>16 DEF Edit, At, Goto, Exit
<1>17. ASSUME NEW p \in Procs, BeginDestroy(p) PROVE CommandInv'
  BY <1>17 DEF BeginDestroy, At, Goto, Begin
<1>18. ASSUME NEW p \in Procs, RemoveUnit(p) PROVE CommandInv'
  BY <1>18 DEF RemoveUnit, At, Goto, Proceed
<1>19. ASSUME NEW p \in Procs, DeleteStorage(p) PROVE CommandInv'
  BY <1>19 DEF DeleteStorage, At, Goto, Exit
<1>20. ASSUME NEW p \in Procs, Fails(p) PROVE CommandInv'
  BY <1>20 DEF Fails, At, Goto, Exit
<1>21. CASE UNCHANGED vars
  BY <1>21 DEF vars, files, locals, history
<1> QED
  BY <1>1, <1>2, <1>3, <1>4, <1>5, <1>6, <1>7, <1>8, <1>9, <1>10, <1>11, <1>12, <1>13,
       <1>14, <1>15, <1>16, <1>17, <1>18, <1>19, <1>20, <1>21 DEF Next, CreateNext,
       DeployNext, EditNext, DestroyNext

(* Nothing is recorded while a create runs, and what it is going to record *)
(* is what it was given.                                                   *)
LEMMA CreateStep ==
  ASSUME RegistryAssumption, Alone, TypeOK, CommandInv, CreateInv, WorkInv, [Next]_vars
  PROVE  CreateInv'
<1> USE DEF TypeOK, CreateInv, files, locals, history
<1>a. \A p \in Procs : Procs = {p}
  BY DEF Alone
<1>1. ASSUME NEW p \in Procs, BeginCreate(p) PROVE CreateInv'
  BY <1>1, <1>a DEF BeginCreate, At, Goto, Begin
<1>2. ASSUME NEW p \in Procs, Clone(p) PROVE CreateInv'
  BY <1>2, <1>a DEF Clone, At, Goto, Proceed
<1>3. ASSUME NEW p \in Procs, CloneFails(p) PROVE CreateInv'
  BY <1>3, <1>a DEF CloneFails, At, Goto, Proceed
<1>4. ASSUME NEW p \in Procs, Resolve(p) PROVE CreateInv'
  <2>1. CASE Exit(p)
    BY <1>4, <1>a, <2>1 DEF Resolve, Exit, Goto
  <2>2. CASE ~Exit(p)
    <3>1. Checkout.gare \in {Unset} \cup Merged /\ arg[p] \in Flags
      BY <1>4, <2>2, CheckoutType DEF Resolve, At, CommandInv
    <3> DEFINE o == MergeDefaults(arg[p], Checkout.gare)
    <3>2. PICK pt \in Ports : mine' = [mine EXCEPT ![p] = Created(o, Checkout, pt)]
      BY <1>4, <2>2 DEF Resolve
    <3>3. op' = op /\ arg' = arg /\ (Goto(p, "manifest") \/ Goto(p, "unit")) /\ op[p] = "create"
          /\ conf' = conf /\ repo' = repo /\ pc[p] = "resolve"
      BY <1>4, <2>2 DEF Resolve, At, CommandInv
    <3> DEFINE c == Created(o, Checkout, pt)
    <3>4. c.domains = {} /\ Honours(c, arg[p])
      <4>1. o \in Merged /\ Honours(o, arg[p])
        BY <3>1, MergeType
      <4> HIDE DEF o
      <4> QED
        BY <3>1, <4>1, CreatedType
    <3> HIDE DEF o
    <3> QED
      BY <1>a, <3>2, <3>3, <3>4 DEF Goto
  <2> QED
    BY <2>1, <2>2
<1>5. ASSUME NEW p \in Procs, SaveMetadata(p) PROVE CreateInv'
  BY <1>5, <1>a DEF SaveMetadata, At, Goto, Exit
<1>6. ASSUME NEW p \in Procs, BeginDeploy(p) PROVE CreateInv'
  BY <1>6, <1>a DEF BeginDeploy, At, Goto, Load, Begin
<1>7. ASSUME NEW p \in Procs, Pull(p) PROVE CreateInv'
  BY <1>7, <1>a DEF Pull, At, Goto, Proceed, CommandInv
<1>8. ASSUME NEW p \in Procs, PullFails(p) PROVE CreateInv'
  BY <1>8, <1>a DEF PullFails, At, Goto, Exit, CommandInv
<1>9. ASSUME NEW p \in Procs, Sync(p) PROVE CreateInv'
  BY <1>9, <1>a DEF Sync, At, Goto, CommandInv
<1>10. ASSUME NEW p \in Procs, SyncFails(p) PROVE CreateInv'
  BY <1>10, <1>a DEF SyncFails, At, Goto, Exit
<1>11. ASSUME NEW p \in Procs, Prepare(p) PROVE CreateInv'
  BY <1>11, <1>a DEF Prepare, At, Goto, Proceed, Exit, CommandInv
<1>12. ASSUME NEW p \in Procs, WriteManifest(p) PROVE CreateInv'
  BY <1>12, <1>a DEF WriteManifest, At, Goto, Proceed, CommandInv
<1>13. ASSUME NEW p \in Procs, WriteUnit(p) PROVE CreateInv'
  <2>1. unit' # Unset
    BY <1>13 DEF WriteUnit, At, CommandInv, Configs, RegistryAssumption
  <2> QED
    BY <1>13, <1>a, <2>1 DEF WriteUnit, At, Goto, Proceed
<1>14. ASSUME NEW p \in Procs, Deployed(p) PROVE CreateInv'
  BY <1>14, <1>a DEF Deployed, At, Goto, Exit
<1>15. ASSUME NEW p \in Procs, BeginEdit(p) PROVE CreateInv'
  BY <1>15, <1>a DEF BeginEdit, At, Goto, Load, Begin
<1>16. ASSUME NEW p \in Procs, Edit(p) PROVE CreateInv'
  BY <1>16, <1>a DEF Edit, At, Goto, Exit, CommandInv, Edits
<1>17. ASSUME NEW p \in Procs, BeginDestroy(p) PROVE CreateInv'
  BY <1>17, <1>a DEF BeginDestroy, At, Goto, Begin
<1>18. ASSUME NEW p \in Procs, RemoveUnit(p) PROVE CreateInv'
  BY <1>18, <1>a DEF RemoveUnit, At, Goto, Proceed, CommandInv
<1>19. ASSUME NEW p \in Procs, DeleteStorage(p) PROVE CreateInv'
  BY <1>19, <1>a DEF DeleteStorage, At, Goto, Exit
<1>20. ASSUME NEW p \in Procs, Fails(p) PROVE CreateInv'
  BY <1>20, <1>a DEF Fails, At, Goto, Exit
<1>21. CASE UNCHANGED vars
  BY <1>21, <1>a DEF vars, files, locals, history
<1> QED
  BY <1>1, <1>2, <1>3, <1>4, <1>5, <1>6, <1>7, <1>8, <1>9, <1>10, <1>11, <1>12, <1>13,
       <1>14, <1>15, <1>16, <1>17, <1>18, <1>19, <1>20, <1>21 DEF Next, CreateNext,
       DeployNext, EditNext, DestroyNext

(* What a deploy or an edit holds in memory stays as good as the record.   *)
LEMMA WorkStep ==
  ASSUME RegistryAssumption, Alone, TypeOK, CommandInv, WorkInv, RecordInv, [Next]_vars
  PROVE  WorkInv'
<1> USE DEF TypeOK, WorkInv, files, locals, history, Edits
<1>a. \A p \in Procs : Procs = {p}
  BY DEF Alone
<1>1. ASSUME NEW p \in Procs, BeginCreate(p) PROVE WorkInv'
  BY <1>1, <1>a DEF BeginCreate, At, Goto, Begin
<1>2. ASSUME NEW p \in Procs, Clone(p) PROVE WorkInv'
  BY <1>2, <1>a DEF Clone, At, Goto, Proceed
<1>3. ASSUME NEW p \in Procs, CloneFails(p) PROVE WorkInv'
  BY <1>3, <1>a DEF CloneFails, At, Goto, Proceed
<1>4. ASSUME NEW p \in Procs, Resolve(p) PROVE WorkInv'
  BY <1>4, <1>a DEF Resolve, At, Goto, Exit, CommandInv
<1>5. ASSUME NEW p \in Procs, SaveMetadata(p) PROVE WorkInv'
  BY <1>5, <1>a DEF SaveMetadata, At, Goto, Exit, CommandInv
<1>6. ASSUME NEW p \in Procs, BeginDeploy(p) PROVE WorkInv'
  <2>1. conf \in Configs /\ MigrateDomain(conf) = asked.domains /\ Honours(conf, asked.flags)
    <3>1. conf # Unset /\ conf \in Configs
      BY <1>6 DEF BeginDeploy, Load
    <3> QED
      BY <3>1, LoadKeeps DEF RecordInv, DomainsKept, FlagsKept, Honours
  <2> DEFINE c == LoadConfig(conf)
  <2>2. c.domains = asked.domains /\ Honours(c, asked.flags)
    BY <2>1, LoadKeeps
  <2> HIDE DEF c
  <2>3. /\ op' = [op EXCEPT ![p] = "deploy"] /\ mine' = [mine EXCEPT ![p] = c]
        /\ conf' = conf /\ asked' = asked /\ conf # Unset
    BY <1>6 DEF BeginDeploy, Load, Begin, c
  <2> QED
    BY <1>a, <2>2, <2>3 DEF Honours
<1>7. ASSUME NEW p \in Procs, Pull(p) PROVE WorkInv'
  BY <1>7, <1>a DEF Pull, At, Goto, Proceed
<1>8. ASSUME NEW p \in Procs, PullFails(p) PROVE WorkInv'
  BY <1>8, <1>a DEF PullFails, At, Goto, Exit
<1>9. ASSUME NEW p \in Procs, Sync(p) PROVE WorkInv'
  <2> DEFINE d == DetectPort(SyncGareFile(mine[p], Checkout), Checkout)
  <2>1. mine[p] \in Configs /\ Derived(mine[p]) /\ Checkout.gare # Invalid /\ op[p] = "deploy"
    BY <1>9 DEF Sync, At, CommandInv
  <2>2. d \in Configs /\ d.domains = asked.domains /\ Honours(d, asked.flags)
    BY <2>1, SyncKeeps
  <2>3. mine' = [mine EXCEPT ![p] = d] /\ conf' \in {conf, mine'[p]} /\ UNCHANGED <<op, asked>>
    BY <1>9 DEF Sync, Saved
  <2>4. conf' # Unset
    BY <2>1, <2>2, <2>3 DEF RegistryAssumption
  <2> HIDE DEF d
  <2> QED
    BY <1>a, <2>2, <2>3, <2>4 DEF Honours
<1>10. ASSUME NEW p \in Procs, SyncFails(p) PROVE WorkInv'
  BY <1>10, <1>a DEF SyncFails, At, Goto, Exit
<1>11. ASSUME NEW p \in Procs, Prepare(p) PROVE WorkInv'
  BY <1>11, <1>a DEF Prepare, At, Goto, Proceed, Exit
<1>12. ASSUME NEW p \in Procs, WriteManifest(p) PROVE WorkInv'
  BY <1>12, <1>a DEF WriteManifest, At, Goto, Proceed
<1>13. ASSUME NEW p \in Procs, WriteUnit(p) PROVE WorkInv'
  BY <1>13, <1>a DEF WriteUnit, At, Goto, Proceed
<1>14. ASSUME NEW p \in Procs, Deployed(p) PROVE WorkInv'
  BY <1>14, <1>a DEF Deployed, At, Goto, Exit
<1>15. ASSUME NEW p \in Procs, BeginEdit(p) PROVE WorkInv'
  <2>1. conf \in Configs /\ MigrateDomain(conf) = asked.domains /\ Honours(conf, asked.flags)
    <3>1. conf # Unset /\ conf \in Configs
      BY <1>15 DEF BeginEdit, Load
    <3> QED
      BY <3>1, LoadKeeps DEF RecordInv, DomainsKept, FlagsKept, Honours
  <2> DEFINE c == LoadConfig(conf)
  <2>2. c.domains = asked.domains /\ Honours(c, asked.flags)
    BY <2>1, LoadKeeps
  <2> HIDE DEF c
  <2>3. /\ mine' = [mine EXCEPT ![p] = c]
        /\ conf' = conf /\ asked' = asked /\ conf # Unset
    BY <1>15 DEF BeginEdit, Load, Begin, c
  <2> QED
    BY <1>a, <2>2, <2>3 DEF Honours
<1>16. ASSUME NEW p \in Procs, Edit(p) PROVE WorkInv'
  BY <1>16, <1>a DEF Edit, At, Goto, Exit
<1>17. ASSUME NEW p \in Procs, BeginDestroy(p) PROVE WorkInv'
  BY <1>17, <1>a DEF BeginDestroy, At, Goto, Begin
<1>18. ASSUME NEW p \in Procs, RemoveUnit(p) PROVE WorkInv'
  BY <1>18, <1>a DEF RemoveUnit, At, Goto, Proceed
<1>19. ASSUME NEW p \in Procs, DeleteStorage(p) PROVE WorkInv'
  BY <1>19, <1>a DEF DeleteStorage, At, Goto, Exit, CommandInv
<1>20. ASSUME NEW p \in Procs, Fails(p) PROVE WorkInv'
  BY <1>20, <1>a DEF Fails, At, Goto, Exit
<1>21. CASE UNCHANGED vars
  BY <1>21, <1>a DEF vars, files, locals, history
<1> QED
  BY <1>1, <1>2, <1>3, <1>4, <1>5, <1>6, <1>7, <1>8, <1>9, <1>10, <1>11, <1>12, <1>13,
       <1>14, <1>15, <1>16, <1>17, <1>18, <1>19, <1>20, <1>21 DEF Next, CreateNext,
       DeployNext, EditNext, DestroyNext

(* A destroy stays announced while it runs.                                *)
LEMMA DestroyStep ==
  ASSUME Alone, TypeOK, CommandInv, DestroyInv, [Next]_vars
  PROVE  DestroyInv'
<1> USE DEF TypeOK, DestroyInv, files, locals, history
<1>a. \A p \in Procs : Procs = {p}
  BY DEF Alone
<1>1. ASSUME NEW p \in Procs, BeginCreate(p) PROVE DestroyInv'
  BY <1>1, <1>a DEF BeginCreate, At, Goto, Begin
<1>2. ASSUME NEW p \in Procs, Clone(p) PROVE DestroyInv'
  BY <1>2, <1>a DEF Clone, At, Goto, Proceed
<1>3. ASSUME NEW p \in Procs, CloneFails(p) PROVE DestroyInv'
  BY <1>3, <1>a DEF CloneFails, At, Goto, Proceed
<1>4. ASSUME NEW p \in Procs, Resolve(p) PROVE DestroyInv'
  BY <1>4, <1>a DEF Resolve, At, Goto, Exit
<1>5. ASSUME NEW p \in Procs, SaveMetadata(p) PROVE DestroyInv'
  BY <1>5, <1>a DEF SaveMetadata, At, Goto, Exit, CommandInv
<1>6. ASSUME NEW p \in Procs, BeginDeploy(p) PROVE DestroyInv'
  BY <1>6, <1>a DEF BeginDeploy, At, Goto, Load, Begin
<1>7. ASSUME NEW p \in Procs, Pull(p) PROVE DestroyInv'
  BY <1>7, <1>a DEF Pull, At, Goto, Proceed
<1>8. ASSUME NEW p \in Procs, PullFails(p) PROVE DestroyInv'
  BY <1>8, <1>a DEF PullFails, At, Goto, Exit
<1>9. ASSUME NEW p \in Procs, Sync(p) PROVE DestroyInv'
  BY <1>9, <1>a DEF Sync, At, Goto
<1>10. ASSUME NEW p \in Procs, SyncFails(p) PROVE DestroyInv'
  BY <1>10, <1>a DEF SyncFails, At, Goto, Exit
<1>11. ASSUME NEW p \in Procs, Prepare(p) PROVE DestroyInv'
  BY <1>11, <1>a DEF Prepare, At, Goto, Proceed, Exit
<1>12. ASSUME NEW p \in Procs, WriteManifest(p) PROVE DestroyInv'
  BY <1>12, <1>a DEF WriteManifest, At, Goto, Proceed
<1>13. ASSUME NEW p \in Procs, WriteUnit(p) PROVE DestroyInv'
  BY <1>13, <1>a DEF WriteUnit, At, Goto, Proceed
<1>14. ASSUME NEW p \in Procs, Deployed(p) PROVE DestroyInv'
  BY <1>14, <1>a DEF Deployed, At, Goto, Exit
<1>15. ASSUME NEW p \in Procs, BeginEdit(p) PROVE DestroyInv'
  BY <1>15, <1>a DEF BeginEdit, At, Goto, Load, Begin
<1>16. ASSUME NEW p \in Procs, Edit(p) PROVE DestroyInv'
  BY <1>16, <1>a DEF Edit, At, Goto, Exit
<1>17. ASSUME NEW p \in Procs, BeginDestroy(p) PROVE DestroyInv'
  BY <1>17, <1>a DEF BeginDestroy, At, Goto, Begin
<1>18. ASSUME NEW p \in Procs, RemoveUnit(p) PROVE DestroyInv'
  BY <1>18, <1>a DEF RemoveUnit, At, Goto, Proceed
<1>19. ASSUME NEW p \in Procs, DeleteStorage(p) PROVE DestroyInv'
  BY <1>19, <1>a DEF DeleteStorage, At, Goto, Exit
<1>20. ASSUME NEW p \in Procs, Fails(p) PROVE DestroyInv'
  BY <1>20, <1>a DEF Fails, At, Goto, Exit
<1>21. CASE UNCHANGED vars
  BY <1>21, <1>a DEF vars, files, locals, history
<1> QED
  BY <1>1, <1>2, <1>3, <1>4, <1>5, <1>6, <1>7, <1>8, <1>9, <1>10, <1>11, <1>12, <1>13,
       <1>14, <1>15, <1>16, <1>17, <1>18, <1>19, <1>20, <1>21 DEF Next, CreateNext,
       DeployNext, EditNext, DestroyNext

(* Nothing touches the ports a deploy wrote while it goes on.              *)
LEMMA PodsStep ==
  ASSUME Alone, RegistryAssumption, TypeOK, CommandInv, PodsInv, [Next]_vars
  PROVE  PodsInv'
<1> USE DEF TypeOK, PodsInv, files, locals, history
<1>a. \A p \in Procs : Procs = {p}
  BY DEF Alone
<1>b. repo' = repo => Checkout' = Checkout
  BY DEF Checkout
<1>1. ASSUME NEW p \in Procs, BeginCreate(p) PROVE PodsInv'
  BY <1>1, <1>a, <1>b DEF BeginCreate, At, Goto, Begin, CommandInv
<1>2. ASSUME NEW p \in Procs, Clone(p) PROVE PodsInv'
  BY <1>2, <1>a, <1>b DEF Clone, At, Goto, Proceed, CommandInv
<1>3. ASSUME NEW p \in Procs, CloneFails(p) PROVE PodsInv'
  BY <1>3, <1>a, <1>b DEF CloneFails, At, Goto, Proceed, CommandInv
<1>4. ASSUME NEW p \in Procs, Resolve(p) PROVE PodsInv'
  BY <1>4, <1>a, <1>b DEF Resolve, At, Goto, Exit, CommandInv
<1>5. ASSUME NEW p \in Procs, SaveMetadata(p) PROVE PodsInv'
  BY <1>5, <1>a, <1>b DEF SaveMetadata, At, Goto, Exit, CommandInv, CommandInv
<1>6. ASSUME NEW p \in Procs, BeginDeploy(p) PROVE PodsInv'
  BY <1>6, <1>a, <1>b DEF BeginDeploy, At, Goto, Load, Begin, CommandInv
<1>7. ASSUME NEW p \in Procs, Pull(p) PROVE PodsInv'
  BY <1>7, <1>a, <1>b DEF Pull, At, Goto, Proceed, CommandInv
<1>8. ASSUME NEW p \in Procs, PullFails(p) PROVE PodsInv'
  BY <1>8, <1>a, <1>b DEF PullFails, At, Goto, Exit, CommandInv
<1>9. ASSUME NEW p \in Procs, Sync(p) PROVE PodsInv'
  BY <1>9, <1>a, <1>b DEF Sync, At, Goto, CommandInv
<1>10. ASSUME NEW p \in Procs, SyncFails(p) PROVE PodsInv'
  BY <1>10, <1>a, <1>b DEF SyncFails, At, Goto, Exit, CommandInv
<1>11. ASSUME NEW p \in Procs, Prepare(p) PROVE PodsInv'
  BY <1>11, <1>a, <1>b DEF Prepare, At, Goto, Proceed, Exit, CommandInv
<1>12. ASSUME NEW p \in Procs, WriteManifest(p) PROVE PodsInv'
  BY <1>12, <1>a, <1>b DEF WriteManifest, At, Goto, Proceed, CommandInv
<1>13. ASSUME NEW p \in Procs, WriteUnit(p) PROVE PodsInv'
  BY <1>13, <1>a, <1>b DEF WriteUnit, At, Goto, Proceed, CommandInv
<1>14. ASSUME NEW p \in Procs, Deployed(p) PROVE PodsInv'
  <2>1. pc'[p] = "idle"
    BY <1>14 DEF Deployed, Exit, Goto
  <2>2. \A q \in Procs : pc'[q] \notin {"unit", "done"}
    BY <1>a, <2>1
  <2> QED
    BY <2>2 DEF PodsInv
<1>15. ASSUME NEW p \in Procs, BeginEdit(p) PROVE PodsInv'
  BY <1>15, <1>a, <1>b DEF BeginEdit, At, Goto, Load, Begin, CommandInv
<1>16. ASSUME NEW p \in Procs, Edit(p) PROVE PodsInv'
  BY <1>16, <1>a, <1>b DEF Edit, At, Goto, Exit, CommandInv
<1>17. ASSUME NEW p \in Procs, BeginDestroy(p) PROVE PodsInv'
  BY <1>17, <1>a, <1>b DEF BeginDestroy, At, Goto, Begin, CommandInv
<1>18. ASSUME NEW p \in Procs, RemoveUnit(p) PROVE PodsInv'
  BY <1>18, <1>a, <1>b DEF RemoveUnit, At, Goto, Proceed, CommandInv
<1>19. ASSUME NEW p \in Procs, DeleteStorage(p) PROVE PodsInv'
  BY <1>19, <1>a, <1>b DEF DeleteStorage, At, Goto, Exit, CommandInv
<1>20. ASSUME NEW p \in Procs, Fails(p) PROVE PodsInv'
  <2>1. pc'[p] = "idle"
    BY <1>20 DEF Fails, Exit, Goto
  <2>2. \A q \in Procs : pc'[q] \notin {"unit", "done"}
    BY <1>a, <2>1
  <2> QED
    BY <2>2 DEF PodsInv
<1>21. CASE UNCHANGED vars
  BY <1>21, <1>a, <1>b DEF vars, files, locals, history, CommandInv
<1> QED
  BY <1>1, <1>2, <1>3, <1>4, <1>5, <1>6, <1>7, <1>8, <1>9, <1>10, <1>11, <1>12, <1>13,
       <1>14, <1>15, <1>16, <1>17, <1>18, <1>19, <1>20, <1>21 DEF Next, CreateNext,
       DeployNext, EditNext, DestroyNext

(* Every step keeps what is recorded in agreement with what was asked.     *)
LEMMA RecordStep ==
  ASSUME RegistryAssumption, Alone, IInv, [Next]_vars
  PROVE  RecordInv'
<1> USE DEF IInv, TypeOK, RecordInv, DomainsKept, FlagsKept, ConfigLast, DerivedOnlyCompose, files, locals, history
<1>a. \A p \in Procs : Procs = {p}
  BY DEF Alone
<1>1. ASSUME NEW p \in Procs, BeginCreate(p) PROVE RecordInv'
  BY <1>1 DEF BeginCreate, Begin
<1>2. ASSUME NEW p \in Procs, Clone(p) PROVE RecordInv'
  <2>1. conf' = Unset
    BY <1>2 DEF Clone, At, CommandInv, CreateInv
  <2> QED
    BY <2>1
<1>3. ASSUME NEW p \in Procs, CloneFails(p) PROVE RecordInv'
  BY <1>3, <1>a DEF CloneFails, At, Goto, Proceed
<1>4. ASSUME NEW p \in Procs, Resolve(p) PROVE RecordInv'
  BY <1>4, <1>a DEF Resolve, At, Goto, Exit
<1>5. ASSUME NEW p \in Procs, SaveMetadata(p) PROVE RecordInv'
  <2>1. CASE conf' = conf
    BY <1>5, <2>1 DEF SaveMetadata, At, CommandInv, CreateInv
  <2>2. CASE conf' # conf
    <3>1. /\ conf' = mine[p] /\ asked' = [flags |-> arg[p], domains |-> {}]
          /\ repo' = repo /\ unit' = unit
      BY <1>5, <2>2 DEF SaveMetadata, Saved
    <3>2. /\ mine[p] \in Configs /\ mine[p].old = NoKeys /\ Derived(mine[p])
          /\ mine[p].domains = {} /\ Honours(mine[p], arg[p]) /\ repo # Unset /\ unit # Unset
      BY <1>5 DEF SaveMetadata, At, CommandInv, CreateInv
    <3>3. LoadConfig(mine[p]).domains = {}
      BY <3>2, LoadKeeps, LoadedDomains
    <3> QED
      BY <3>1, <3>2, <3>3 DEF Honours, Derived
  <2> QED
    BY <2>1, <2>2
<1>6. ASSUME NEW p \in Procs, BeginDeploy(p) PROVE RecordInv'
  BY <1>6, <1>a DEF BeginDeploy, At, Goto, Load, Begin
<1>7. ASSUME NEW p \in Procs, Pull(p) PROVE RecordInv'
  <2>1. repo' # Unset
    BY <1>7 DEF Pull, RegistryAssumption
  <2> QED
    BY <1>7, <2>1 DEF Pull
<1>8. ASSUME NEW p \in Procs, PullFails(p) PROVE RecordInv'
  BY <1>8, <1>a DEF PullFails, At, Goto, Exit
<1>9. ASSUME NEW p \in Procs, Sync(p) PROVE RecordInv'
  <2> DEFINE d == DetectPort(SyncGareFile(mine[p], Checkout), Checkout)
  <2>1. /\ mine[p] \in Configs /\ mine[p].old = NoKeys /\ Derived(mine[p])
        /\ Checkout.gare # Invalid /\ op[p] = "deploy"
    BY <1>9 DEF Sync, At, CommandInv
  <2>2. /\ d \in Configs /\ d.old = NoKeys /\ Derived(d)
        /\ d.domains = asked.domains /\ Honours(d, asked.flags)
    BY <2>1, SyncKeeps DEF WorkInv
  <2>3. LoadConfig(d).domains = asked.domains
    BY <2>2, LoadKeeps, LoadedDomains
  <2>4. conf' \in {conf, d} /\ UNCHANGED <<repo, unit, asked, doomed>> /\ conf # Unset
    BY <1>9, <2>1 DEF Sync, Saved, WorkInv
  <2> HIDE DEF d
  <2> QED
    BY <2>2, <2>3, <2>4 DEF Honours, Derived
<1>10. ASSUME NEW p \in Procs, SyncFails(p) PROVE RecordInv'
  BY <1>10, <1>a DEF SyncFails, At, Goto, Exit
<1>11. ASSUME NEW p \in Procs, Prepare(p) PROVE RecordInv'
  BY <1>11, <1>a DEF Prepare, At, Goto, Proceed, Exit
<1>12. ASSUME NEW p \in Procs, WriteManifest(p) PROVE RecordInv'
  BY <1>12, <1>a DEF WriteManifest, At, Goto, Proceed
<1>13. ASSUME NEW p \in Procs, WriteUnit(p) PROVE RecordInv'
  <2>1. unit' # Unset
    BY <1>13 DEF WriteUnit, At, CommandInv, Configs, RegistryAssumption
  <2> QED
    BY <1>13, <2>1 DEF WriteUnit
<1>14. ASSUME NEW p \in Procs, Deployed(p) PROVE RecordInv'
  BY <1>14, <1>a DEF Deployed, At, Goto, Exit
<1>15. ASSUME NEW p \in Procs, BeginEdit(p) PROVE RecordInv'
  BY <1>15, <1>a DEF BeginEdit, At, Goto, Load, Begin
<1>16. ASSUME NEW p \in Procs, Edit(p) PROVE RecordInv'
  <2> DEFINE e == Edited(p)
  <2>1. op[p] \in Edits /\ conf # Unset
    BY <1>16 DEF Edit, At, CommandInv, WorkInv
  <2>2. CASE conf' = conf /\ asked' = asked
    BY <1>16, <2>2 DEF Edit
  <2>3. CASE ~(conf' = conf /\ asked' = asked)
    <3>1. /\ conf' = e /\ UNCHANGED <<repo, unit, doomed>>
          /\ asked'.flags = asked.flags
          /\ asked'.domains = CASE op[p] = "add"    -> asked.domains \cup {arg[p]}
                               [] op[p] = "remove" -> asked.domains \ {arg[p]}
                               [] OTHER            -> asked.domains
      <4>1. /\ conf' = e /\ UNCHANGED <<repo, unit, doomed>>
            /\ asked' = CASE op[p] = "add"    -> [asked EXCEPT !.domains = @ \cup {arg[p]}]
                           [] op[p] = "remove" -> [asked EXCEPT !.domains = @ \ {arg[p]}]
                           [] OTHER            -> asked
        <5>1. ~(UNCHANGED <<conf, asked>>)
          BY <2>3
        <5> QED
          BY <1>16, <5>1 DEF Edit, Saved
      <4>2. asked \in [flags: Flags \cup {NoFlags}, domains: SUBSET Domains]
        OBVIOUS
      <4>3. CASE op[p] = "add"
        BY <4>1, <4>2, <4>3
      <4>4. CASE op[p] = "remove"
        BY <4>1, <4>2, <4>4
      <4>5. CASE op[p] \notin {"add", "remove"}
        BY <4>1, <4>2, <4>5
      <4> QED
        BY <4>3, <4>4, <4>5
    <3>2. e \in Configs /\ e.old = NoKeys /\ Derived(e) /\ Honours(e, asked.flags)
          /\ e.domains = asked'.domains
      <4>1. /\ mine[p].old = NoKeys /\ Honours(mine[p], asked.flags)
            /\ mine[p].domains = asked.domains
        BY <2>1 DEF CommandInv, WorkInv
      <4>2. /\ e \in Configs /\ e.old = NoKeys /\ Derived(e) /\ Honours(e, asked.flags)
            /\ e.domains = CASE op[p] = "add"    -> mine[p].domains \cup {arg[p]}
                             [] op[p] = "remove" -> mine[p].domains \ {arg[p]}
                             [] OTHER            -> mine[p].domains
        BY <2>1, <4>1, EditKeeps
      <4> HIDE DEF e
      <4> QED
        BY <3>1, <4>1, <4>2
    <3>3. LoadConfig(e).domains = asked'.domains
      BY <3>2, LoadKeeps, LoadedDomains
    <3> HIDE DEF e
    <3> QED
      BY <2>1, <3>1, <3>2, <3>3 DEF Honours, Derived
  <2> QED
    BY <2>2, <2>3
<1>17. ASSUME NEW p \in Procs, BeginDestroy(p) PROVE RecordInv'
  BY <1>17, <1>a DEF BeginDestroy, At, Goto, Begin
<1>18. ASSUME NEW p \in Procs, RemoveUnit(p) PROVE RecordInv'
  <2>1. doomed
    BY <1>18 DEF RemoveUnit, At, CommandInv, DestroyInv
  <2> QED
    BY <1>18, <2>1 DEF RemoveUnit
<1>19. ASSUME NEW p \in Procs, DeleteStorage(p) PROVE RecordInv'
  <2>1. conf = Unset \/ doomed
    BY <1>19 DEF DeleteStorage, At, CommandInv, CreateInv, DestroyInv
  <2> QED
    BY <1>19, <2>1 DEF DeleteStorage
<1>20. ASSUME NEW p \in Procs, Fails(p) PROVE RecordInv'
  BY <1>20, <1>a DEF Fails, At, Goto, Exit
<1>21. CASE UNCHANGED vars
  BY <1>21, <1>a DEF vars, files, locals, history
<1> QED
  BY <1>1, <1>2, <1>3, <1>4, <1>5, <1>6, <1>7, <1>8, <1>9, <1>10, <1>11, <1>12, <1>13,
       <1>14, <1>15, <1>16, <1>17, <1>18, <1>19, <1>20, <1>21 DEF Next, CreateNext,
       DeployNext, EditNext, DestroyNext

(* No application, or one an older gare left.                              *)
LEMMA InitIInv ==
  ASSUME RegistryAssumption, Init
  PROVE  IInv
<1> USE RegistryAssumption DEF Init
<1>a. CommandInv /\ CreateInv /\ WorkInv /\ DestroyInv
  BY DEF CommandInv, CreateInv, WorkInv, DestroyInv, Edits
<1>b. PodsInv
  <2>1. \A p \in Procs : op[p] # "deploy"
    OBVIOUS
  <2> QED
    BY <2>1 DEF PodsInv
<1>1. CASE conf = Unset
  <2>1. TypeOK
    BY <1>1 DEF TypeOK, Commands
  <2>2. RecordInv
    BY <1>1 DEF RecordInv, DomainsKept, FlagsKept, ConfigLast, DerivedOnlyCompose
  <2> QED
    BY <1>a, <1>b, <2>1, <2>2 DEF IInv
<1>2. CASE conf # Unset
  <2>1. conf \in Configs /\ Derived(conf) /\ repo # Unset
    BY <1>2 DEF RegistryAssumption, Derived
  <2>2. LoadConfig(conf).domains \in SUBSET Domains
    BY <2>1, LoadKeeps DEF Configs
  <2>3. /\ conf.port \in Ports /\ ContainerPort(conf) \in Ports
        /\ conf.type \in Types /\ conf.type # Unset
    BY <2>1 DEF Configs, ContainerPort, OrPort, RegistryAssumption
  <2>4. manifest \in Pods \cup {Unset} /\ unit \in Types \cup {Unset} /\ unit # Unset
    BY <1>2, <2>3 DEF Pods
  <2>5. TypeOK
    BY <2>1, <2>2, <2>4 DEF TypeOK, Commands
  <2>6. RecordInv
    BY <1>2, <2>1, <2>4 DEF RecordInv, DomainsKept, FlagsKept, ConfigLast, DerivedOnlyCompose,
         NoFlags, Derived
  <2> QED
    BY <1>a, <1>b, <2>5, <2>6 DEF IInv
<1> QED
  BY <1>1, <1>2

(* The inductive invariant holds throughout when commands run one at a     *)
(* time: what a command holds in memory is never older than the record.    *)
THEOREM Invariance == Alone => (Spec => []IInv)
<1> SUFFICES ASSUME Alone PROVE Spec => []IInv
  OBVIOUS
<1>1. Init => IInv
  BY RegistryAssumption, InitIInv
<1>2. IInv /\ [Next]_vars => IInv'
  <2> SUFFICES ASSUME IInv, [Next]_vars PROVE IInv'
    OBVIOUS
  <2> QED
    BY RegistryAssumption, TypeStep, CommandStep, CreateStep, WorkStep, DestroyStep, PodsStep,
       RecordStep DEF IInv
<1> QED
  BY <1>1, <1>2, PTL DEF Spec

(* Every variable keeps its type: what is merged from flags, gare.yml and  *)
(* an old file is a configuration.                                         *)
THEOREM TypeCorrect == Alone => (Spec => []TypeOK)
<1>1. IInv => TypeOK
  BY DEF IInv
<1> QED
  BY <1>1, Invariance, PTL

(* The hostnames recorded are those the operator added and did not remove. *)
THEOREM DomainsKeptHolds == Alone => (Spec => []DomainsKept)
<1>1. IInv => DomainsKept
  BY DEF IInv, RecordInv
<1> QED
  BY <1>1, Invariance, PTL

(* Texts given on the command line of a create outlive every gare.yml.     *)
THEOREM FlagsKeptHolds == Alone => (Spec => []FlagsKept)
<1>1. IInv => FlagsKept
  BY DEF IInv, RecordInv
<1> QED
  BY <1>1, Invariance, PTL

(* Until a destroy begins, a record comes with a clone and a unit.         *)
THEOREM ConfigLastHolds == Alone => (Spec => []ConfigLast)
<1>1. IInv => ConfigLast
  BY DEF IInv, RecordInv
<1> QED
  BY <1>1, Invariance, PTL

(* Derived probes are recorded only for compose stacks.                    *)
THEOREM DerivedHolds == Alone => (Spec => []DerivedOnlyCompose)
<1>1. IInv => DerivedOnlyCompose
  BY DEF IInv, RecordInv
<1> QED
  BY <1>1, Invariance, PTL

(* gare's own manifest has the recorded ports when a deploy is done.       *)
THEOREM ManifestHolds == Alone => (Spec => []ManifestMatches)
<1>1. IInv => ManifestMatches
  BY DEF IInv, CommandInv, PodsInv, ManifestMatches
<1> QED
  BY <1>1, Invariance, PTL

(* Only a destroy takes a recorded application away.                       *)
THEOREM RemovalHolds == Alone => (Spec => OnlyDestroyRemoves)
<1> SUFFICES ASSUME Alone PROVE Spec => OnlyDestroyRemoves
  OBVIOUS
<1> DEFINE Removed == conf # Unset /\ conf' = Unset =>
                        \E p \in Procs : pc[p] = "purge" /\ op[p] = "destroy"
<1>1. IInv /\ [Next]_vars => [Removed]_vars
  <2> SUFFICES ASSUME IInv, [Next]_vars, conf # Unset, conf' = Unset PROVE Removed
    OBVIOUS
  <2>1. ASSUME NEW p \in Procs, DeleteStorage(p) PROVE Removed
    BY <2>1 DEF DeleteStorage, At, IInv, CommandInv, CreateInv
  <2>2. ASSUME NEW p \in Procs, SaveMetadata(p) PROVE FALSE
    BY <2>2, RegistryAssumption
    DEF SaveMetadata, Saved, At, IInv, CommandInv, CreateInv
  <2>3. ASSUME NEW p \in Procs, Sync(p) PROVE FALSE
    <3>1. mine[p] \in Configs /\ Derived(mine[p]) /\ Checkout.gare # Invalid /\ TypeOK
      BY <2>3 DEF Sync, At, IInv, CommandInv
    <3>2. mine'[p] \in Configs
      BY <2>3, <3>1, RegistryAssumption, SyncKeeps DEF Sync, TypeOK
    <3> QED
      BY <2>3, <3>2, RegistryAssumption DEF Sync, Saved
  <2>4. ASSUME NEW p \in Procs, Edit(p) PROVE FALSE
    <3>1. op[p] \in Edits
      BY <2>4 DEF Edit, At, IInv, CommandInv
    <3>2. Edited(p) \in Configs
      BY <3>1, RegistryAssumption, EditKeeps DEF IInv
    <3> QED
      BY <2>4, <3>2, RegistryAssumption DEF Edit, Saved
  <2>5. CASE conf' = conf
    BY <2>5
  <2> QED
    BY <2>1, <2>2, <2>3, <2>4, <2>5
    DEF Next, CreateNext, DeployNext, EditNext, DestroyNext, BeginCreate, Clone, CloneFails,
        Resolve, BeginDeploy, Pull, PullFails, SyncFails, Prepare, WriteManifest, WriteUnit,
        Deployed, BeginEdit, BeginDestroy, RemoveUnit, Fails, Load, vars, files
<1> QED
  BY <1>1, Invariance, PTL DEF Spec, OnlyDestroyRemoves
=============================================================================
