---------------------------- MODULE ComposeStack ----------------------------
(***************************************************************************)
(* A compose application.  gare reads the compose file of the clone to     *)
(* check the port it routes to, to derive health probes and to warn, and   *)
(* leaves the stack to the provider, which systemd runs in the clone: what *)
(* the clone says when the unit starts or stops is what the provider does. *)
(*                                                                         *)
(* The commands of the application run one at a time.  The machine,        *)
(* systemd and the containers go on beside them.                           *)
(***************************************************************************)
EXTENDS Integers, Sequences, FiniteSets

CONSTANTS
  Revisions,  \* what the repository may hold
  Services,   \* the names of services, and of probes
  Files,      \* the names a compose file is found under
  Flags,      \* the ports gare app create is given, 0 for none
  Elsewhere   \* a host port no file names

NoRevision == [file |-> "none"]
NoConf == [port |-> 0, file |-> "none", domains |-> FALSE, probes |-> {}]

Hosts == {"any", "127.0.0.1", "::1", "other"}
Protocols == {"tcp", "udp"}

(* An entry of ports: a host port, or the first of span, for a target.  A  *)
(* bare entry names no host port; 0 is one no number can be read from.     *)
Entries == [form: {"bare", "mapped"}, host: Hosts, protocol: Protocols,
            published: Nat, target: Nat, span: {1, 2}]

ASSUME ComposeAssumption ==
  /\ \A r \in Revisions :
       /\ r.file \in Files \cup {"none"}
       /\ DOMAIN r.services \subseteq Services
       /\ \A s \in DOMAIN r.services : /\ r.services[s].ports \in Seq(Entries)
                                       /\ r.services[s].check \in Nat
       /\ r.gare \in BOOLEAN /\ r.port \in Nat
       /\ r.declared \subseteq [name: Services, port: Nat \ {0}]
  /\ "none" \notin Files
  /\ Flags \subseteq Nat
  /\ Elsewhere \notin Nat

VARIABLES
  clone,     \* the revision in the application's checkout
  conf,      \* config.json
  unitFile,  \* the compose file the unit names
  enabled,   \* the unit starts with the machine
  unit,      \* "starting" is one systemd has yet to start, again or at boot
  stack,     \* the containers of the project: what each publishes, and its state
  pc, op,    \* the next step of the command, and the command
  warned,    \* what it has warned of
  mute,      \* podman failed it when it looked for containers
  lost       \* a container has died since the unit last started

unitVars    == <<unitFile, enabled>>
runVars     == <<unit, stack, lost>>
commandVars == <<pc, op, warned, mute>>
vars == <<clone, conf, unitVars, runVars, commandVars>>

-----------------------------------------------------------------------------
(* What gare reads in a compose file.                                      *)

(* LocateFile: the file that is configured, or the one that is found.      *)
LocateFile(r, configured) ==
  IF configured = "none" \/ r.file = configured THEN r.file ELSE "none"

(* portPair: the host port and the target gare takes an entry to mean,     *)
(* whatever its host and its protocol are.                                 *)
PortPair(e) == [published |-> IF e.form = "bare" THEN e.target ELSE e.published,
                target    |-> e.target]

EntriesOf(r) == UNION {{r.services[s].ports[i] : i \in DOMAIN r.services[s].ports} :
                       s \in DOMAIN r.services}

PublishedPorts(r) == {PortPair(e).published : e \in EntriesOf(r)} \ {0}

(* Mutant: whatever port is configured will do.                            *)
AnyPort(r, port) == port > 0

ValidatePort(r, port) == port > 0 /\ port \in PublishedPorts(r)

(* resolveComposeWorkload *)
Resolves(r, configured, port) == /\ LocateFile(r, configured) # "none"
                                 /\ ValidatePort(r, port)

(* servicePortMap: the host port of a target, that of the last entry for   *)
(* it, if there is any.                                                    *)
ServicePort(ports, target) ==
  LET usable == {i \in DOMAIN ports : /\ PortPair(ports[i]).target = target
                                      /\ PortPair(ports[i]).published > 0}
  IN  {PortPair(ports[i]).published :
         i \in {j \in usable : target > 0 /\ \A k \in usable : k <= j}}

(* probeFromHealthcheck, for every service that has an HTTP healthcheck.   *)
HealthProbes(r) ==
  UNION {{[name |-> s, port |-> port] :
            port \in ServicePort(r.services[s].ports, r.services[s].check)} :
         s \in DOMAIN r.services}

(* isLoopbackHost of portEntryHost, for an entry gare reads a port from.   *)
Loopback == {"127.0.0.1", "::1"}
LoopbackEntry(e) == e.form # "bare" /\ e.host \in Loopback

(* Mutant: the first entry on loopback decides.                            *)
SomeLoopback(r) == \E e \in EntriesOf(r) : PortPair(e).published > 0 /\ LoopbackEntry(e)

LoopbackOnly(r) == LET read == {e \in EntriesOf(r) : PortPair(e).published > 0}
                   IN  read # {} /\ \A e \in read : LoopbackEntry(e)

-----------------------------------------------------------------------------
(* The provider: podman compose up and down, in the clone.                 *)

(* What an entry binds on the host.                                        *)
Binds(e) ==
  IF e.form = "bare" \/ e.published = 0
  THEN {[host |-> e.host, protocol |-> e.protocol, port |-> Elsewhere, target |-> e.target]}
  ELSE {[host |-> e.host, protocol |-> e.protocol, port |-> e.published + i,
         target |-> e.target + i] : i \in 0..(e.span - 1)}

(* A connection to 127.0.0.1 finds it, an entry or what the entry bound.   *)
Answers(x) == x.protocol = "tcp" /\ x.host \in {"any", "127.0.0.1"}

Container(s) == [binds |-> UNION {Binds(clone.services[s].ports[i]) :
                                    i \in DOMAIN clone.services[s].ports},
                 state |-> "up"]
NoContainer == [binds |-> {}, state |-> "absent"]

Present == {s \in Services : stack[s].state # "absent"}
Running == {s \in Services : stack[s].state = "up"}
Bound   == UNION {stack[s].binds : s \in Running}

(* The services down and up are about: those of the unit's file, if it is  *)
(* still in the clone.  A service the file has dropped is none of them.    *)
Declared(file) == IF file # "none" /\ clone.file = file THEN DOMAIN clone.services ELSE {}

Emptied(file) == [s \in Services |-> IF s \in Declared(file) THEN NoContainer ELSE stack[s]]

(* isPortFree: gare listens for TCP on every address.                      *)
Free(port) == \A b \in Bound : b.port = port => b.protocol # "tcp"

(* No host port is bound twice, within the file or by a leftover.          *)
Clash(b, c) == /\ b.port = c.port /\ b.port # Elsewhere /\ b.protocol = c.protocol
               /\ b.host = c.host \/ "any" \in {b.host, c.host}

NoConflict(after) ==
  \A s, t \in Services : after[s].state = "up" /\ after[t].state = "up" /\ s # t =>
    \A b \in after[s].binds, c \in after[t].binds : ~Clash(b, c)

(* ExecStart, from what ExecStop left.                                     *)
Ups(left) == LET after == [s \in Services |-> IF s \in Declared(unitFile) THEN Container(s)
                                              ELSE left[s]]
             IN  {x \in {after} : Declared(unitFile) # {} /\ NoConflict(x)}

UnitUp(left) == /\ \E after \in Ups(left) : stack' = after
                /\ unit' = "active" /\ lost' = FALSE

(* The provider may fail for reasons of its own; ExecStopPost then runs    *)
(* down, which may fail too, and systemd will try again.                   *)
UnitFails == /\ stack' \in {Emptied(unitFile), stack}
             /\ unit' = "starting" /\ UNCHANGED lost

(* ExecStop and ExecStopPost ignore the provider's failure.                *)
UnitDown == /\ stack' \in IF unit = "active" THEN {Emptied(unitFile), stack} ELSE {stack}
            /\ unit' = "inactive" /\ UNCHANGED lost

Bindings == [host: Hosts, protocol: Protocols, port: Nat \cup {Elsewhere}, target: Nat]
Containers == [binds: SUBSET Bindings, state: {"absent", "exited", "up"}]

HostTypeOK ==
  /\ clone \in Revisions \cup {NoRevision}
  /\ conf \in [port: Nat, file: Files \cup {"none"}, domains: BOOLEAN,
              probes: SUBSET [name: Services, port: Nat \ {0}]]
  /\ unitFile \in Files \cup {"none"} /\ enabled \in BOOLEAN
  /\ unit \in {"inactive", "starting", "active"} /\ lost \in BOOLEAN
  /\ stack \in [Services -> Containers]

CommandTypeOK ==
  /\ warned \subseteq {"loopback", "leftovers", "skipped"} /\ mute \in BOOLEAN
  /\ \/ pc = "idle" /\ op = "none"
     \/ pc \in {"pull", "sync", "prepare", "warn", "job", "probe", "report"} /\ op = "deploy"
     \/ pc \in {"warn", "job", "report"} /\ op \in {"start", "restart"}
     \/ pc \in {"stop", "verify", "report"} /\ op = "stop"
     \/ pc \in {"stop", "teardown", "verify", "delete", "report"} /\ op = "destroy"

TypeOK == HostTypeOK /\ CommandTypeOK

Init ==
  /\ clone = NoRevision
  /\ conf = NoConf
  /\ unitFile = "none" /\ enabled = FALSE
  /\ unit = "inactive" /\ stack = [s \in Services |-> NoContainer] /\ lost = FALSE
  /\ pc = "idle" /\ op = "none" /\ warned = {} /\ mute = FALSE

-----------------------------------------------------------------------------
(* What goes on beside the commands.                                       *)

End == pc' = "idle" /\ op' = "none" /\ warned' = {} /\ mute' = FALSE

Exited(s) == [stack[s] EXCEPT !.state = "exited"]

Dies == \E s \in Running :
          /\ stack' = [stack EXCEPT ![s] = Exited(s)]
          /\ lost' = TRUE
          /\ UNCHANGED <<clone, conf, unitVars, unit, commandVars>>

(* Containers a boot finds have exited; an enabled unit is started.        *)
Reboot == /\ pc # "idle" \/ unit # "inactive" \/ Running # {}
          /\ stack' = [s \in Services |-> IF s \in Running THEN Exited(s) ELSE stack[s]]
          /\ unit' = IF enabled THEN "starting" ELSE "inactive"
          /\ lost' = TRUE
          /\ End
          /\ UNCHANGED <<clone, conf, unitVars>>

(* At boot, or RestartSec after a start that failed.                       *)
SystemdStarts == /\ unit = "starting"
                 /\ UnitUp(stack)
                 /\ UNCHANGED <<clone, conf, unitVars, commandVars>>

-----------------------------------------------------------------------------
(* The commands.                                                           *)

Known == conf # NoConf
At(step) == pc = step
Goto(step) == pc' = step /\ UNCHANGED op

Begin(command, first) == /\ pc = "idle"
                         /\ pc' = first /\ op' = command
                         /\ UNCHANGED <<warned, mute, clone, conf, unitVars, runVars>>

BeginDeploy  == Known /\ Begin("deploy", "pull")
BeginStart   == Known /\ Begin("start", "warn")
BeginRestart == Known /\ Begin("restart", "warn")
BeginStop    == Known /\ Begin("stop", "stop")
BeginDestroy == Known /\ Begin("destroy", "stop")

(* runCreateApp for a compose repository.                                  *)
Create == \E r \in Revisions, flag \in Flags :
  LET port == IF flag = 0 /\ r.gare THEN r.port ELSE flag
  IN  /\ pc = "idle" /\ ~Known
      /\ Resolves(r, "none", port)
      /\ Free(port)
      /\ clone' = r
      /\ unitFile' = r.file
      /\ conf' = [port |-> port, file |-> r.file, domains |-> FALSE,
                  probes |-> IF r.gare THEN r.declared ELSE {}]
      /\ UNCHANGED <<enabled, runVars, commandVars>>

(* gare domain add, and remove.                                            *)
EditDomains == /\ pc = "idle" /\ Known
               /\ conf' = [conf EXCEPT !.domains = ~@]
               /\ UNCHANGED <<clone, unitVars, runVars, commandVars>>

(* git pull: the branch may be at any revision by now.                     *)
Pull == /\ At("pull")
        /\ clone' \in Revisions /\ Goto("sync")
        /\ UNCHANGED <<conf, unitVars, runVars, warned, mute>>

(* deriveComposeProbes *)
DerivedProbes == IF LocateFile(clone, conf.file) = "none" THEN {} ELSE HealthProbes(clone)

(* Mutant: the probes of a file that has none any more are kept.           *)
KeptProbes == IF clone.declared # {} THEN clone.declared
              ELSE IF DerivedProbes # {} THEN DerivedProbes ELSE conf.probes

(* applyGareHealthConfig *)
SyncedProbes == IF clone.declared # {} THEN clone.declared ELSE DerivedProbes

(* syncGareFileConfig: without a gare.yml the configuration stays as it is. *)
(* A new port must be free, which one the stack publishes over TCP is not. *)
Sync ==
  /\ At("sync")
  /\ \/ /\ ~clone.gare
        /\ UNCHANGED conf /\ Goto("prepare") /\ UNCHANGED <<warned, mute>>
     \/ /\ clone.gare
        /\ clone.port \in {0, conf.port} \/ Free(clone.port)
        /\ conf' = [conf EXCEPT !.port = IF clone.port = 0 THEN @ ELSE clone.port,
                                !.probes = SyncedProbes]
        /\ Goto("prepare") /\ UNCHANGED <<warned, mute>>
     \/ /\ clone.gare /\ clone.port \notin {0, conf.port}
        /\ UNCHANGED conf /\ End
  /\ UNCHANGED <<clone, unitVars, runVars>>

(* prepareComposeDeploy, whose provider check or build may fail.           *)
Prepare ==
  /\ At("prepare")
  /\ \/ /\ Resolves(clone, conf.file, conf.port)
        /\ unitFile' = LocateFile(clone, conf.file)
        /\ Goto("warn") /\ UNCHANGED <<warned, mute>>
     \/ UNCHANGED unitFile /\ End
  /\ UNCHANGED <<clone, conf, enabled, runVars>>

(* warnComposeReachability *)
WarnReachability ==
  /\ At("warn")
  /\ warned' = warned \cup {w \in {"loopback"} : /\ ~conf.domains
                                                /\ LocateFile(clone, conf.file) # "none"
                                                /\ LoopbackOnly(clone)}
  /\ Goto("job")
  /\ UNCHANGED <<clone, conf, unitVars, runVars, mute>>

(* enable, for a deploy, then systemctl start or restart, until it is over. *)
StartUnit ==
  /\ At("job")
  /\ enabled' = (enabled \/ op = "deploy")
  /\ \/ /\ \/ op = "start" /\ unit = "active" /\ UNCHANGED runVars
           \/ op = "start" /\ unit # "active" /\ UnitUp(stack)
           \/ op # "start" /\ UnitUp(IF unit = "active" THEN Emptied(unitFile) ELSE stack)
        /\ Goto(IF op = "deploy" THEN "probe" ELSE "report") /\ UNCHANGED <<warned, mute>>
     \/ /\ ~(op = "start" /\ unit = "active")
        /\ UnitFails /\ End
  /\ UNCHANGED <<clone, conf, unitFile>>

(* verifyHealth: the probes, or the port, answer to a request of           *)
(* 127.0.0.1, or the deploy fails.  Nothing but the stack answers here.    *)
Probed == IF conf.probes # {} THEN {h.port : h \in conf.probes} ELSE {conf.port}
Probe == /\ At("probe")
         /\ \/ /\ unit = "active" /\ Probed \subseteq {b.port : b \in {x \in Bound : Answers(x)}}
               /\ Goto("report") /\ UNCHANGED <<warned, mute>>
            \/ End
         /\ UNCHANGED <<clone, conf, unitVars, runVars>>

(* systemctl stop, for a destroy also disable and the unit file's removal. *)
(* It fails by its deadline, which a destroy has spent for what follows.   *)
StopUnit ==
  /\ At("stop")
  /\ \/ /\ UnitDown
        /\ Goto(IF op = "destroy" THEN "teardown" ELSE "verify") /\ UNCHANGED <<warned, mute>>
     \/ /\ op = "destroy" /\ UNCHANGED runVars
        /\ mute' = TRUE
        /\ Goto("teardown") /\ UNCHANGED warned
     \/ op = "stop" /\ UNCHANGED runVars /\ End
  /\ enabled' = (enabled /\ op # "destroy")
  /\ UNCHANGED <<clone, conf, unitFile>>

(* destroyComposeWorkload: the stack is found through the clone, or left.  *)
Teardown ==
  /\ At("teardown")
  /\ IF LocateFile(clone, conf.file) = "none"
     THEN /\ warned' = warned \cup {"skipped"} /\ UNCHANGED runVars
          /\ Goto("delete")
     ELSE /\ stack' \in {stack} \cup {x \in {Emptied(conf.file)} : ~mute}
          /\ UNCHANGED <<unit, lost, warned>>
          /\ Goto("verify")
  /\ UNCHANGED <<clone, conf, unitVars, mute>>

(* Mutant: a destroy looks for containers only if the provider failed.     *)
VerifyStopOnly ==
  /\ At("verify")
  /\ \/ /\ ~mute
        /\ warned' = warned \cup {w \in {"leftovers"} : Present # {} /\ op = "stop"}
        /\ UNCHANGED mute
     \/ mute' = TRUE /\ UNCHANGED warned
  /\ Goto(IF op = "destroy" THEN "delete" ELSE "report")
  /\ UNCHANGED <<clone, conf, unitVars, runVars>>

(* verifyComposeContainersGone: exited containers count; podman may fail.  *)
VerifyContainersGone ==
  /\ At("verify")
  /\ \/ /\ ~mute
        /\ warned' = warned \cup {w \in {"leftovers"} : Present # {}}
        /\ UNCHANGED mute
     \/ mute' = TRUE /\ UNCHANGED warned
  /\ Goto(IF op = "destroy" THEN "delete" ELSE "report")
  /\ UNCHANGED <<clone, conf, unitVars, runVars>>

(* The unit and the storage, the clone with it.                            *)
Delete == /\ At("delete")
          /\ clone' = NoRevision /\ conf' = NoConf /\ unitFile' = "none"
          /\ Goto("report")
          /\ UNCHANGED <<enabled, runVars, warned, mute>>

Report == /\ At("report") /\ End
          /\ UNCHANGED <<clone, conf, unitVars, runVars>>

CommandNext == \/ BeginDeploy \/ BeginStart \/ BeginRestart \/ BeginStop \/ BeginDestroy
               \/ Create \/ EditDomains
               \/ Pull \/ Sync \/ Prepare \/ WarnReachability \/ StartUnit \/ Probe
               \/ StopUnit \/ Teardown \/ VerifyContainersGone \/ Delete \/ Report

Next == CommandNext \/ Dies \/ Reboot \/ SystemdStarts

Spec == Init /\ [][Next]_vars

-----------------------------------------------------------------------------
(* Every entry of the file names a host port gare can read.                *)
Named(r) == \A e \in EntriesOf(r) : e.form = "mapped" /\ e.published > 0

(* What the services of the deployed file have bound.                      *)
BoundByFile == UNION {stack[s].binds : s \in DOMAIN clone.services \cap Running}

Deployed == pc = "report" /\ op = "deploy" /\ ~lost /\ Named(clone)

(* README.md:121: after a deploy that succeeded, a service of the deployed *)
(* file binds the port config.json has Caddy route to, whatever was pushed *)
(* and whatever port gare.yml changed to.  gare looks neither at the       *)
(* protocol nor at the address: that Caddy can connect there takes a file  *)
(* that publishes the port over TCP, on 127.0.0.1 or everywhere.           *)
RoutedPortBound ==
  Deployed =>
    \E b \in BoundByFile :
      /\ b.port = conf.port
      /\ (\A e \in EntriesOf(clone) : e.published = conf.port => Answers(e)) => Answers(b)

(* README.md:125: a probe gare derived is for a port the service whose     *)
(* healthcheck it came from has bound, for the target that healthcheck     *)
(* asks for, and is answered there if the service publishes that target    *)
(* over TCP and on 127.0.0.1 or everywhere; so that no deploy of such a    *)
(* file fails by a probe of a file it does not run.                        *)
ProbesReach ==
  /\ pc = "probe" /\ ~lost /\ Named(clone)
  /\ clone.gare /\ clone.declared = {}
  => \A h \in conf.probes :
       LET service == clone.services[h.name] IN
       /\ h.name \in DOMAIN clone.services
       /\ \E b \in stack[h.name].binds :
            /\ b.port = h.port /\ b.target = service.check
            /\ (\A i \in DOMAIN service.ports :
                   service.ports[i].target = service.check => Answers(service.ports[i]))
               => Answers(b)

(* CHANGELOG.md:28: a deploy says that the application is reachable only   *)
(* from the host exactly when it has no domain and all its file has bound  *)
(* is on loopback.                                                         *)
LoopbackTold ==
  Deployed => ("loopback" \in warned <=> /\ ~conf.domains
                                         /\ \A b \in BoundByFile : b.host \in Loopback)

(* README.md:126: no stop and no destroy ends well with a container of the *)
(* project still there, by a failure of the provider or because the clone  *)
(* no longer names its service or its file, and says nothing of it; unless *)
(* podman could not be asked.                                              *)
LeftoversReported ==
  pc = "report" /\ op \in {"stop", "destroy"} /\ Present # {}
  => warned \cap {"leftovers", "skipped"} # {} \/ mute
=============================================================================
