------------------------ MODULE ComposeStackProofs -------------------------
(***************************************************************************)
(* Proofs about ComposeStack: its types, the port a deploy routes to, the  *)
(* probes it derives, and its two warnings.  What holds between the steps  *)
(* of a command is one invariant per property; none of them needs a        *)
(* condition on what the containers or systemd do meanwhile, but for a     *)
(* container that dies, which lost records.                                *)
(***************************************************************************)
EXTENDS ComposeStack, TLAPS

(* From its validation on a deploy works with a file that publishes the    *)
(* port, and once the unit is up the services of that file are.            *)
RoutedInv ==
  op = "deploy" =>
    /\ pc # "pull" => clone \in Revisions
    /\ pc \in {"warn", "job", "probe", "report"} =>
         /\ Resolves(clone, conf.file, conf.port)
         /\ unitFile = clone.file
    /\ pc \in {"probe", "report"} /\ ~lost =>
         \A s \in DOMAIN clone.services : stack[s] = Container(s)

(* The probes are those of the file that is deployed.                      *)
ProbesInv ==
  pc \in {"prepare", "warn", "job", "probe"} /\ op = "deploy" /\ clone.gare /\ clone.declared = {}
  => conf.probes = DerivedProbes

(* What was warned of is what the file says.                               *)
WarnedInv ==
  /\ pc = "idle" => warned = {}
  /\ op = "deploy" /\ pc \in {"pull", "sync", "prepare", "warn"} => warned = {}
  /\ op = "deploy" /\ pc \in {"job", "probe", "report"} =>
       ("loopback" \in warned <=> ~conf.domains /\ LoopbackOnly(clone))

(* Once the unit is stopped nothing comes up, and what is there is told.   *)
LeftoversInv ==
  op \in {"stop", "destroy"} =>
    /\ pc \in {"teardown", "verify", "delete", "report"} => unit = "inactive" \/ mute
    /\ pc \in {"delete", "report"} /\ Present # {} =>
         warned \cap {"leftovers", "skipped"} # {} \/ mute

IInv == TypeOK /\ RoutedInv /\ ProbesInv /\ WarnedInv /\ LeftoversInv

-----------------------------------------------------------------------------
(* A service the file declares has a name, and its container a type.       *)
LEMMA DeclaredTypes ==
  ASSUME HostTypeOK, NEW file
  PROVE  /\ Declared(file) \subseteq Services
         /\ \A s \in Declared(file) :
              Container(s) \in Containers
<1>1. ASSUME Declared(file) # {} PROVE clone \in Revisions
  BY <1>1 DEF HostTypeOK, Declared, NoRevision
<1>2. Declared(file) \subseteq Services
  BY <1>1, ComposeAssumption DEF Declared
<1>3. ASSUME NEW s \in Declared(file)
      PROVE  Container(s) \in Containers
  <2>1. clone \in Revisions /\ s \in DOMAIN clone.services
    BY <1>1, <1>3 DEF Declared
  <2> DEFINE ports == clone.services[s].ports
  <2>2. ports \in Seq(Entries)
    BY <2>1, ComposeAssumption
  <2>3. ASSUME NEW i \in DOMAIN ports PROVE Binds(ports[i]) \subseteq Bindings
    <3>1. ports[i] \in Entries
      BY <2>2, <2>3
    <3> HIDE DEF ports
    <3>2. QED
      BY <3>1 DEF Entries, Binds, Bindings
  <2>4. QED
    BY <2>3 DEF Container, Containers
<1>4. QED
  BY <1>2, <1>3

(* What the provider leaves is a stack again.                              *)
LEMMA ProviderTypes ==
  ASSUME HostTypeOK
  PROVE  /\ \A file : Emptied(file) \in [Services -> Containers]
         /\ UnitUp(stack) \/ UnitUp(Emptied(unitFile)) =>
              stack' \in [Services -> Containers]
<1> DEFINE Stacks == [Services -> Containers]
<1>1. stack \in Stacks
  BY DEF HostTypeOK
<1>2. \A file : Emptied(file) \in Stacks
  BY <1>1 DEF Emptied, NoContainer, Containers
<1>3. ASSUME NEW left \in Stacks, UnitUp(left) PROVE stack' \in Stacks
  <2>1. stack' = [s \in Services |-> IF s \in Declared(unitFile) THEN Container(s) ELSE left[s]]
    BY <1>3 DEF UnitUp, Ups
  <2>2. QED
    BY <2>1, DeclaredTypes
<1>4. QED
  BY <1>1, <1>2, <1>3

(* A container that exits keeps its type.                                  *)
LEMMA ExitedTypes ==
  ASSUME HostTypeOK, NEW s \in Services
  PROVE  Exited(s) \in Containers
BY DEF HostTypeOK, Exited, Containers

(* A probe gare derives has the name of a service, and a port.             *)
LEMMA DerivedTypes ==
  ASSUME NEW r \in Revisions
  PROVE  HealthProbes(r) \subseteq [name: Services, port: Nat \ {0}]
<1> SUFFICES ASSUME NEW s \in DOMAIN r.services,
                    NEW port \in ServicePort(r.services[s].ports, r.services[s].check)
             PROVE  s \in Services /\ port \in Nat \ {0}
  BY DEF HealthProbes
<1> DEFINE ports == r.services[s].ports
<1>1. s \in Services /\ ports \in Seq(Entries)
  BY ComposeAssumption
<1>2. PICK i \in DOMAIN ports : /\ PortPair(ports[i]).published > 0
                               /\ port = PortPair(ports[i]).published
  BY DEF ServicePort
<1>3. ports[i] \in Entries
  BY <1>1, <1>2
<1> HIDE DEF ports
<1>4. QED
  BY <1>1, <1>2, <1>3 DEF PortPair, Entries

(* A service that comes up binds what its entries say, and nothing else.   *)
LEMMA ContainerBinds ==
  ASSUME NEW s
  PROVE  /\ Container(s).state = "up"
         /\ \A i \in DOMAIN clone.services[s].ports :
              Binds(clone.services[s].ports[i]) \subseteq Container(s).binds
         /\ \A b \in Container(s).binds :
              \E i \in DOMAIN clone.services[s].ports : b \in Binds(clone.services[s].ports[i])
<1> DEFINE ports == clone.services[s].ports
<1>1. Container(s) = [binds |-> UNION {Binds(ports[i]) : i \in DOMAIN ports}, state |-> "up"]
  BY DEF Container
<1> HIDE DEF ports
<1>2. /\ Container(s).state = "up"
      /\ Container(s).binds = UNION {Binds(ports[i]) : i \in DOMAIN ports}
  BY <1>1
<1>3. ASSUME NEW i \in DOMAIN ports PROVE Binds(ports[i]) \subseteq Container(s).binds
  BY <1>2, Zenon
<1>4. ASSUME NEW b \in Container(s).binds PROVE \E i \in DOMAIN ports : b \in Binds(ports[i])
  BY <1>2, Zenon
<1>5. QED
  BY <1>2, <1>3, <1>4 DEF ports

(* What a revision says of a service is unchanged while the clone is.      *)
LEMMA ContainerStays ==
  ASSUME clone' = clone, NEW s
  PROVE  Container(s)' = Container(s)
BY DEF Container

(* Every entry of every service is one of the file.                        *)
LEMMA EntryOf ==
  ASSUME NEW s \in DOMAIN clone.services, NEW i \in DOMAIN clone.services[s].ports
  PROVE  clone.services[s].ports[i] \in EntriesOf(clone)
<1> DEFINE of(t) == {clone.services[t].ports[j] : j \in DOMAIN clone.services[t].ports}
<1>1. EntriesOf(clone) = UNION {of(t) : t \in DOMAIN clone.services}
  BY DEF EntriesOf
<1>2. clone.services[s].ports[i] \in of(s)
  OBVIOUS
<1> HIDE DEF of
<1>3. QED
  BY <1>1, <1>2

(* Every step keeps the types of the command's state.                      *)
LEMMA CommandTypeStep ==
  ASSUME IInv, [Next]_vars
  PROVE  CommandTypeOK'
<1> USE DEF IInv, TypeOK, CommandTypeOK, unitVars, runVars, commandVars
<1>1. CASE Dies
  BY <1>1 DEF Dies
<1>2. CASE Reboot
  BY <1>2 DEF Reboot, End
<1>3. CASE SystemdStarts
  BY <1>3 DEF SystemdStarts, UnitUp
<1>4. CASE BeginDeploy
  BY <1>4 DEF BeginDeploy, Begin
<1>5. CASE BeginStart
  BY <1>5 DEF BeginStart, Begin
<1>6. CASE BeginRestart
  BY <1>6 DEF BeginRestart, Begin
<1>7. CASE BeginStop
  BY <1>7 DEF BeginStop, Begin
<1>8. CASE BeginDestroy
  BY <1>8 DEF BeginDestroy, Begin
<1>9. CASE Create
  BY <1>9 DEF Create
<1>10. CASE EditDomains
  BY <1>10 DEF EditDomains
<1>11. CASE Pull
  BY <1>11 DEF Pull, At, Goto
<1>12. CASE Sync
  BY <1>12 DEF Sync, At, Goto, End
<1>13. CASE Prepare
  BY <1>13 DEF Prepare, At, Goto, End
<1>14. CASE WarnReachability
  BY <1>14 DEF WarnReachability, At, Goto
<1>15. CASE StartUnit
  BY <1>15 DEF StartUnit, At, Goto, End, UnitUp, UnitFails
<1>16. CASE Probe
  BY <1>16 DEF Probe, At, Goto, End
<1>17. CASE StopUnit
  BY <1>17 DEF StopUnit, At, Goto, End, UnitDown
<1>18. CASE Teardown
  BY <1>18 DEF Teardown, At, Goto
<1>19. CASE VerifyContainersGone
  BY <1>19 DEF VerifyContainersGone, At, Goto
<1>20. CASE Delete
  BY <1>20 DEF Delete, At, Goto
<1>21. CASE Report
  BY <1>21 DEF Report, At, End
<1>22. CASE UNCHANGED vars
  BY <1>22 DEF vars
<1>23. QED
  BY <1>1, <1>2, <1>3, <1>4, <1>5, <1>6, <1>7, <1>8, <1>9, <1>10, <1>11,
     <1>12, <1>13, <1>14, <1>15, <1>16, <1>17, <1>18, <1>19, <1>20, <1>21, <1>22
  DEF Next, CommandNext

(* Every step keeps the types of the host's state.                         *)
LEMMA HostTypeStep ==
  ASSUME IInv, [Next]_vars
  PROVE  HostTypeOK'
<1> USE ComposeAssumption DEF IInv, TypeOK, HostTypeOK, unitVars, runVars, commandVars
<1>1. CASE Dies
  BY <1>1, ExitedTypes DEF Dies, Running
<1>2. CASE Reboot
  BY <1>2, ExitedTypes DEF Reboot, Running
<1>3. CASE SystemdStarts
  BY <1>3, ProviderTypes DEF SystemdStarts, UnitUp
<1>4. CASE BeginDeploy
  BY <1>4 DEF BeginDeploy, Begin
<1>5. CASE BeginStart
  BY <1>5 DEF BeginStart, Begin
<1>6. CASE BeginRestart
  BY <1>6 DEF BeginRestart, Begin
<1>7. CASE BeginStop
  BY <1>7 DEF BeginStop, Begin
<1>8. CASE BeginDestroy
  BY <1>8 DEF BeginDestroy, Begin
<1>9. CASE Create
  <2>1. PICK r \in Revisions, flag \in Flags :
          LET port == IF flag = 0 /\ r.gare THEN r.port ELSE flag
          IN  /\ clone' = r /\ unitFile' = r.file
              /\ conf' = [port |-> port, file |-> r.file, domains |-> FALSE,
                          probes |-> IF r.gare THEN r.declared ELSE {}]
              /\ UNCHANGED <<enabled, runVars, commandVars>>
    BY <1>9 DEF Create
  <2>2. QED
    BY <2>1
<1>10. CASE EditDomains
  BY <1>10 DEF EditDomains
<1>11. CASE Pull
  BY <1>11 DEF Pull, At, Goto
<1>12. CASE Sync
  <2>1. clone \in Revisions
    BY <1>12 DEF Sync, At, RoutedInv, CommandTypeOK
  <2>2. SyncedProbes \subseteq [name: Services, port: Nat \ {0}]
    BY <2>1, DerivedTypes DEF SyncedProbes, DerivedProbes
  <2>3. clone.port \in Nat
    BY <2>1
  <2>4. conf' \in [port: Nat, file: Files \cup {"none"}, domains: BOOLEAN,
                  probes: SUBSET [name: Services, port: Nat \ {0}]]
    BY <1>12, <2>2, <2>3 DEF Sync
  <2>5. QED
    BY <1>12, <2>4 DEF Sync
<1>13. CASE Prepare
  <2>1. unitFile' \in Files \cup {"none"}
    BY <1>13 DEF Prepare, LocateFile, NoRevision
  <2>2. QED
    BY <1>13, <2>1 DEF Prepare
<1>14. CASE WarnReachability
  BY <1>14 DEF WarnReachability, At, Goto
<1>15. CASE StartUnit
  <2>1. stack' \in [Services -> Containers]
    BY <1>15, ProviderTypes DEF StartUnit, UnitFails
  <2>2. unit' \in {"inactive", "starting", "active"} /\ lost' \in BOOLEAN /\ enabled' \in BOOLEAN
    BY <1>15 DEF StartUnit, UnitUp, UnitFails
  <2>3. QED
    BY <1>15, <2>1, <2>2 DEF StartUnit
<1>16. CASE Probe
  BY <1>16 DEF Probe, At, Goto, End
<1>17. CASE StopUnit
  <2>1. stack' \in [Services -> Containers]
    BY <1>17, ProviderTypes DEF StopUnit, UnitDown
  <2>2. unit' \in {"inactive", "starting", "active"} /\ lost' \in BOOLEAN /\ enabled' \in BOOLEAN
    BY <1>17 DEF StopUnit, UnitDown
  <2>3. QED
    BY <1>17, <2>1, <2>2 DEF StopUnit
<1>18. CASE Teardown
  <2>1. stack' \in [Services -> Containers]
    BY <1>18, ProviderTypes DEF Teardown
  <2>2. QED
    BY <1>18, <2>1 DEF Teardown
<1>19. CASE VerifyContainersGone
  BY <1>19 DEF VerifyContainersGone, At, Goto
<1>20. CASE Delete
  BY <1>20 DEF Delete, NoConf
<1>21. CASE Report
  BY <1>21 DEF Report, At, End
<1>22. CASE UNCHANGED vars
  BY <1>22 DEF vars
<1>23. QED
  BY <1>1, <1>2, <1>3, <1>4, <1>5, <1>6, <1>7, <1>8, <1>9, <1>10, <1>11,
     <1>12, <1>13, <1>14, <1>15, <1>16, <1>17, <1>18, <1>19, <1>20, <1>21, <1>22
  DEF Next, CommandNext

(* Every step keeps RoutedInv; the start of the unit establishes the last  *)
(* part of it.                                                             *)
LEMMA RoutedStep ==
  ASSUME IInv, [Next]_vars
  PROVE  RoutedInv'
<1> USE DEF IInv, TypeOK, CommandTypeOK, RoutedInv, Resolves, unitVars, runVars, commandVars
<1>1. CASE Dies
  BY <1>1 DEF Dies
<1>2. CASE Reboot
  BY <1>2 DEF Reboot, End
<1>3. CASE SystemdStarts
  <2>1. stack' = [s \in Services |-> IF s \in Declared(unitFile) THEN Container(s) ELSE stack[s]]
    BY <1>3 DEF SystemdStarts, UnitUp, Ups
  <2>2. UNCHANGED <<clone, conf, unitFile, pc, op>>
    BY <1>3 DEF SystemdStarts
  <2>3. ASSUME op = "deploy", pc \in {"probe", "report"}, NEW s \in DOMAIN clone.services
        PROVE  stack'[s] = Container(s)
    <3>1. clone \in Revisions /\ unitFile = clone.file /\ clone.file # "none"
      BY <2>3 DEF LocateFile
    <3>2. s \in Services /\ s \in Declared(unitFile)
      BY <3>1, ComposeAssumption DEF Declared
    <3>3. QED
      BY <2>1, <3>2
  <2>4. QED
    BY <2>2, <2>3, ContainerStays
<1>4. CASE BeginDeploy
  BY <1>4 DEF BeginDeploy, Begin
<1>5. CASE BeginStart
  BY <1>5 DEF BeginStart, Begin
<1>6. CASE BeginRestart
  BY <1>6 DEF BeginRestart, Begin
<1>7. CASE BeginStop
  BY <1>7 DEF BeginStop, Begin
<1>8. CASE BeginDestroy
  BY <1>8 DEF BeginDestroy, Begin
<1>9. CASE Create
  BY <1>9 DEF Create
<1>10. CASE EditDomains
  BY <1>10 DEF EditDomains
<1>11. CASE Pull
  BY <1>11 DEF Pull, At, Goto
<1>12. CASE Sync
  BY <1>12 DEF Sync, At, Goto, End
<1>13. CASE Prepare
  BY <1>13 DEF Prepare, At, Goto, End, LocateFile
<1>14. CASE WarnReachability
  BY <1>14 DEF WarnReachability, At, Goto
<1>15. CASE StartUnit
  <2>1. CASE op = "deploy" /\ pc' = "probe"
    <3>1. clone \in Revisions /\ unitFile = clone.file /\ clone.file # "none"
      BY <1>15, <2>1 DEF StartUnit, At, LocateFile
    <3>2. DOMAIN clone.services \subseteq Services /\ DOMAIN clone.services = Declared(unitFile)
      BY <3>1, ComposeAssumption DEF Declared
    <3>3. UNCHANGED <<clone, conf, unitFile>>
      BY <1>15 DEF StartUnit
    <3>4. PICK left : UnitUp(left)
      BY <1>15, <2>1 DEF StartUnit, End
    <3>5. stack' = [s \in Services |-> IF s \in Declared(unitFile) THEN Container(s) ELSE left[s]]
      BY <3>4 DEF UnitUp, Ups
    <3>6. \A s \in DOMAIN clone.services : stack'[s] = Container(s)
      BY <3>2, <3>5
    <3>7. QED
      BY <1>15, <2>1, <3>3, <3>6, ContainerStays DEF StartUnit, At
  <2>2. CASE ~(op = "deploy" /\ pc' = "probe")
    BY <1>15, <2>2 DEF StartUnit, At, Goto, End
  <2>3. QED
    BY <2>1, <2>2
<1>16. CASE Probe
  BY <1>16, ContainerStays DEF Probe, At, Goto, End
<1>17. CASE StopUnit
  BY <1>17 DEF StopUnit, At, Goto, End, UnitDown
<1>18. CASE Teardown
  BY <1>18 DEF Teardown, At, Goto
<1>19. CASE VerifyContainersGone
  BY <1>19 DEF VerifyContainersGone, At, Goto
<1>20. CASE Delete
  BY <1>20 DEF Delete, At, Goto
<1>21. CASE Report
  BY <1>21 DEF Report, At, End
<1>22. CASE UNCHANGED vars
  BY <1>22, ContainerStays DEF vars
<1>23. QED
  BY <1>1, <1>2, <1>3, <1>4, <1>5, <1>6, <1>7, <1>8, <1>9, <1>10, <1>11,
     <1>12, <1>13, <1>14, <1>15, <1>16, <1>17, <1>18, <1>19, <1>20, <1>21, <1>22
  DEF Next, CommandNext

(* Every step keeps ProbesInv: they are derived from the clone that stays. *)
LEMMA ProbesStep ==
  ASSUME IInv, [Next]_vars
  PROVE  ProbesInv'
<1> USE DEF IInv, TypeOK, CommandTypeOK, ProbesInv, unitVars, runVars, commandVars
<1>1. CASE Dies
  BY <1>1 DEF Dies, DerivedProbes
<1>2. CASE Reboot
  BY <1>2 DEF Reboot, End, DerivedProbes
<1>3. CASE SystemdStarts
  BY <1>3 DEF SystemdStarts, UnitUp, DerivedProbes
<1>4. CASE BeginDeploy
  BY <1>4 DEF BeginDeploy, Begin, DerivedProbes
<1>5. CASE BeginStart
  BY <1>5 DEF BeginStart, Begin, DerivedProbes
<1>6. CASE BeginRestart
  BY <1>6 DEF BeginRestart, Begin, DerivedProbes
<1>7. CASE BeginStop
  BY <1>7 DEF BeginStop, Begin, DerivedProbes
<1>8. CASE BeginDestroy
  BY <1>8 DEF BeginDestroy, Begin, DerivedProbes
<1>9. CASE Create
  BY <1>9 DEF Create, DerivedProbes
<1>10. CASE EditDomains
  BY <1>10 DEF EditDomains, DerivedProbes
<1>11. CASE Pull
  BY <1>11 DEF Pull, At, Goto, DerivedProbes
<1>12. CASE Sync
  <2>1. clone.gare /\ clone.declared = {} => SyncedProbes = DerivedProbes
    BY DEF SyncedProbes
  <2>2. UNCHANGED clone /\ conf'.file = conf.file
    BY <1>12 DEF Sync, HostTypeOK
  <2>3. DerivedProbes' = DerivedProbes
    BY <2>2 DEF DerivedProbes
  <2>4. pc' # "idle" => (conf' = conf /\ ~clone.gare) \/ conf'.probes = SyncedProbes
    BY <1>12 DEF Sync, End, HostTypeOK
  <2>5. QED
    BY <1>12, <2>1, <2>2, <2>3, <2>4 DEF Sync
<1>13. CASE Prepare
  BY <1>13 DEF Prepare, At, Goto, End, DerivedProbes
<1>14. CASE WarnReachability
  BY <1>14 DEF WarnReachability, At, Goto, DerivedProbes
<1>15. CASE StartUnit
  BY <1>15 DEF StartUnit, At, Goto, End, UnitUp, UnitFails, DerivedProbes
<1>16. CASE Probe
  BY <1>16 DEF Probe, At, Goto, End, DerivedProbes
<1>17. CASE StopUnit
  BY <1>17 DEF StopUnit, At, Goto, End, UnitDown, DerivedProbes
<1>18. CASE Teardown
  BY <1>18 DEF Teardown, At, Goto, DerivedProbes
<1>19. CASE VerifyContainersGone
  BY <1>19 DEF VerifyContainersGone, At, Goto, DerivedProbes
<1>20. CASE Delete
  BY <1>20 DEF Delete, At, Goto, DerivedProbes
<1>21. CASE Report
  BY <1>21 DEF Report, At, End, DerivedProbes
<1>22. CASE UNCHANGED vars
  BY <1>22 DEF vars, DerivedProbes
<1>23. QED
  BY <1>1, <1>2, <1>3, <1>4, <1>5, <1>6, <1>7, <1>8, <1>9, <1>10, <1>11,
     <1>12, <1>13, <1>14, <1>15, <1>16, <1>17, <1>18, <1>19, <1>20, <1>21, <1>22
  DEF Next, CommandNext

(* Every step keeps WarnedInv.                                             *)
LEMMA WarnedStep ==
  ASSUME IInv, [Next]_vars
  PROVE  WarnedInv'
<1> USE DEF IInv, TypeOK, CommandTypeOK, WarnedInv, unitVars, runVars, commandVars
<1>1. CASE Dies
  BY <1>1 DEF Dies
<1>2. CASE Reboot
  BY <1>2 DEF Reboot, End
<1>3. CASE SystemdStarts
  BY <1>3 DEF SystemdStarts, UnitUp
<1>4. CASE BeginDeploy
  BY <1>4 DEF BeginDeploy, Begin
<1>5. CASE BeginStart
  BY <1>5 DEF BeginStart, Begin
<1>6. CASE BeginRestart
  BY <1>6 DEF BeginRestart, Begin
<1>7. CASE BeginStop
  BY <1>7 DEF BeginStop, Begin
<1>8. CASE BeginDestroy
  BY <1>8 DEF BeginDestroy, Begin
<1>9. CASE Create
  BY <1>9 DEF Create
<1>10. CASE EditDomains
  BY <1>10 DEF EditDomains
<1>11. CASE Pull
  BY <1>11 DEF Pull, At, Goto
<1>12. CASE Sync
  BY <1>12 DEF Sync, At, Goto, End
<1>13. CASE Prepare
  BY <1>13 DEF Prepare, At, Goto, End
<1>14. CASE WarnReachability
  <2>1. op = "deploy" => LocateFile(clone, conf.file) # "none"
    BY <1>14 DEF WarnReachability, At, RoutedInv, Resolves
  <2>2. QED
    BY <1>14, <2>1 DEF WarnReachability, At, Goto
<1>15. CASE StartUnit
  BY <1>15 DEF StartUnit, At, Goto, End, UnitUp, UnitFails
<1>16. CASE Probe
  BY <1>16 DEF Probe, At, Goto, End
<1>17. CASE StopUnit
  BY <1>17 DEF StopUnit, At, Goto, End
<1>18. CASE Teardown
  BY <1>18 DEF Teardown, At, Goto
<1>19. CASE VerifyContainersGone
  BY <1>19 DEF VerifyContainersGone, At, Goto
<1>20. CASE Delete
  BY <1>20 DEF Delete, At, Goto
<1>21. CASE Report
  BY <1>21 DEF Report, At, End
<1>22. CASE UNCHANGED vars
  BY <1>22 DEF vars
<1>23. QED
  BY <1>1, <1>2, <1>3, <1>4, <1>5, <1>6, <1>7, <1>8, <1>9, <1>10, <1>11,
     <1>12, <1>13, <1>14, <1>15, <1>16, <1>17, <1>18, <1>19, <1>20, <1>21, <1>22
  DEF Next, CommandNext

(* Every step keeps LeftoversInv.                                          *)
LEMMA LeftoversStep ==
  ASSUME IInv, [Next]_vars
  PROVE  LeftoversInv'
<1> USE DEF IInv, TypeOK, CommandTypeOK, LeftoversInv, Present, unitVars, runVars, commandVars
<1>1. CASE Dies
  <2>1. PICK s \in Running : stack' = [stack EXCEPT ![s] = Exited(s)]
    BY <1>1 DEF Dies
  <2>2. s \in Present
    BY <2>1 DEF Running
  <2>3. QED
    BY <1>1, <2>2 DEF Dies
<1>2. CASE Reboot
  BY <1>2 DEF Reboot, End
<1>3. CASE SystemdStarts
  BY <1>3 DEF SystemdStarts, UnitUp
<1>4. CASE BeginDeploy
  BY <1>4 DEF BeginDeploy, Begin
<1>5. CASE BeginStart
  BY <1>5 DEF BeginStart, Begin
<1>6. CASE BeginRestart
  BY <1>6 DEF BeginRestart, Begin
<1>7. CASE BeginStop
  BY <1>7 DEF BeginStop, Begin
<1>8. CASE BeginDestroy
  BY <1>8 DEF BeginDestroy, Begin
<1>9. CASE Create
  BY <1>9 DEF Create
<1>10. CASE EditDomains
  BY <1>10 DEF EditDomains
<1>11. CASE Pull
  BY <1>11 DEF Pull, At, Goto
<1>12. CASE Sync
  BY <1>12 DEF Sync, At, Goto, End
<1>13. CASE Prepare
  BY <1>13 DEF Prepare, At, Goto, End
<1>14. CASE WarnReachability
  BY <1>14 DEF WarnReachability, At, Goto
<1>15. CASE StartUnit
  BY <1>15 DEF StartUnit, At, Goto, End, UnitUp, UnitFails
<1>16. CASE Probe
  BY <1>16 DEF Probe, At, Goto, End
<1>17. CASE StopUnit
  BY <1>17 DEF StopUnit, At, Goto, End, UnitDown
<1>18. CASE Teardown
  BY <1>18 DEF Teardown, At, Goto
<1>19. CASE VerifyContainersGone
  BY <1>19 DEF VerifyContainersGone, At, Goto
<1>20. CASE Delete
  BY <1>20 DEF Delete, At, Goto
<1>21. CASE Report
  BY <1>21 DEF Report, At, End
<1>22. CASE UNCHANGED vars
  BY <1>22 DEF vars
<1>23. QED
  BY <1>1, <1>2, <1>3, <1>4, <1>5, <1>6, <1>7, <1>8, <1>9, <1>10, <1>11,
     <1>12, <1>13, <1>14, <1>15, <1>16, <1>17, <1>18, <1>19, <1>20, <1>21, <1>22
  DEF Next, CommandNext

-----------------------------------------------------------------------------
(* In the first state there is nothing yet.                                *)
LEMMA InitIInv ==
  ASSUME Init
  PROVE  IInv
<1> USE ComposeAssumption DEF Init
<1>1. HostTypeOK
  BY DEF HostTypeOK, NoConf, NoContainer, Containers
<1>2. CommandTypeOK
  BY DEF CommandTypeOK
<1>3. QED
  BY <1>1, <1>2 DEF IInv, TypeOK, RoutedInv, ProbesInv, WarnedInv, LeftoversInv

(* IInv is inductive, and so holds in every reachable state.               *)
LEMMA Invariance == Spec => []IInv
<1>1. IInv /\ [Next]_vars => IInv'
  BY HostTypeStep, CommandTypeStep, RoutedStep, ProbesStep, WarnedStep, LeftoversStep
  DEF IInv, TypeOK
<1>2. QED
  BY InitIInv, <1>1, PTL DEF Spec

(* The types of the state.                                                 *)
THEOREM TypeCorrect == Spec => []TypeOK
<1>1. IInv => TypeOK
  BY DEF IInv
<1>2. QED
  BY Invariance, <1>1, PTL

(* README.md:121: whatever files, ports and failures, a deploy that        *)
(* succeeded routes to a port a service of the deployed file binds, and    *)
(* that Caddy can connect to if the file publishes it for that.            *)
THEOREM RoutedHolds == Spec => []RoutedPortBound
<1>1. IInv => RoutedPortBound
  <2> SUFFICES ASSUME IInv, Deployed
               PROVE  \E b \in BoundByFile :
                        /\ b.port = conf.port
                        /\ (\A e \in EntriesOf(clone) : e.published = conf.port => Answers(e))
                           => Answers(b)
    BY DEF RoutedPortBound
  <2>1. /\ clone \in Revisions
        /\ conf.port > 0 /\ conf.port \in PublishedPorts(clone)
        /\ \A s \in DOMAIN clone.services : stack[s] = Container(s)
    BY DEF IInv, RoutedInv, Deployed, Resolves, ValidatePort
  <2>2. PICK e \in EntriesOf(clone) : PortPair(e).published = conf.port
    BY <2>1 DEF PublishedPorts
  <2>3. PICK s \in DOMAIN clone.services :
          \E i \in DOMAIN clone.services[s].ports : e = clone.services[s].ports[i]
    BY <2>2 DEF EntriesOf
  <2>4. PICK i \in DOMAIN clone.services[s].ports : e = clone.services[s].ports[i]
    BY <2>3
  <2>5. e \in Entries /\ s \in Services
    <3>1. clone.services[s].ports \in Seq(Entries) /\ s \in Services
      BY <2>1, ComposeAssumption
    <3> DEFINE ports == clone.services[s].ports
    <3>2. i \in DOMAIN ports /\ ports \in Seq(Entries)
      BY <2>4, <3>1
    <3> HIDE DEF ports
    <3>3. ports[i] \in Entries
      BY <3>2
    <3>4. QED
      BY <2>3, <2>4, <3>1, <3>3 DEF ports
  <2>6. e.form = "mapped" /\ e.published = conf.port
    BY <2>2 DEF Deployed, Named, PortPair
  <2>7. PICK b \in Binds(e) : b.port = conf.port /\ b.host = e.host /\ b.protocol = e.protocol
    <3>1. [host |-> e.host, protocol |-> e.protocol, port |-> e.published + 0,
           target |-> e.target + 0] \in Binds(e)
      BY <2>1, <2>5, <2>6 DEF Binds, Entries
    <3>2. QED
      BY <2>5, <2>6, <3>1 DEF Entries
  <2>8. b \in stack[s].binds /\ stack[s].state = "up"
    BY <2>1, <2>3, <2>4, <2>7, ContainerBinds
  <2>9. stack[s].binds \subseteq BoundByFile
    BY <2>3, <2>5, <2>8 DEF BoundByFile, Running
  <2>10. QED
    BY <2>2, <2>6, <2>7, <2>8, <2>9 DEF Answers
<1>2. QED
  BY Invariance, <1>1, PTL

(* README.md:125: every derived probe is for a port the service it came    *)
(* from has bound for the target its healthcheck asks for, and reaches it  *)
(* if the file publishes that target over TCP where 127.0.0.1 is.          *)
THEOREM ProbesHold == Spec => []ProbesReach
<1>1. IInv => ProbesReach
  <2> SUFFICES ASSUME IInv, pc = "probe", ~lost, Named(clone), clone.gare, clone.declared = {},
                      NEW h \in conf.probes
               PROVE  /\ h.name \in DOMAIN clone.services
                      /\ \E b \in stack[h.name].binds :
                           /\ b.port = h.port
                           /\ b.target = clone.services[h.name].check
                           /\ (\A i \in DOMAIN clone.services[h.name].ports :
                                  clone.services[h.name].ports[i].target
                                    = clone.services[h.name].check
                                  => Answers(clone.services[h.name].ports[i]))
                              => Answers(b)
    BY DEF ProbesReach
  <2>1. /\ clone \in Revisions
        /\ h \in HealthProbes(clone)
        /\ \A s \in DOMAIN clone.services : stack[s] = Container(s)
    BY DEF IInv, TypeOK, CommandTypeOK, RoutedInv, ProbesInv, DerivedProbes
  <2>2. PICK s \in DOMAIN clone.services :
          /\ h.name = s
          /\ h.port \in ServicePort(clone.services[s].ports, clone.services[s].check)
    BY <2>1 DEF HealthProbes
  <2> DEFINE ports == clone.services[s].ports
  <2>3. PICK i \in DOMAIN ports : /\ PortPair(ports[i]).target = clone.services[s].check
                                 /\ PortPair(ports[i]).published > 0
                                 /\ h.port = PortPair(ports[i]).published
    BY <2>2 DEF ServicePort
  <2>4. ports \in Seq(Entries)
    BY <2>1, <2>2, ComposeAssumption
  <2>5. ports[i] \in EntriesOf(clone)
    BY <2>2, <2>3 DEF EntriesOf
  <2>6. ports[i].form = "mapped"
    BY <2>5 DEF Named
  <2>7. Binds(ports[i]) \subseteq stack[s].binds
    BY <2>1, <2>2, <2>3, ContainerBinds
  <2> HIDE DEF ports
  <2>8. ports[i] \in Entries
    BY <2>3, <2>4
  <2>9. PICK b \in Binds(ports[i]) :
          /\ b.port = ports[i].published /\ b.target = ports[i].target
          /\ b.host = ports[i].host /\ b.protocol = ports[i].protocol
    <3>1. [host |-> ports[i].host, protocol |-> ports[i].protocol,
           port |-> ports[i].published + 0,
           target |-> ports[i].target + 0] \in Binds(ports[i])
      BY <2>3, <2>6, <2>8 DEF Binds, Entries, PortPair
    <3>2. QED
      BY <2>8, <3>1 DEF Entries
  <2>10. Answers(ports[i]) => Answers(b)
    BY <2>9 DEF Answers
  <2>11. /\ b \in stack[s].binds /\ b.port = h.port
         /\ b.target = clone.services[s].check /\ ports[i].target = clone.services[s].check
    BY <2>3, <2>6, <2>7, <2>9 DEF PortPair
  <2>12. QED
    BY <2>2, <2>3, <2>10, <2>11 DEF ports
<1>2. QED
  BY Invariance, <1>1, PTL

(* CHANGELOG.md:28: the warning that a stack is reachable from the host    *)
(* only is given exactly when it is so.                                    *)
THEOREM LoopbackHolds == Spec => []LoopbackTold
<1>1. IInv => LoopbackTold
  <2> SUFFICES ASSUME IInv, Deployed
               PROVE  LoopbackOnly(clone) <=> \A b \in BoundByFile : b.host \in Loopback
    BY DEF LoopbackTold, IInv, WarnedInv, Deployed
  <2>1. /\ clone \in Revisions
        /\ conf.port > 0 /\ conf.port \in PublishedPorts(clone)
        /\ \A s \in DOMAIN clone.services : stack[s] = Container(s)
    BY DEF IInv, RoutedInv, Deployed, Resolves, ValidatePort
  <2>2. DOMAIN clone.services \subseteq Services
    BY <2>1, ComposeAssumption
  <2>3. EntriesOf(clone) # {} /\ EntriesOf(clone) \subseteq Entries
    <3>1. ASSUME NEW s \in DOMAIN clone.services, NEW i \in DOMAIN clone.services[s].ports
          PROVE  clone.services[s].ports[i] \in Entries
      <4> DEFINE ports == clone.services[s].ports
      <4>1. i \in DOMAIN ports /\ ports \in Seq(Entries)
        BY <2>1, <3>1, ComposeAssumption
      <4> HIDE DEF ports
      <4>2. ports[i] \in Entries
        BY <4>1
      <4>3. QED
        BY <4>2 DEF ports
    <3>2. EntriesOf(clone) # {}
      BY <2>1 DEF PublishedPorts
    <3>3. ASSUME NEW e \in EntriesOf(clone) PROVE e \in Entries
      <4>1. PICK s \in DOMAIN clone.services :
              \E i \in DOMAIN clone.services[s].ports : e = clone.services[s].ports[i]
        BY DEF EntriesOf
      <4>2. QED
        BY <3>1, <4>1
    <3>4. QED
      BY <3>2, <3>3
  <2>4. ASSUME NEW e \in EntriesOf(clone)
        PROVE  /\ e \in Entries /\ e.form = "mapped"
               /\ PortPair(e).published > 0
               /\ LoopbackEntry(e) <=> e.host \in Loopback
    BY <2>3, <2>4 DEF Deployed, Named, PortPair, LoopbackEntry
  <2>5. LoopbackOnly(clone) <=> \A e \in EntriesOf(clone) : e.host \in Loopback
    BY <2>3, <2>4 DEF LoopbackOnly
  <2>6. /\ \A b \in BoundByFile : \E e \in EntriesOf(clone) : b \in Binds(e)
        /\ \A e \in EntriesOf(clone) : Binds(e) \subseteq BoundByFile
    <3>1. ASSUME NEW s \in DOMAIN clone.services
          PROVE  s \in Running /\ stack[s].binds = Container(s).binds
      BY <2>1, <2>2, ContainerBinds DEF Running
    <3>2. BoundByFile = UNION {Container(s).binds : s \in DOMAIN clone.services}
      BY <3>1 DEF BoundByFile
    <3>3. ASSUME NEW b \in BoundByFile PROVE \E e \in EntriesOf(clone) : b \in Binds(e)
      <4>1. PICK s \in DOMAIN clone.services : b \in Container(s).binds
        BY <3>2
      <4>2. PICK i \in DOMAIN clone.services[s].ports : b \in Binds(clone.services[s].ports[i])
        BY <4>1, ContainerBinds
      <4>3. clone.services[s].ports[i] \in EntriesOf(clone)
        BY EntryOf
      <4>4. QED
        BY <4>2, <4>3
    <3>4. ASSUME NEW e \in EntriesOf(clone) PROVE Binds(e) \subseteq BoundByFile
      <4>1. PICK s \in DOMAIN clone.services :
              \E i \in DOMAIN clone.services[s].ports : e = clone.services[s].ports[i]
        BY DEF EntriesOf
      <4>2. Binds(e) \subseteq Container(s).binds
        BY <4>1, ContainerBinds
      <4>3. QED
        BY <3>2, <4>2
    <3>5. QED
      BY <3>3, <3>4
  <2>7. ASSUME NEW e \in EntriesOf(clone)
        PROVE  Binds(e) # {} /\ \A b \in Binds(e) : b.host = e.host
    <3>1. [host |-> e.host, protocol |-> e.protocol, port |-> e.published + 0,
           target |-> e.target + 0] \in Binds(e)
      BY <2>4 DEF Binds, Entries, PortPair
    <3>2. QED
      BY <3>1 DEF Binds
  <2>8. QED
    BY <2>5, <2>6, <2>7
<1>2. QED
  BY Invariance, <1>1, PTL

(* README.md:126: no container of the stack is left behind in silence.     *)
THEOREM LeftoversHold == Spec => []LeftoversReported
<1>1. IInv => LeftoversReported
  BY DEF IInv, LeftoversInv, LeftoversReported
<1>2. QED
  BY Invariance, <1>1, PTL
=============================================================================
