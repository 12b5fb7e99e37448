---------------------------- MODULE AppEnvProofs ----------------------------
(***************************************************************************)
(* One command at a time and a repository whose manifests have a           *)
(* container: whatever deploys, changes of workload type, failing steps    *)
(* and writes and kills happen, variables set or unset stay so and the     *)
(* active workload runs with them, but for the deploys and commands that   *)
(* Forget and missed name, for any number of variables, values and         *)
(* manifests and whatever the env file's parser makes of a value.          *)
(***************************************************************************)
EXTENDS AppEnv, TLAPS

(* The circumstances the guarantee needs; the model checker shows that it  *)
(* fails without each of them.                                             *)
Alone == /\ \A p, q \in Procs : p = q
         /\ Broken \notin Shipped /\ Open = {} /\ "respawn" \notin Events

(* What of the repository's manifest has to be in an environment.          *)
Declares(env, p) ==
  \A k \in Keys : LET shipped == GetEnv(clone)[k] IN
    shipped # None => env[k] \in {shipped, kept[p][k]} \ {None}

(* What a process holds in memory agrees with the files it came from.      *)
MemoryInv ==
  \A p \in Procs :
    /\ pc[p] \in {"adopt", "restoreRead", "restore", "ports"} => mine[p] = "container"
    /\ pc[p] = "adopt" => doc[p] = clone /\ clone \in Envs
    /\ pc[p] \in {"restoreRead", "restore"} =>
         /\ store["manifest"] = clone /\ clone \in Envs
         /\ \A k \in Keys : wanted["manifest"][k] = Gone => clone[k] = None
    /\ pc[p] \in {"restore", "ports", "pinWrite"} =>
         doc[p] = store["manifest"] /\ doc[p] \in Envs
    /\ pc[p] = "ports" => clone = NoFile
    /\ pc[p] \in {"adopt", "restoreRead", "restore"} => Honours("manifest", kept[p])
    /\ pc[p] = "envWrite" =>
         Readable(StoreOf(mine[p])) /\ doc[p] = ReadStore(StoreOf(mine[p]))
    /\ pc[p] = "activate" => unitFile = mine[p]
    /\ pc[p] \in {"pin", "pinWrite", "unit", "activate"} /\ mine[p] = "container" =>
         Declares(GetEnv(store["manifest"]), p)

(* A store honours the operator except while its manifest was replaced and *)
(* the environment was not put back.                                       *)
StoreInv ==
  /\ store["manifest"] # Broken
  /\ \A s \in Stores :
       \/ Honours(s, GetEnv(store[s]))
       \/ s = "manifest" /\ \E p \in Procs : pc[p] \in {"restoreRead", "restore"}

(* The workload reads the store of the loaded definition, and honours the  *)
(* operator except between the write of a change and the restart that      *)
(* follows.                                                                *)
RunningInv ==
  running # Down =>
    /\ running.store = StoreOf(loaded)
    /\ \/ Honours(running.store, running.env)
       \/ missed
       \/ \E p \in Procs : pc[p] \in {"envCheck", "bounce"}

(* A start in progress is one a command waits for, or waited for.          *)
StartInv == status = "activating" => missed \/ \E p \in Procs : pc[p] \in {"verify", "await"}

IInv == TypeOK /\ MemoryInv /\ StoreInv /\ RunningInv /\ StartInv /\ ShippedRuns
-----------------------------------------------------------------------------
(* What a process reads from a store it can edit is an environment.        *)
LEMMA ReadType ==
  ASSUME AppEnvAssumption, TypeOK, NEW s \in Stores, Readable(s)
  PROVE  ReadStore(s) \in Envs
BY
  DEF AppEnvAssumption, TypeOK, Readable, ReadStore, Parse, GetEnv, Envs, Empty,
     Stores

(* What an edit of the env file leaves of a value is left of what it was.  *)
LEMMA LeftClosed ==
  ASSUME AppEnvAssumption, NEW v \in Values
  PROVE  v \in Left[v] /\ \A w \in Left[v] : w \in Values /\ Clean[w] \in Left[v]
<1> DEFINE Closed(S) == v \in S /\ \A x \in S : Clean[x] \in S
<1>1. Left[v] = {w \in Values : \A S \in SUBSET Values : Closed(S) => w \in S}
  BY DEF Left
<1>2. v \in Left[v]
  BY <1>1
<1>3. ASSUME NEW w \in Left[v] PROVE w \in Values /\ Clean[w] \in Left[v]
  <2>1. w \in Values /\ Clean[w] \in Values
    BY <1>1, <1>3 DEF AppEnvAssumption
  <2>2. ASSUME NEW S \in SUBSET Values, Closed(S) PROVE Clean[w] \in S
    BY <1>1, <1>3, <2>2
  <2> QED
    BY <1>1, <2>1, <2>2
<1> QED
  BY <1>2, <1>3

(* After a deploy that lost the variables the store has what is still      *)
(* wanted of it, and nothing else is claimed.                              *)
LEMMA ForgetHonours ==
  ASSUME AppEnvAssumption, TypeOK, NEW content, Forget(content)
  PROVE  /\ wanted' \in [Stores -> Changes]
         /\ \A k \in Keys : Heeds("manifest", wanted'["manifest"][k], GetEnv(content)[k])
         /\ \A s \in Stores, env \in Envs : Honours(s, env) => Honours(s, env)'
         /\ wanted'["file"] = wanted["file"]
         /\ \A k \in Keys : wanted'["manifest"][k] \in {wanted["manifest"][k], None}
<1> DEFINE left == [k \in Keys |-> IF Heeds("manifest", wanted["manifest"][k], GetEnv(content)[k])
                                   THEN wanted["manifest"][k] ELSE None]
<1>1. wanted' = [wanted EXCEPT !["manifest"] = left]
  BY DEF Forget
<1>2. \A s \in Stores : wanted[s] \in Changes /\ wanted \in [Stores -> Changes]
  BY DEF TypeOK
<1>3. left \in Changes
  BY <1>2 DEF Changes, Stores
<1>4. \A k \in Keys : left[k] \in {wanted["manifest"][k], None}
  OBVIOUS
<1>5. \A k \in Keys : Heeds("manifest", left[k], GetEnv(content)[k])
  BY DEF Heeds, AppEnvAssumption
<1>6. \A s, found : Heeds(s, None, found)
  BY DEF Heeds, AppEnvAssumption
<1> HIDE DEF left
<1>7. wanted' \in [Stores -> Changes] /\ wanted'["manifest"] = left /\ wanted'["file"] = wanted["file"]
  BY <1>1, <1>2, <1>3 DEF Stores
<1>8. \A k \in Keys : Heeds("manifest", wanted'["manifest"][k], GetEnv(content)[k])
  BY <1>5, <1>7
<1>9. ASSUME NEW s \in Stores, NEW env \in Envs, Honours(s, env) PROVE Honours(s, env)'
  <2>1. ASSUME NEW k \in Keys PROVE Heeds(s, wanted'[s][k], env[k])
    <3>1. wanted'[s][k] \in {wanted[s][k], None}
      BY <1>4, <1>7 DEF Stores
    <3>2. Heeds(s, wanted[s][k], env[k])
      BY <1>9 DEF Honours
    <3> QED
      BY <3>1, <3>2, <1>6
  <2> QED
    BY <2>1 DEF Honours
<1> QED
  BY <1>4, <1>7, <1>8, <1>9

LEMMA TypeStep ==
  ASSUME AppEnvAssumption, TypeOK, MemoryInv, [Next]_vars
  PROVE  TypeOK'
<1> USE AppEnvAssumption DEF TypeOK, Steps, unitVars, localVars, history
<1> DEFINE Default == CHOOSE t \in Types : TRUE
<1>a. Default \in Types /\ Empty \in Envs /\ Empty \in Changes
  BY DEF AppEnvAssumption, Empty, Envs, Changes
<1>b. \A content : GetEnv(content) \in Envs
  BY <1>a DEF GetEnv
<1>c. \A t : StoreOf(t) \in Stores
  BY DEF StoreOf, Stores
<1>1. ASSUME NEW p \in Procs, DeployStart(p) PROVE TypeOK'
  BY <1>1 DEF DeployStart, Goto
<1>2. ASSUME NEW p \in Procs, Pull(p) PROVE TypeOK'
  BY <1>2 DEF Pull, Goto
<1>3. ASSUME NEW p \in Procs, PrepareOther(p) PROVE TypeOK'
  BY <1>3 DEF PrepareOther, Goto
<1>4. ASSUME NEW p \in Procs, PrepareAdopt(p) PROVE TypeOK'
  BY <1>4, <1>b DEF PrepareAdopt, Goto, AppEnvAssumption
<1>5. ASSUME NEW p \in Procs, PrepareGenerate(p) PROVE TypeOK'
  BY <1>5, <1>a DEF PrepareGenerate, Goto, Stores
<1>6. ASSUME NEW p \in Procs, PreparePorts(p) PROVE TypeOK'
  BY <1>6, <1>a DEF PreparePorts, Goto, Exit
<1>7. ASSUME NEW p \in Procs, Adopt(p) PROVE TypeOK'
  <2>1. wanted' \in [Stores -> Changes]
    BY <1>7 DEF Adopt, Changes, Stores
  <2> QED
    BY <1>7, <2>1 DEF Adopt, Goto, Stores
<1>8. ASSUME NEW p \in Procs, RestoreRead(p) PROVE TypeOK'
  BY <1>8, <1>a DEF RestoreRead, Goto, Exit
<1>9. ASSUME NEW p \in Procs, Restore(p) PROVE TypeOK'
  <2>1. Merge(doc[p], kept[p]) \in Envs
    BY <1>9 DEF Restore, Merge, Envs, MemoryInv
  <2> QED
    BY <1>9, <2>1 DEF Restore, Goto, Stores
<1>10. ASSUME NEW p \in Procs, UpdatePorts(p) PROVE TypeOK'
  BY <1>10 DEF UpdatePorts, Goto, Stores
<1>11. ASSUME NEW p \in Procs, PinRead(p) PROVE TypeOK'
  BY <1>11, <1>a DEF PinRead, Goto, Exit
<1>12. ASSUME NEW p \in Procs, PinWrite(p) PROVE TypeOK'
  BY <1>12 DEF PinWrite, Goto, Stores
<1>13. ASSUME NEW p \in Procs, WriteUnit(p) PROVE TypeOK'
  BY <1>13, <1>a DEF WriteUnit, Goto, HaltIf, Stores
<1>14. ASSUME NEW p \in Procs, Activate(p) PROVE TypeOK'
  <2>1. \A s \in Stores : [store |-> s, env |-> GetEnv(store[s])] \in [store: Stores, env: Envs]
    BY <1>b
  <2> QED
    <3>1. /\ status' \in {"inactive", "activating", "active"}
          /\ running' \in [store: Stores, env: Envs] \cup {Down}
          /\ status' = "inactive" <=> running' = Down
      BY <1>14, <1>c, <2>1 DEF Activate, Boot, AppEnvAssumption
    <3>2. missed' \in BOOLEAN /\ wanted' = wanted
      BY <1>14 DEF Activate
    <3> QED
      BY <1>14, <3>1, <3>2 DEF Activate, Goto
<1>15. ASSUME NEW p \in Procs, EnvRead(p) PROVE TypeOK'
  <2>1. ReadStore(StoreOf(type)) \in Envs
    BY <1>15, <1>c, ReadType DEF EnvRead
  <2>2. arg' \in [Procs -> Changes]
    BY <1>15 DEF EnvRead, Changes
  <2> QED
    BY <1>15, <2>1, <2>2 DEF EnvRead, Goto
<1>z. ASSUME NEW p \in Procs, EnvSet(p)
      PROVE  store' \in [Stores -> Envs \cup {NoFile, Broken}] /\ wanted' \in [Stores -> Changes]
  <2> DEFINE s == StoreOf(mine[p])
  <2>1. doc[p] \in Envs /\ arg[p] \in Changes
    BY <1>z, <1>c, ReadType DEF EnvSet, MemoryInv
  <2>2. Apply(doc[p], arg[p]) \in Envs
    BY <2>1 DEF Apply, Envs, Changes
  <2> DEFINE asked == [k \in Keys |-> IF arg[p][k] = None THEN wanted[s][k] ELSE arg[p][k]]
  <2>3. s \in Stores /\ wanted' = [wanted EXCEPT ![s] = asked]
    BY <1>z, <1>c DEF EnvSet
  <2>4. asked \in Changes
    BY <2>1, <2>3 DEF Changes
  <2> HIDE DEF s, asked
  <2>5. wanted' \in [Stores -> Changes]
    BY <2>3, <2>4
  <2> USE DEF s
  <2> QED
    BY <1>z, <2>2, <2>5 DEF EnvSet
<1>16. ASSUME NEW p \in Procs, EnvWrite(p) PROVE TypeOK'
  BY <1>16, <1>z DEF EnvWrite, Goto
<1>17. ASSUME NEW p \in Procs, EnvCheck(p) PROVE TypeOK'
  BY <1>17, <1>a DEF EnvCheck, Goto, Exit
<1>18. ASSUME NEW p \in Procs, RestartCommand(p) PROVE TypeOK'
  BY <1>18 DEF RestartCommand, Goto
<1>19. ASSUME NEW p \in Procs, Bounce(p) PROVE TypeOK'
  <2>1. \A s \in Stores : [store |-> s, env |-> GetEnv(store[s])] \in [store: Stores, env: Envs]
    BY <1>b
  <2> QED
    <3>1. /\ status' \in {"inactive", "activating", "active"}
          /\ running' \in [store: Stores, env: Envs] \cup {Down}
          /\ status' = "inactive" <=> running' = Down
      BY <1>19, <1>c, <2>1 DEF Bounce, Boot, AppEnvAssumption
    <3>2. missed' \in BOOLEAN /\ wanted' = wanted
      BY <1>19 DEF Bounce
    <3> QED
      BY <1>19, <3>1, <3>2 DEF Bounce, Goto
<1>20. ASSUME NEW p \in Procs, StartCommand(p) PROVE TypeOK'
  <2>1. \A s \in Stores : [store |-> s, env |-> GetEnv(store[s])] \in [store: Stores, env: Envs]
    BY <1>b
  <2> QED
    <3>1. /\ status' \in {"inactive", "activating", "active"}
          /\ running' \in [store: Stores, env: Envs] \cup {Down}
          /\ status' = "inactive" <=> running' = Down
      BY <1>20, <1>c, <2>1 DEF StartCommand, Boot, AppEnvAssumption
    <3>2. missed' \in BOOLEAN /\ wanted' = wanted
      BY <1>20 DEF StartCommand
    <3> QED
      BY <1>20, <3>1, <3>2 DEF StartCommand, Goto
<1>21. ASSUME NEW p \in Procs, StopCommand(p) PROVE TypeOK'
  BY <1>21 DEF StopCommand, HaltIf
<1>22. ASSUME NEW p \in Procs, WaitEnds(p) PROVE TypeOK'
  BY <1>22, <1>a DEF WaitEnds, Goto, Exit
<1>23. ASSUME NEW p \in Procs, Fails(p) PROVE TypeOK'
  <2>1. wanted' \in [Stores -> Changes]
    BY <1>23, ForgetHonours DEF Fails
  <2>2. missed' \in BOOLEAN
    BY <1>23 DEF Fails
  <2> QED
    BY <1>23, <1>a, <2>1, <2>2 DEF Fails, Goto, Exit
<1>28. ASSUME NEW p \in Procs, AdoptFails(p) PROVE TypeOK'
  <2>1. wanted' \in [Stores -> Changes]
    BY <1>28, ForgetHonours DEF AdoptFails
  <2> QED
    BY <1>28, <1>a, <2>1 DEF AdoptFails, Goto, Exit, Stores
<1>29. ASSUME NEW p \in Procs, RestoreFails(p) PROVE TypeOK'
  <2>1. Merge(doc[p], kept[p]) \in Envs
    BY <1>29 DEF RestoreFails, Merge, Envs, MemoryInv
  <2> QED
    BY <1>29, <1>a, <2>1 DEF RestoreFails, Goto, Exit, Stores, history
<1>30. ASSUME NEW p \in Procs, EnvWriteFails(p) PROVE TypeOK'
  BY <1>30, <1>a, <1>z DEF EnvWriteFails, Goto, Exit
<1>24. ASSUME ComesUp PROVE TypeOK'
  BY <1>24 DEF ComesUp
<1>25. ASSUME StartFails PROVE TypeOK'
  BY <1>25 DEF StartFails, HaltIf
<1>26. ASSUME Respawn PROVE TypeOK'
  <2>1. \A s \in Stores : [store |-> s, env |-> GetEnv(store[s])] \in [store: Stores, env: Envs]
    BY <1>b
  <2> QED
    BY <1>26, <1>c, <2>1 DEF Respawn, Boot, AppEnvAssumption
<1>27. CASE UNCHANGED vars
  BY <1>27 DEF vars
<1> QED
  BY <1>1, <1>2, <1>3, <1>4, <1>5, <1>6, <1>7, <1>8, <1>9, <1>10, <1>11, <1>12,
       <1>13, <1>14, <1>15, <1>16, <1>17, <1>18, <1>19, <1>20, <1>21, <1>22, <1>23,
       <1>24, <1>25, <1>26, <1>27, <1>28, <1>29, <1>30
  DEF Next, DeployNext, EnvNext, LifecycleNext, FailNext

(* A start in progress stays one a command waits for.                      *)
LEMMA StartStep ==
  ASSUME Alone, TypeOK, StartInv, [Next]_vars
  PROVE  StartInv'
<1> USE DEF Alone, TypeOK, StartInv, unitVars, history
<1>1. ASSUME NEW p \in Procs, DeployStart(p) PROVE StartInv'
  BY <1>1 DEF DeployStart, Goto
<1>2. ASSUME NEW p \in Procs, Pull(p) PROVE StartInv'
  BY <1>2 DEF Pull, Goto
<1>3. ASSUME NEW p \in Procs, PrepareOther(p) PROVE StartInv'
  BY <1>3 DEF PrepareOther, Goto
<1>4. ASSUME NEW p \in Procs, PrepareAdopt(p) PROVE StartInv'
  BY <1>4 DEF PrepareAdopt, Goto
<1>5. ASSUME NEW p \in Procs, PrepareGenerate(p) PROVE StartInv'
  BY <1>5 DEF PrepareGenerate, Goto
<1>6. ASSUME NEW p \in Procs, PreparePorts(p) PROVE StartInv'
  BY <1>6 DEF PreparePorts, Goto, Exit
<1>7. ASSUME NEW p \in Procs, Adopt(p) PROVE StartInv'
  BY <1>7 DEF Adopt, Goto
<1>8. ASSUME NEW p \in Procs, RestoreRead(p) PROVE StartInv'
  BY <1>8 DEF RestoreRead, Goto, Exit
<1>9. ASSUME NEW p \in Procs, Restore(p) PROVE StartInv'
  BY <1>9 DEF Restore, Goto
<1>10. ASSUME NEW p \in Procs, UpdatePorts(p) PROVE StartInv'
  BY <1>10 DEF UpdatePorts, Goto
<1>11. ASSUME NEW p \in Procs, PinRead(p) PROVE StartInv'
  BY <1>11 DEF PinRead, Goto, Exit
<1>12. ASSUME NEW p \in Procs, PinWrite(p) PROVE StartInv'
  BY <1>12 DEF PinWrite, Goto
<1>13. ASSUME NEW p \in Procs, WriteUnit(p) PROVE StartInv'
  BY <1>13 DEF WriteUnit, Goto, HaltIf
<1>14. ASSUME NEW p \in Procs, Activate(p) PROVE StartInv'
  BY <1>14 DEF Activate, Goto, Boot
<1>15. ASSUME NEW p \in Procs, EnvRead(p) PROVE StartInv'
  BY <1>15 DEF EnvRead, Goto
<1>16. ASSUME NEW p \in Procs, EnvWrite(p) PROVE StartInv'
  BY <1>16 DEF EnvWrite, EnvSet, Goto
<1>17. ASSUME NEW p \in Procs, EnvCheck(p) PROVE StartInv'
  BY <1>17 DEF EnvCheck, Goto, Exit
<1>18. ASSUME NEW p \in Procs, RestartCommand(p) PROVE StartInv'
  BY <1>18 DEF RestartCommand, Goto
<1>19. ASSUME NEW p \in Procs, Bounce(p) PROVE StartInv'
  BY <1>19 DEF Bounce, Goto, Boot
<1>20. ASSUME NEW p \in Procs, StartCommand(p) PROVE StartInv'
  BY <1>20 DEF StartCommand, Goto, Boot
<1>21. ASSUME NEW p \in Procs, StopCommand(p) PROVE StartInv'
  BY <1>21 DEF StopCommand, HaltIf
<1>22. ASSUME NEW p \in Procs, WaitEnds(p) PROVE StartInv'
  BY <1>22 DEF WaitEnds, Goto, Exit
<1>23. ASSUME NEW p \in Procs, Fails(p) PROVE StartInv'
  BY <1>23 DEF Fails, Goto, Exit
<1>28. ASSUME NEW p \in Procs, AdoptFails(p) PROVE StartInv'
  BY <1>28 DEF AdoptFails, Goto, Exit
<1>29. ASSUME NEW p \in Procs, RestoreFails(p) PROVE StartInv'
  BY <1>29 DEF RestoreFails, Goto, Exit
<1>30. ASSUME NEW p \in Procs, EnvWriteFails(p) PROVE StartInv'
  BY <1>30 DEF EnvWriteFails, Goto, Exit
<1>24. ASSUME ComesUp PROVE StartInv'
  BY <1>24 DEF ComesUp
<1>25. ASSUME StartFails PROVE StartInv'
  BY <1>25 DEF StartFails, HaltIf
<1>26. ASSUME Respawn PROVE StartInv'
  BY <1>26 DEF Respawn, Boot
<1>27. CASE UNCHANGED vars
  BY <1>27 DEF vars
<1> QED
  BY <1>1, <1>2, <1>3, <1>4, <1>5, <1>6, <1>7, <1>8, <1>9, <1>10, <1>11, <1>12,
       <1>13, <1>14, <1>15, <1>16, <1>17, <1>18, <1>19, <1>20, <1>21, <1>22, <1>23,
       <1>24, <1>25, <1>26, <1>27, <1>28, <1>29, <1>30
  DEF Next, DeployNext, EnvNext, LifecycleNext, FailNext

(* The running workload stays honoured.                                    *)
LEMMA RunningStep ==
  ASSUME AppEnvAssumption, Alone, TypeOK, MemoryInv, StoreInv, RunningInv, StartInv, [Next]_vars
  PROVE  RunningInv'
<1> USE DEF Alone, TypeOK, RunningInv, unitVars, history
<1>a. \A t : StoreOf(t) \in Stores
  BY DEF StoreOf, Stores
<1>1. ASSUME NEW p \in Procs, DeployStart(p) PROVE RunningInv'
  BY <1>1 DEF DeployStart, Goto, Honours
<1>2. ASSUME NEW p \in Procs, Pull(p) PROVE RunningInv'
  BY <1>2 DEF Pull, Goto, Honours
<1>3. ASSUME NEW p \in Procs, PrepareOther(p) PROVE RunningInv'
  BY <1>3 DEF PrepareOther, Goto, Honours
<1>4. ASSUME NEW p \in Procs, PrepareAdopt(p) PROVE RunningInv'
  BY <1>4 DEF PrepareAdopt, Goto, Honours
<1>5. ASSUME NEW p \in Procs, PrepareGenerate(p) PROVE RunningInv'
  <2>1. \A q \in Procs : pc[q] \notin {"envCheck", "bounce"}
    BY <1>5 DEF PrepareGenerate
  <2>2. UNCHANGED <<running, loaded, wanted, missed>>
    BY <1>5 DEF PrepareGenerate
  <2> QED
    BY <2>1, <2>2 DEF Honours
<1>6. ASSUME NEW p \in Procs, PreparePorts(p) PROVE RunningInv'
  BY <1>6 DEF PreparePorts, Goto, Exit, Honours
<1>7. ASSUME NEW p \in Procs, Adopt(p) PROVE RunningInv'
  <2>1. \A s \in Stores, env \in Envs : Honours(s, env) => Honours(s, env)'
    BY <1>7 DEF Adopt, Honours, Heeds, Changes, AppEnvAssumption
  <2> QED
    BY <1>7, <2>1, AppEnvAssumption DEF Adopt, Goto, AppEnvAssumption
<1>8. ASSUME NEW p \in Procs, RestoreRead(p) PROVE RunningInv'
  BY <1>8 DEF RestoreRead, Goto, Exit, Honours
<1>9. ASSUME NEW p \in Procs, Restore(p) PROVE RunningInv'
  BY <1>9 DEF Restore, Goto, Honours
<1>10. ASSUME NEW p \in Procs, UpdatePorts(p) PROVE RunningInv'
  BY <1>10 DEF UpdatePorts, Goto, Honours
<1>11. ASSUME NEW p \in Procs, PinRead(p) PROVE RunningInv'
  BY <1>11 DEF PinRead, Goto, Exit, Honours
<1>12. ASSUME NEW p \in Procs, PinWrite(p) PROVE RunningInv'
  BY <1>12 DEF PinWrite, Goto, Honours
<1>13. ASSUME NEW p \in Procs, WriteUnit(p) PROVE RunningInv'
  BY <1>13 DEF WriteUnit, Goto, HaltIf, Honours
<1>14. ASSUME NEW p \in Procs, Activate(p) PROVE RunningInv'
  <2>1. \A s \in Stores : Honours(s, GetEnv(store[s]))
    BY <1>14 DEF Activate, StoreInv
  <2>2. running' # Down =>
          /\ running'.store = StoreOf(loaded') /\ running'.store \in Stores
          /\ running'.env = GetEnv(store[running'.store])
    BY <1>14, <1>a DEF Activate, Boot
  <2>3. wanted' = wanted
    BY <1>14 DEF Activate
  <2> QED
    BY <2>1, <2>2, <2>3 DEF Honours
<1>15. ASSUME NEW p \in Procs, EnvRead(p) PROVE RunningInv'
  BY <1>15 DEF EnvRead, Goto, Honours
<1>16. ASSUME NEW p \in Procs, EnvWrite(p) PROVE RunningInv'
  BY <1>16 DEF EnvWrite, EnvSet, Goto
<1>17. ASSUME NEW p \in Procs, EnvCheck(p) PROVE RunningInv'
  BY <1>17 DEF EnvCheck, Goto, Exit, Honours, StartInv
<1>18. ASSUME NEW p \in Procs, RestartCommand(p) PROVE RunningInv'
  BY <1>18 DEF RestartCommand, Goto, Honours
<1>19. ASSUME NEW p \in Procs, Bounce(p) PROVE RunningInv'
  <2>1. \A s \in Stores : Honours(s, GetEnv(store[s]))
    BY <1>19 DEF Bounce, StoreInv
  <2>2. running' # Down =>
          /\ running'.store = StoreOf(loaded') /\ running'.store \in Stores
          /\ running'.env = GetEnv(store[running'.store])
    BY <1>19, <1>a DEF Bounce, Boot
  <2>3. wanted' = wanted
    BY <1>19 DEF Bounce
  <2> QED
    BY <2>1, <2>2, <2>3 DEF Honours
<1>20. ASSUME NEW p \in Procs, StartCommand(p) PROVE RunningInv'
  <2>1. \A s \in Stores : Honours(s, GetEnv(store[s]))
    BY <1>20 DEF StartCommand, StoreInv
  <2>2. running' # Down =>
          \/ running' = running /\ missed' = missed
          \/ /\ running'.store = StoreOf(loaded') /\ running'.store \in Stores
             /\ running'.env = GetEnv(store[running'.store])
    BY <1>20, <1>a DEF StartCommand, Boot
  <2>3. wanted' = wanted /\ loaded' = loaded /\ pc[p] = "idle"
    BY <1>20 DEF StartCommand
  <2> QED
    BY <2>1, <2>2, <2>3 DEF Honours
<1>21. ASSUME NEW p \in Procs, StopCommand(p) PROVE RunningInv'
  BY <1>21 DEF StopCommand, HaltIf, Honours
<1>22. ASSUME NEW p \in Procs, WaitEnds(p) PROVE RunningInv'
  BY <1>22 DEF WaitEnds, Goto, Exit, Honours
<1>23. ASSUME NEW p \in Procs, Fails(p) PROVE RunningInv'
  <2>1. \A s \in Stores, env \in Envs : Honours(s, env) => Honours(s, env)'
    BY <1>23, ForgetHonours DEF Fails, Honours
  <2>2. UNCHANGED <<running, loaded>> /\ (missed => missed')
    BY <1>23 DEF Fails
  <2>3. pc[p] \in {"envCheck", "bounce"} => missed'
    BY <1>23 DEF Fails
  <2> QED
    BY <2>1, <2>2, <2>3, AppEnvAssumption DEF AppEnvAssumption
<1>28. ASSUME NEW p \in Procs, AdoptFails(p) PROVE RunningInv'
  <2>1. \A s \in Stores, env \in Envs : Honours(s, env) => Honours(s, env)'
    BY <1>28, ForgetHonours DEF AdoptFails
  <2>2. UNCHANGED <<running, loaded, missed>> /\ pc[p] \notin {"envCheck", "bounce"}
    BY <1>28 DEF AdoptFails
  <2> QED
    BY <2>1, <2>2, AppEnvAssumption DEF AppEnvAssumption
<1>29. ASSUME NEW p \in Procs, RestoreFails(p) PROVE RunningInv'
  BY <1>29 DEF RestoreFails, Goto, Exit, Honours
<1>30. ASSUME NEW p \in Procs, EnvWriteFails(p) PROVE RunningInv'
  BY <1>30 DEF EnvWriteFails, Goto, Exit
<1>24. ASSUME ComesUp PROVE RunningInv'
  BY <1>24 DEF ComesUp, Honours
<1>25. ASSUME StartFails PROVE RunningInv'
  BY <1>25 DEF StartFails, HaltIf
<1>26. ASSUME Respawn PROVE RunningInv'
  <2>1. Quiet => \A s \in Stores : Honours(s, GetEnv(store[s]))
    BY DEF StoreInv, Quiet
  <2> QED
    BY <1>26, <2>1, <1>a DEF Respawn, Honours, Quiet
<1>27. CASE UNCHANGED vars
  BY <1>27 DEF vars, Honours
<1> QED
  BY <1>1, <1>2, <1>3, <1>4, <1>5, <1>6, <1>7, <1>8, <1>9, <1>10, <1>11, <1>12,
       <1>13, <1>14, <1>15, <1>16, <1>17, <1>18, <1>19, <1>20, <1>21, <1>22, <1>23,
       <1>24, <1>25, <1>26, <1>27, <1>28, <1>29, <1>30
  DEF Next, DeployNext, EnvNext, LifecycleNext, FailNext

(* What the edits of an environment keep of the operator's wishes.         *)
LEMMA ParseHonours ==
  ASSUME AppEnvAssumption, Alone, TypeOK, NEW s \in Stores, Readable(s), Honours(s, GetEnv(store[s]))
  PROVE  Honours(s, ReadStore(s))
<1>1. CASE s = "manifest"
  BY <1>1 DEF Readable, ReadStore, GetEnv
<1>2. CASE s # "manifest"
  <2> DEFINE env == GetEnv(store[s])
  <2>1. s = "file" /\ env \in Envs
    BY <1>2 DEF Stores, GetEnv, Envs, Empty
  <2>2. ReadStore(s) = [k \in Keys |-> IF env[k] = None THEN None ELSE Clean[env[k]]]
    BY <1>2 DEF ReadStore, Parse, Alone
  <2>3. \A k \in Keys : Heeds(s, wanted[s][k], env[k])
    BY DEF Honours
  <2> HIDE DEF env
  <2>4. ASSUME NEW k \in Keys PROVE Heeds(s, wanted[s][k], ReadStore(s)[k])
    <3>1. env[k] \in Values \cup {None}
      BY <2>1 DEF Envs
    <3>2. wanted[s][k] \in Values =>
            env[k] \in Left[wanted[s][k]] /\ Clean[env[k]] \in Left[wanted[s][k]] /\ env[k] # None
      BY <2>1, <2>3, <3>1, LeftClosed DEF Heeds, AppEnvAssumption
    <3> QED
      BY <2>1, <2>2, <2>3, <3>1, <3>2 DEF Heeds
  <2> QED
    BY <2>4 DEF Honours
<1> QED
  BY <1>1, <1>2

LEMMA MergeHonours ==
  ASSUME AppEnvAssumption, TypeOK, NEW env \in Envs, NEW over \in Envs, Honours("manifest", over),
         \A k \in Keys : wanted["manifest"][k] = Gone => env[k] = None
  PROVE  Honours("manifest", Merge(env, over))
<1>1. ASSUME NEW k \in Keys PROVE Heeds("manifest", wanted["manifest"][k], Merge(env, over)[k])
  <2>1. /\ Merge(env, over)[k] = IF over[k] = None THEN env[k] ELSE over[k]
        /\ Heeds("manifest", wanted["manifest"][k], over[k])
    BY DEF Merge, Honours
  <2> QED
    BY <2>1 DEF Heeds, AppEnvAssumption
<1> QED
  BY <1>1 DEF Honours


(* The stores stay honoured.                                               *)
LEMMA StoreStep ==
  ASSUME AppEnvAssumption, Alone, TypeOK, MemoryInv, StoreInv, [Next]_vars
  PROVE  StoreInv'
<1> USE DEF Alone, TypeOK, StoreInv, unitVars, localVars, history, Stores
<1>a. Empty \in Envs /\ GetEnv(Empty) = Empty /\ GetEnv(NoFile) = Empty /\ Empty # Broken
  BY DEF AppEnvAssumption, GetEnv, Empty, Envs
<1>b. \A env \in Envs : GetEnv(env) = env /\ env # Broken
  BY DEF AppEnvAssumption, GetEnv
<1>c. \A t : StoreOf(t) \in Stores
  BY DEF StoreOf
<1>1. ASSUME NEW p \in Procs, DeployStart(p) PROVE StoreInv'
  BY <1>1 DEF DeployStart, Goto, Honours
<1>2. ASSUME NEW p \in Procs, Pull(p) PROVE StoreInv'
  BY <1>2 DEF Pull, Goto, Honours
<1>3. ASSUME NEW p \in Procs, PrepareOther(p) PROVE StoreInv'
  BY <1>3 DEF PrepareOther, Goto, Honours
<1>4. ASSUME NEW p \in Procs, PrepareAdopt(p) PROVE StoreInv'
  BY <1>4 DEF PrepareAdopt, Goto, Honours
<1>5. ASSUME NEW p \in Procs, PrepareGenerate(p) PROVE StoreInv'
  BY <1>5, <1>a DEF PrepareGenerate, Goto, Honours
<1>6. ASSUME NEW p \in Procs, PreparePorts(p) PROVE StoreInv'
  BY <1>6 DEF PreparePorts, Goto, Exit, Honours
<1>7. ASSUME NEW p \in Procs, Adopt(p) PROVE StoreInv'
  <2>1. doc[p] \in Envs /\ doc[p] # Broken /\ GetEnv(doc[p]) = doc[p]
    BY <1>7, <1>b DEF Adopt, MemoryInv
  <2>2. Honours("file", GetEnv(store["file"]))'
    BY <1>7 DEF Adopt, Honours, AppEnvAssumption
  <2>3. ASSUME kept[p] = Empty PROVE Honours("manifest", doc[p])'
    <3>1. \A k \in Keys : wanted["manifest"][k] \notin Values
      BY <1>7, <2>3 DEF Adopt, MemoryInv, Honours, Heeds, Empty, AppEnvAssumption
    <3>2. \A k \in Keys : wanted'["manifest"][k] =
            IF wanted["manifest"][k] = Gone /\ doc[p][k] # None THEN None ELSE wanted["manifest"][k]
      BY <1>7, <2>1 DEF Adopt
    <3> QED
      BY <1>7, <3>1, <3>2, AppEnvAssumption DEF Adopt, Honours, Heeds, AppEnvAssumption
  <2> QED
    BY <1>7, <2>1, <2>2, <2>3 DEF Adopt, Goto, Honours
<1>8. ASSUME NEW p \in Procs, RestoreRead(p) PROVE StoreInv'
  BY <1>8 DEF RestoreRead, Goto, MemoryInv, Honours
<1>9. ASSUME NEW p \in Procs, Restore(p) PROVE StoreInv'
  <2>1. Honours("manifest", Merge(doc[p], kept[p])) /\ Merge(doc[p], kept[p]) \in Envs
    <3>1. doc[p] \in Envs /\ kept[p] \in Envs /\ Honours("manifest", kept[p])
      BY <1>9 DEF Restore, MemoryInv
    <3>2. \A k \in Keys : wanted["manifest"][k] = Gone => doc[p][k] = None
      BY <1>9 DEF Restore, MemoryInv
    <3>3. Merge(doc[p], kept[p]) \in Envs
      BY <3>1 DEF Merge, Envs
    <3> QED
      BY <3>1, <3>2, <3>3, MergeHonours
  <2> QED
    BY <1>9, <2>1, <1>b DEF Restore, Goto, Honours
<1>10. ASSUME NEW p \in Procs, UpdatePorts(p) PROVE StoreInv'
  <2>1. store' = store
    BY <1>10 DEF UpdatePorts, MemoryInv
  <2> QED
    BY <1>10, <2>1 DEF UpdatePorts, Goto, Honours
<1>11. ASSUME NEW p \in Procs, PinRead(p) PROVE StoreInv'
  BY <1>11 DEF PinRead, Goto, Exit, Honours
<1>12. ASSUME NEW p \in Procs, PinWrite(p) PROVE StoreInv'
  <2>1. store' = store
    BY <1>12 DEF PinWrite, MemoryInv
  <2> QED
    BY <1>12, <2>1 DEF PinWrite, Goto, Honours
<1>13. ASSUME NEW p \in Procs, WriteUnit(p) PROVE StoreInv'
  BY <1>13, <1>a DEF WriteUnit, Goto, Honours
<1>14. ASSUME NEW p \in Procs, Activate(p) PROVE StoreInv'
  BY <1>14 DEF Activate, Goto, Boot, Honours
<1>15. ASSUME NEW p \in Procs, EnvRead(p) PROVE StoreInv'
  BY <1>15 DEF EnvRead, Goto, Honours
<1>z. ASSUME NEW p \in Procs, EnvSet(p) PROVE StoreInv'
  <2>0. PICK s \in Stores : s = StoreOf(mine[p])
    BY <1>c
  <2>1. doc[p] \in Envs /\ arg[p] \in Changes /\ Honours(s, doc[p])
    BY <1>z, <2>0, ReadType, ParseHonours DEF EnvSet, MemoryInv, Readable
  <2>a. Apply(doc[p], arg[p]) \in Envs
    BY <2>1 DEF Apply, Envs, Changes
  <2>2. PICK env \in Envs : env = Apply(doc[p], arg[p])
    BY <2>a
  <2>3. \A k \in Keys : wanted'[s][k] = IF arg[p][k] = None THEN wanted[s][k] ELSE arg[p][k]
    BY <1>z, <2>0, <2>1 DEF EnvSet
  <2>b. wanted[s] \in Changes
    BY <2>0
  <2>4. Honours(s, env)'
    BY <1>z, <2>0, <2>1, <2>2, <2>3, <2>b, LeftClosed, AppEnvAssumption
      DEF EnvSet, Honours, Heeds, Apply, Changes, AppEnvAssumption
  <2>5. \A r \in Stores \ {s} : store'[r] = store[r] /\ wanted'[r] = wanted[r]
    BY <1>z, <2>0 DEF EnvSet
  <2>6. store'[s] = env
    BY <1>z, <2>0, <2>2 DEF EnvSet
  <2>7. \A r \in Stores : Honours(r, GetEnv(store[r]))
    BY <1>z DEF EnvSet
  <2>8. \A r \in Stores : Honours(r, GetEnv(store[r]))'
    <3>1. Honours(s, GetEnv(store[s]))'
      BY <2>2, <2>4, <2>6 DEF Honours, GetEnv
    <3>2. ASSUME NEW r \in Stores \ {s} PROVE Honours(r, GetEnv(store[r]))'
      <4>1. store'[r] = store[r] /\ wanted'[r] = wanted[r] /\ Honours(r, GetEnv(store[r]))
        BY <2>5, <2>7, <3>2
      <4> QED
        BY <4>1 DEF Honours, GetEnv
    <3> QED
      BY <3>1, <3>2
  <2> QED
    BY <2>1, <2>2, <2>5, <2>6, <2>8, <1>b
<1>16. ASSUME NEW p \in Procs, EnvWrite(p) PROVE StoreInv'
  BY <1>16, <1>z DEF EnvWrite
<1>17. ASSUME NEW p \in Procs, EnvCheck(p) PROVE StoreInv'
  BY <1>17 DEF EnvCheck, Goto, Exit, Honours
<1>18. ASSUME NEW p \in Procs, RestartCommand(p) PROVE StoreInv'
  BY <1>18 DEF RestartCommand, Goto, Honours
<1>19. ASSUME NEW p \in Procs, Bounce(p) PROVE StoreInv'
  BY <1>19 DEF Bounce, Goto, Boot, Honours
<1>20. ASSUME NEW p \in Procs, StartCommand(p) PROVE StoreInv'
  BY <1>20 DEF StartCommand, Goto, Boot, Honours
<1>21. ASSUME NEW p \in Procs, StopCommand(p) PROVE StoreInv'
  BY <1>21 DEF StopCommand, HaltIf, Honours
<1>22. ASSUME NEW p \in Procs, WaitEnds(p) PROVE StoreInv'
  BY <1>22 DEF WaitEnds, Goto, Exit, Honours
<1>23. ASSUME NEW p \in Procs, Fails(p) PROVE StoreInv'
  <2>1. CASE pc[p] \in {"restoreRead", "restore"}
    <3>1. Forget(store["manifest"]) /\ store' = store
      BY <1>23, <2>1 DEF Fails
    <3>2. /\ \A k \in Keys : Heeds("manifest", wanted'["manifest"][k], GetEnv(store["manifest"])[k])
          /\ wanted'["file"] = wanted["file"]
      BY <3>1, ForgetHonours
    <3> QED
      BY <3>1, <3>2 DEF Honours, GetEnv
  <2>2. CASE pc[p] \notin {"restoreRead", "restore"}
    BY <1>23, <2>2 DEF Fails, Goto, Exit, Honours
  <2> QED
    BY <2>1, <2>2
<1>28. ASSUME NEW p \in Procs, AdoptFails(p) PROVE StoreInv'
  <2>1. doc[p] # Broken /\ Forget(doc[p]) /\ store' = [store EXCEPT !["manifest"] = doc[p]]
    BY <1>28, <1>b DEF AdoptFails, MemoryInv
  <2>2. /\ \A k \in Keys : Heeds("manifest", wanted'["manifest"][k], GetEnv(doc[p])[k])
        /\ wanted'["file"] = wanted["file"]
    BY <2>1, ForgetHonours
  <2>4. store'["manifest"] = doc[p] /\ store'["file"] = store["file"]
    BY <2>1
  <2>3. \A k \in Keys : Heeds("manifest", wanted'["manifest"][k], GetEnv(store'["manifest"])[k])
    BY <2>2, <2>4
  <2>5. Honours("file", GetEnv(store["file"]))
    OBVIOUS
  <2>6. \A k \in Keys : Heeds("file", wanted'["file"][k], GetEnv(store'["file"])[k])
    BY <2>2, <2>4, <2>5 DEF Honours
  <2> QED
    BY <2>1, <2>3, <2>4, <2>6 DEF Honours, GetEnv
<1>29. ASSUME NEW p \in Procs, RestoreFails(p) PROVE StoreInv'
  <2>1. doc[p] \in Envs /\ kept[p] \in Envs /\ Honours("manifest", kept[p])
    BY <1>29 DEF RestoreFails, MemoryInv
  <2>2. \A k \in Keys : wanted["manifest"][k] = Gone => doc[p][k] = None
    BY <1>29 DEF RestoreFails, MemoryInv
  <2>3. Merge(doc[p], kept[p]) \in Envs
    BY <2>1 DEF Merge, Envs
  <2>4. Honours("manifest", Merge(doc[p], kept[p]))
    BY <2>1, <2>2, MergeHonours, AppEnvAssumption
  <2> QED
    BY <1>29, <2>3, <2>4, <1>b DEF RestoreFails, Goto, Exit, Honours
<1>30. ASSUME NEW p \in Procs, EnvWriteFails(p) PROVE StoreInv'
  BY <1>30, <1>z DEF EnvWriteFails
<1>24. ASSUME ComesUp PROVE StoreInv'
  BY <1>24 DEF ComesUp, Honours
<1>25. ASSUME StartFails PROVE StoreInv'
  BY <1>25 DEF StartFails, Honours
<1>26. ASSUME Respawn PROVE StoreInv'
  BY <1>26 DEF Respawn, Honours
<1>27. CASE UNCHANGED vars
  BY <1>27 DEF vars, Honours
<1> QED
  BY <1>1, <1>2, <1>3, <1>4, <1>5, <1>6, <1>7, <1>8, <1>9, <1>10, <1>11, <1>12,
       <1>13, <1>14, <1>15, <1>16, <1>17, <1>18, <1>19, <1>20, <1>21, <1>22, <1>23,
       <1>24, <1>25, <1>26, <1>27, <1>28, <1>29, <1>30
  DEF Next, DeployNext, EnvNext, LifecycleNext, FailNext

(* What processes hold in memory goes on agreeing with the files.          *)
LEMMA MemoryStep ==
  ASSUME AppEnvAssumption, Alone, TypeOK, MemoryInv, StoreInv, [Next]_vars
  PROVE  MemoryInv'
<1> USE DEF Alone, TypeOK, unitVars, localVars, history, Stores
<1>a. Empty \in Envs /\ GetEnv(Empty) = Empty /\ GetEnv(NoFile) = Empty
  BY DEF AppEnvAssumption, GetEnv, Empty, Envs
<1>b. \A env \in Envs : GetEnv(env) = env /\ env # NoFile /\ env # Broken
  BY DEF AppEnvAssumption, GetEnv
<1>c. \A t : StoreOf(t) \in Stores
  BY DEF StoreOf
<1>d. \A t \in Types : StoreOf(t) = "manifest" <=> t = "container"
  BY DEF StoreOf
<1>1. ASSUME NEW p \in Procs, DeployStart(p) PROVE MemoryInv'
  BY <1>1
    DEF DeployStart, Goto, MemoryInv, Declares, Honours, Readable, ReadStore, GetEnv
<1>2. ASSUME NEW p \in Procs, Pull(p) PROVE MemoryInv'
  BY <1>2 DEF Pull, Goto, MemoryInv, Declares, Honours, Readable, ReadStore, GetEnv
<1>3. ASSUME NEW p \in Procs, PrepareOther(p) PROVE MemoryInv'
  BY <1>3
    DEF PrepareOther, Goto, MemoryInv, Declares, Honours, Readable, ReadStore,
       GetEnv
<1>4. ASSUME NEW p \in Procs, PrepareAdopt(p) PROVE MemoryInv'
  <2>1. clone \in Envs
    BY <1>4, AppEnvAssumption DEF PrepareAdopt, AppEnvAssumption
  <2>2. Honours("manifest", GetEnv(store["manifest"]))
    BY <1>4 DEF PrepareAdopt, StoreInv
  <2>3. doc'[p] = clone /\ kept'[p] = GetEnv(store["manifest"]) /\ mine[p] = "container"
    BY <1>4 DEF PrepareAdopt
  <2>4. Honours("manifest", kept[p])'
    BY <1>4, <2>2, <2>3 DEF PrepareAdopt, Honours
  <2> QED
    BY <1>4, <2>1, <2>3, <2>4 DEF PrepareAdopt, Goto, MemoryInv
<1>5. ASSUME NEW p \in Procs, PrepareGenerate(p) PROVE MemoryInv'
  BY <1>5, <1>a, AppEnvAssumption
    DEF PrepareGenerate, Goto, MemoryInv, Declares, Honours, Readable, ReadStore,
       GetEnv, AppEnvAssumption
<1>6. ASSUME NEW p \in Procs, PreparePorts(p) PROVE MemoryInv'
  BY <1>6
    DEF PreparePorts, Goto, Exit, MemoryInv, Declares, Honours, Readable, ReadStore,
       GetEnv
<1>7. ASSUME NEW p \in Procs, Adopt(p) PROVE MemoryInv'
  <2>1. /\ mine[p] = "container" /\ doc[p] = clone /\ clone \in Envs /\ Honours("manifest", kept[p])
        /\ GetEnv(doc[p]) = clone
    BY <1>7, <1>b DEF Adopt, MemoryInv
  <2>2. \A k \in Keys : wanted'["manifest"][k] =
          IF wanted["manifest"][k] = Gone /\ clone[k] # None THEN None ELSE wanted["manifest"][k]
    BY <1>7, <2>1 DEF Adopt
  <2>3. \A k \in Keys : wanted'["manifest"][k] = Gone => clone[k] = None
    BY <2>2, AppEnvAssumption DEF AppEnvAssumption
  <2>4. \A k \in Keys : Heeds("manifest", wanted'["manifest"][k], kept[p][k])
    BY <2>1, <2>2, AppEnvAssumption DEF Honours, Heeds, AppEnvAssumption
  <2>5. store'["manifest"] = clone /\ UNCHANGED <<clone, doc, kept, mine>>
    BY <1>7, <2>1 DEF Adopt
  <2>6. kept[p] = Empty => Declares(GetEnv(store["manifest"]), p)'
    BY <2>1, <2>5 DEF Declares, GetEnv
  <2> QED
    BY <1>7, <2>1, <2>3, <2>4, <2>5, <2>6 DEF Adopt, Goto, MemoryInv, Honours
<1>8. ASSUME NEW p \in Procs, RestoreRead(p) PROVE MemoryInv'
  BY <1>8
    DEF RestoreRead, Goto, Exit, MemoryInv, Declares, Honours, Readable, ReadStore,
       GetEnv
<1>9. ASSUME NEW p \in Procs, Restore(p) PROVE MemoryInv'
  <2>1. doc[p] = clone /\ clone \in Envs /\ doc[p] \in Envs /\ kept[p] \in Envs /\ mine[p] = "container"
    BY <1>9 DEF Restore, MemoryInv
  <2>a. Merge(doc[p], kept[p]) \in Envs
    BY <2>1 DEF Merge, Envs
  <2>2. PICK env \in Envs : env = Merge(doc[p], kept[p])
    BY <2>a
  <2>3. \A k \in Keys : clone[k] # None => env[k] \in {clone[k], kept[p][k]} \ {None}
    BY <2>1, <2>2 DEF Merge
  <2>4. store'["manifest"] = env /\ GetEnv(env) = env /\ GetEnv(clone) = clone
    BY <1>9, <2>1, <2>2, <1>b DEF Restore
  <2>5. Declares(GetEnv(store["manifest"]), p)'
    BY <1>9, <2>3, <2>4 DEF Restore, Declares, GetEnv
  <2> QED
    BY <1>9, <2>5 DEF Restore, Goto, MemoryInv
<1>10. ASSUME NEW p \in Procs, UpdatePorts(p) PROVE MemoryInv'
  <2>1. clone = NoFile /\ GetEnv(clone) = Empty
    BY <1>10, <1>a DEF UpdatePorts, MemoryInv
  <2>2. Declares(GetEnv(store["manifest"]), p)'
    BY <1>10, <2>1 DEF UpdatePorts, Declares, GetEnv, Empty
  <2> QED
    BY <1>10, <2>2 DEF UpdatePorts, Goto, MemoryInv
<1>11. ASSUME NEW p \in Procs, PinRead(p) PROVE MemoryInv'
  BY <1>11
    DEF PinRead, Goto, Exit, MemoryInv, Declares, Honours, Readable, ReadStore,
       GetEnv
<1>12. ASSUME NEW p \in Procs, PinWrite(p) PROVE MemoryInv'
  BY <1>12
    DEF PinWrite, Goto, MemoryInv, Declares, Honours, Readable, ReadStore, GetEnv
<1>13. ASSUME NEW p \in Procs, WriteUnit(p) PROVE MemoryInv'
  <2>1. store'["manifest"] = store["manifest"]
    BY <1>13 DEF WriteUnit
  <2>2. mine[p] = "container" => Declares(GetEnv(store["manifest"]), p)
    BY <1>13 DEF WriteUnit, MemoryInv
  <2>3. mine[p] = "container" => Declares(GetEnv(store["manifest"]), p)'
    BY <1>13, <2>1, <2>2 DEF WriteUnit, Declares, GetEnv
  <2> QED
    BY <1>13, <2>3 DEF WriteUnit, Goto, MemoryInv
<1>14. ASSUME NEW p \in Procs, Activate(p) PROVE MemoryInv'
  BY <1>14
    DEF Activate, Goto, Boot, MemoryInv, Declares, Honours, Readable, ReadStore,
       GetEnv
<1>15. ASSUME NEW p \in Procs, EnvRead(p) PROVE MemoryInv'
  BY <1>15
    DEF EnvRead, Goto, MemoryInv, Declares, Honours, Readable, ReadStore, GetEnv
<1>16. ASSUME NEW p \in Procs, EnvWrite(p) PROVE MemoryInv'
  BY <1>16
    DEF EnvWrite, EnvSet, Goto, MemoryInv, Declares, Honours, Readable, ReadStore, GetEnv
<1>17. ASSUME NEW p \in Procs, EnvCheck(p) PROVE MemoryInv'
  BY <1>17
    DEF EnvCheck, Goto, Exit, MemoryInv, Declares, Honours, Readable, ReadStore,
       GetEnv
<1>18. ASSUME NEW p \in Procs, RestartCommand(p) PROVE MemoryInv'
  BY <1>18
    DEF RestartCommand, Goto, MemoryInv, Declares, Honours, Readable, ReadStore,
       GetEnv
<1>19. ASSUME NEW p \in Procs, Bounce(p) PROVE MemoryInv'
  BY <1>19
    DEF Bounce, Goto, Boot, MemoryInv, Declares, Honours, Readable, ReadStore,
       GetEnv
<1>20. ASSUME NEW p \in Procs, StartCommand(p) PROVE MemoryInv'
  BY <1>20
    DEF StartCommand, Goto, Boot, MemoryInv, Declares, Honours, Readable, ReadStore,
       GetEnv
<1>21. ASSUME NEW p \in Procs, StopCommand(p) PROVE MemoryInv'
  BY <1>21
    DEF StopCommand, HaltIf, MemoryInv, Declares, Honours, Readable, ReadStore,
       GetEnv
<1>22. ASSUME NEW p \in Procs, WaitEnds(p) PROVE MemoryInv'
  BY <1>22
    DEF WaitEnds, Goto, Exit, MemoryInv, Declares, Honours, Readable, ReadStore,
       GetEnv
<1>23. ASSUME NEW p \in Procs, Fails(p) PROVE MemoryInv'
  BY <1>23 DEF Fails, Goto, Exit, MemoryInv
<1>28. ASSUME NEW p \in Procs, AdoptFails(p) PROVE MemoryInv'
  BY <1>28 DEF AdoptFails, Goto, Exit, MemoryInv
<1>29. ASSUME NEW p \in Procs, RestoreFails(p) PROVE MemoryInv'
  BY <1>29 DEF RestoreFails, Goto, Exit, MemoryInv
<1>30. ASSUME NEW p \in Procs, EnvWriteFails(p) PROVE MemoryInv'
  BY <1>30 DEF EnvWriteFails, Goto, Exit, MemoryInv
<1>24. ASSUME ComesUp PROVE MemoryInv'
  BY <1>24 DEF ComesUp, MemoryInv, Declares, Honours, Readable, ReadStore, GetEnv
<1>25. ASSUME StartFails PROVE MemoryInv'
  BY <1>25 DEF StartFails, MemoryInv, Declares, Honours, Readable, ReadStore, GetEnv
<1>26. ASSUME Respawn PROVE MemoryInv'
  BY <1>26 DEF Respawn, MemoryInv, Declares, Honours, Readable, ReadStore, GetEnv
<1>27. CASE UNCHANGED vars
  BY <1>27 DEF vars, MemoryInv, Declares, Honours, Readable, ReadStore, GetEnv
<1> QED
  BY <1>1, <1>2, <1>3, <1>4, <1>5, <1>6, <1>7, <1>8, <1>9, <1>10, <1>11, <1>12,
       <1>13, <1>14, <1>15, <1>16, <1>17, <1>18, <1>19, <1>20, <1>21, <1>22, <1>23,
       <1>24, <1>25, <1>26, <1>27, <1>28, <1>29, <1>30
  DEF Next, DeployNext, EnvNext, LifecycleNext, FailNext

(* What a deploy started goes on running with what the manifest declares.  *)
LEMMA ShippedStep ==
  ASSUME AppEnvAssumption, Alone, TypeOK, MemoryInv, StoreInv, ShippedRuns, [Next]_vars
  PROVE  ShippedRuns'
<1> USE DEF Alone, TypeOK, ShippedRuns, unitVars, localVars, history
<1>1. ASSUME NEW p \in Procs, DeployStart(p) PROVE ShippedRuns'
  BY <1>1 DEF DeployStart, Goto, GetEnv
<1>2. ASSUME NEW p \in Procs, Pull(p) PROVE ShippedRuns'
  BY <1>2 DEF Pull, Goto, GetEnv
<1>3. ASSUME NEW p \in Procs, PrepareOther(p) PROVE ShippedRuns'
  BY <1>3 DEF PrepareOther, Goto, GetEnv
<1>4. ASSUME NEW p \in Procs, PrepareAdopt(p) PROVE ShippedRuns'
  BY <1>4 DEF PrepareAdopt, Goto, GetEnv
<1>5. ASSUME NEW p \in Procs, PrepareGenerate(p) PROVE ShippedRuns'
  BY <1>5 DEF PrepareGenerate, Goto, GetEnv
<1>6. ASSUME NEW p \in Procs, PreparePorts(p) PROVE ShippedRuns'
  BY <1>6 DEF PreparePorts, Goto, Exit, GetEnv
<1>7. ASSUME NEW p \in Procs, Adopt(p) PROVE ShippedRuns'
  BY <1>7 DEF Adopt, Goto, GetEnv
<1>8. ASSUME NEW p \in Procs, RestoreRead(p) PROVE ShippedRuns'
  BY <1>8 DEF RestoreRead, Goto, Exit, GetEnv
<1>9. ASSUME NEW p \in Procs, Restore(p) PROVE ShippedRuns'
  BY <1>9 DEF Restore, Goto, GetEnv
<1>10. ASSUME NEW p \in Procs, UpdatePorts(p) PROVE ShippedRuns'
  BY <1>10 DEF UpdatePorts, Goto, GetEnv
<1>11. ASSUME NEW p \in Procs, PinRead(p) PROVE ShippedRuns'
  BY <1>11 DEF PinRead, Goto, Exit, GetEnv
<1>12. ASSUME NEW p \in Procs, PinWrite(p) PROVE ShippedRuns'
  BY <1>12 DEF PinWrite, Goto, GetEnv
<1>13. ASSUME NEW p \in Procs, WriteUnit(p) PROVE ShippedRuns'
  BY <1>13 DEF WriteUnit, Goto, HaltIf, GetEnv
<1>14. ASSUME NEW p \in Procs, Activate(p) PROVE ShippedRuns'
  <2>1. unitFile = mine[p] /\ (mine[p] = "container" => Declares(GetEnv(store["manifest"]), p))
    BY <1>14 DEF Activate, MemoryInv
  <2>2. mine[p] = "container" /\ running' # Down => running'.env = GetEnv(store["manifest"])
    BY <1>14, <2>1 DEF Activate, Boot, StoreOf
  <2> QED
    BY <1>14, <2>1, <2>2 DEF Activate, Goto, Declares, GetEnv
<1>15. ASSUME NEW p \in Procs, EnvRead(p) PROVE ShippedRuns'
  BY <1>15 DEF EnvRead, Goto, GetEnv
<1>16. ASSUME NEW p \in Procs, EnvWrite(p) PROVE ShippedRuns'
  BY <1>16 DEF EnvWrite, EnvSet, Goto, GetEnv
<1>17. ASSUME NEW p \in Procs, EnvCheck(p) PROVE ShippedRuns'
  BY <1>17 DEF EnvCheck, Goto, Exit, GetEnv
<1>18. ASSUME NEW p \in Procs, RestartCommand(p) PROVE ShippedRuns'
  BY <1>18 DEF RestartCommand, Goto, GetEnv
<1>19. ASSUME NEW p \in Procs, Bounce(p) PROVE ShippedRuns'
  BY <1>19 DEF Bounce, Goto, Boot, GetEnv
<1>20. ASSUME NEW p \in Procs, StartCommand(p) PROVE ShippedRuns'
  BY <1>20 DEF StartCommand, Goto, Boot, GetEnv
<1>21. ASSUME NEW p \in Procs, StopCommand(p) PROVE ShippedRuns'
  BY <1>21 DEF StopCommand, HaltIf, GetEnv
<1>22. ASSUME NEW p \in Procs, WaitEnds(p) PROVE ShippedRuns'
  BY <1>22 DEF WaitEnds, Goto, Exit, GetEnv
<1>23. ASSUME NEW p \in Procs, Fails(p) PROVE ShippedRuns'
  BY <1>23 DEF Fails, Goto, Exit
<1>28. ASSUME NEW p \in Procs, AdoptFails(p) PROVE ShippedRuns'
  BY <1>28 DEF AdoptFails, Goto, Exit
<1>29. ASSUME NEW p \in Procs, RestoreFails(p) PROVE ShippedRuns'
  BY <1>29 DEF RestoreFails, Goto, Exit
<1>30. ASSUME NEW p \in Procs, EnvWriteFails(p) PROVE ShippedRuns'
  BY <1>30 DEF EnvWriteFails, Goto, Exit
<1>24. ASSUME ComesUp PROVE ShippedRuns'
  BY <1>24 DEF ComesUp, GetEnv
<1>25. ASSUME StartFails PROVE ShippedRuns'
  BY <1>25 DEF StartFails, HaltIf, GetEnv
<1>26. ASSUME Respawn PROVE ShippedRuns'
  BY <1>26 DEF Respawn, Quiet, GetEnv
<1>27. CASE UNCHANGED vars
  BY <1>27 DEF vars, GetEnv
<1> QED
  BY <1>1, <1>2, <1>3, <1>4, <1>5, <1>6, <1>7, <1>8, <1>9, <1>10, <1>11, <1>12,
       <1>13, <1>14, <1>15, <1>16, <1>17, <1>18, <1>19, <1>20, <1>21, <1>22, <1>23,
       <1>24, <1>25, <1>26, <1>27, <1>28, <1>29, <1>30
  DEF Next, DeployNext, EnvNext, LifecycleNext, FailNext

(* The first state: an application gare app create left behind.            *)
LEMMA InitIInv ==
  ASSUME AppEnvAssumption, Alone, Init
  PROVE  IInv
<1> USE AppEnvAssumption DEF Init
<1>1. Empty \in Envs /\ Empty \in Changes /\ clone \in Envs \cup {NoFile}
  BY DEF AppEnvAssumption, Alone, Empty, Envs, Changes
<1>2. TypeOK
  BY <1>1 DEF TypeOK, Stores, Steps, AppEnvAssumption
<1>3. MemoryInv /\ StartInv /\ ShippedRuns /\ RunningInv
  BY DEF MemoryInv, StartInv, ShippedRuns, RunningInv
<1>4. StoreInv
  <2>1. store["manifest"] \in Envs \cup {NoFile}
    BY <1>1 DEF Stores, StoreOf
  <2>2. \A s \in Stores : \A env : Honours(s, env)
    BY DEF Honours, Heeds, Empty, AppEnvAssumption
  <2> QED
    BY <2>1, <2>2 DEF StoreInv, AppEnvAssumption
<1> QED
  BY <1>2, <1>3, <1>4 DEF IInv

(* The inductive invariant holds throughout when commands run one at a     *)
(* time and the repository's manifests have a container.                   *)
THEOREM Invariance == Alone => (Spec => []IInv)
<1> SUFFICES ASSUME Alone PROVE Spec => []IInv
  OBVIOUS
<1>1. Init => IInv
  BY InitIInv, AppEnvAssumption
<1>2. IInv /\ [Next]_vars => IInv'
  BY AppEnvAssumption, TypeStep, MemoryStep, StoreStep, RunningStep, StartStep,
       ShippedStep
    DEF IInv
<1>3. QED
  BY <1>1, <1>2, PTL DEF Spec

(* Every value keeps its type (all of AppEnv's state).                     *)
THEOREM TypeCorrect == Alone => (Spec => []TypeOK)
<1> SUFFICES ASSUME Alone PROVE Spec => []TypeOK
  OBVIOUS
<1>1. IInv => TypeOK
  BY DEF IInv
<1>2. QED
  BY <1>1, Invariance, PTL

(* When no command is at work, every variable set with gare env has its    *)
(* value in its store and every variable unset is absent: a deploy that    *)
(* adopts a manifest and is not cut off puts back what the old one held,   *)
(* and no other edit, failing write or kill forgets it (syncRepoManifest,  *)
(* SetEnv, UnsetEnv); an edit of the env file may leave less of a value.   *)
THEOREM VariableKeptHolds == Alone => (Spec => []VariableKept)
<1> SUFFICES ASSUME Alone PROVE Spec => []VariableKept
  OBVIOUS
<1>1. IInv => VariableKept
  BY DEF IInv, StoreInv, VariableKept, Quiet
<1>2. QED
  BY <1>1, Invariance, PTL

(* When no command is at work and none was cut off before its restart, an  *)
(* active workload was started with the values last set in the store it    *)
(* reads, which is the one gare env writes unless the last deploy changed  *)
(* the type and failed (resolveEnvStore, reloadIfActive).                  *)
THEOREM VariableRunsHolds == Alone => (Spec => []VariableRuns)
<1> SUFFICES ASSUME Alone PROVE Spec => []VariableRuns
  OBVIOUS
<1>1. IInv => VariableRuns
  BY DEF IInv, TypeOK, RunningInv, VariableRuns, Quiet, Apart
<1>2. QED
  BY <1>1, Invariance, PTL

(* A deploy starts a container with every variable the repository's        *)
(* manifest declares, at its value or at one that was there before         *)
(* (syncRepoManifest, EnsureLocalImagePullPolicy, deployApp).              *)
THEOREM ShippedRunsHolds == Alone => (Spec => []ShippedRuns)
<1> SUFFICES ASSUME Alone PROVE Spec => []ShippedRuns
  OBVIOUS
<1>1. IInv => ShippedRuns
  BY DEF IInv
<1>2. QED
  BY <1>1, Invariance, PTL
=============================================================================
