-------------------------- MODULE AtomicFileProofs --------------------------
(***************************************************************************)
(* For every set of calls on one path: no reader ever sees less than what  *)
(* some call wrote, what a call acknowledged survives every crash, and the *)
(* file is an atomic register.                                             *)
(***************************************************************************)
EXTENDS AtomicFile, TLAPS

(* A call that may rename has written and synced its file.                 *)
StageInv == \A c \in Calls :
  /\ pc[c] = "sync" => content[c] = "whole"
  /\ pc[c] \in {"rename", "syncDir", "ok"} => content[c] = "whole" /\ c \in synced

(* A call that has not renamed is not what the path names.                 *)
UnnamedInv == \A c \in Calls : pc[c] \in {"create", "write", "sync", "rename"} =>
                \A i \in 1..Len(names) : names[i] # c

(* Until the directory sync, the path names the call or one renamed later. *)
PendingInv == \A c \in Calls : At(c, "syncDir") => Visible \in {c} \cup after[c]

IInv == /\ TypeOK /\ StageInv /\ UnnamedInv /\ PendingInv
        /\ NeverTorn /\ AcknowledgedSurvives

-----------------------------------------------------------------------------
(* The path always names something.                                        *)
LEMMA VisibleType ==
  ASSUME TypeOK
  PROVE  Len(names) \in Nat \ {0} /\ Visible \in Calls \cup {Original}
BY DEF TypeOK, Visible

(* Every step keeps the types.                                             *)
LEMMA TypeStep ==
  ASSUME TypeOK, [Next]_vars
  PROVE  TypeOK'
<1> USE DEF TypeOK, At, Goto, Steps, Ends
<1>1. ASSUME NEW c \in Calls, CreateTemp(c) PROVE TypeOK'
  BY <1>1 DEF CreateTemp
<1>2. ASSUME NEW c \in Calls, WriteData(c) PROVE TypeOK'
  BY <1>2 DEF WriteData
<1>3. ASSUME NEW c \in Calls, WriteFails(c) PROVE TypeOK'
  BY <1>3 DEF WriteFails
<1>4. ASSUME NEW c \in Calls, SyncData(c) PROVE TypeOK'
  BY <1>4 DEF SyncData
<1>5. ASSUME NEW c \in Calls, Rename(c) PROVE TypeOK'
  <2>1. names' \in Seq(Calls \cup {Original}) /\ names' # <<>>
    BY <1>5 DEF Rename
  <2>2. after' \in [Calls -> SUBSET Calls]
    BY <1>5 DEF Rename
  <2>3. QED
    BY <1>5, <2>1, <2>2 DEF Rename
<1>6. ASSUME NEW c \in Calls, SyncDirectory(c) PROVE TypeOK'
  <2>1. names' \in Seq(Calls \cup {Original}) /\ names' # <<>>
    BY <1>6, VisibleType DEF SyncDirectory
  <2>2. QED
    BY <1>6, <2>1 DEF SyncDirectory
<1>7. ASSUME NEW c \in Calls, SyncDirectoryFails(c) PROVE TypeOK'
  BY <1>7 DEF SyncDirectoryFails
<1>8. ASSUME NEW c \in Calls, StepFails(c) PROVE TypeOK'
  BY <1>8 DEF StepFails
<1>9. ASSUME NEW c \in Calls, RemoveTemp(c) \/ RemoveTempFails(c) PROVE TypeOK'
  BY <1>9 DEF RemoveTemp, RemoveTempFails
<1>10. ASSUME NEW c \in Calls, Kill(c) PROVE TypeOK'
  BY <1>10 DEF Kill
<1>11. ASSUME Crash PROVE TypeOK'
  <2>1. names' \in Seq(Calls \cup {Original}) /\ names' # <<>>
    BY <1>11 DEF Crash
  <2>2. temps' \subseteq Calls
    BY <1>11 DEF Crash
  <2>3. QED
    BY <1>11, <2>1, <2>2 DEF Crash
<1>12. CASE UNCHANGED vars
  BY <1>12 DEF vars
<1>13. QED
  BY <1>1, <1>2, <1>3, <1>4, <1>5, <1>6, <1>7, <1>8, <1>9, <1>10, <1>11, <1>12
  DEF Next, CallNext

(* The steps that leave the directory alone.                               *)
LEMMA LocalStep ==
  ASSUME IInv, TypeOK', NEW c \in Calls,
         \/ CreateTemp(c) \/ WriteData(c) \/ WriteFails(c) \/ SyncData(c)
         \/ SyncDirectoryFails(c) \/ StepFails(c) \/ RemoveTemp(c) \/ RemoveTempFails(c)
         \/ Kill(c)
  PROVE  IInv'
<1> USE FileAssumption
    DEF IInv, TypeOK, StageInv, UnnamedInv, PendingInv, NeverTorn,
        AcknowledgedSurvives, Visible, At, Goto, Steps, Ends
<1>1. CASE CreateTemp(c)
  BY <1>1 DEF CreateTemp
<1>2. CASE WriteData(c)
  BY <1>2 DEF WriteData
<1>3. CASE WriteFails(c)
  BY <1>3 DEF WriteFails
<1>4. CASE SyncData(c)
  BY <1>4 DEF SyncData
<1>5. CASE SyncDirectoryFails(c)
  BY <1>5 DEF SyncDirectoryFails
<1>6. CASE StepFails(c)
  BY <1>6 DEF StepFails
<1>7. CASE RemoveTemp(c) \/ RemoveTempFails(c)
  BY <1>7 DEF RemoveTemp, RemoveTempFails
<1>8. CASE Kill(c)
  BY <1>8 DEF Kill
<1>9. QED
  BY <1>1, <1>2, <1>3, <1>4, <1>5, <1>6, <1>7, <1>8

(* A rename puts a whole, synced file behind the path, after all others.   *)
LEMMA RenameStep ==
  ASSUME IInv, TypeOK', NEW c \in Calls, Rename(c)
  PROVE  IInv'
<1> USE DEF IInv, TypeOK, At, Goto
<1>1. /\ Len(names') = Len(names) + 1 /\ names'[Len(names) + 1] = c
      /\ \A i \in 1..Len(names) : names'[i] = names[i]
  BY DEF Rename
<1>2. Len(names) \in Nat \ {0}
  BY VisibleType
<1>3. /\ pc[c] = "rename" /\ pc' = [pc EXCEPT ![c] = "syncDir"]
      /\ UNCHANGED <<content, synced>>
  BY DEF Rename
<1>4. \A d \in Calls : after'[d] = IF pc[d] \in {"syncDir", "ok"} THEN after[d] \cup {c} ELSE after[d]
  BY DEF Rename
<1>5. \A i \in 1..Len(names') : i \in 1..Len(names) \/ names'[i] = c
  BY <1>1, <1>2
<1>6. StageInv'
  BY <1>3 DEF StageInv
<1>7. UnnamedInv'
  BY <1>1, <1>3, <1>5 DEF UnnamedInv
<1>8. PendingInv'
  BY <1>1, <1>2, <1>3, <1>4 DEF PendingInv, Visible
<1>9. NeverTorn'
  BY <1>1, <1>3, <1>5 DEF NeverTorn, StageInv
<1>10. AcknowledgedSurvives'
  BY <1>1, <1>3, <1>4, <1>5 DEF AcknowledgedSurvives
<1>11. QED
  BY <1>6, <1>7, <1>8, <1>9, <1>10

(* A directory sync leaves the path one thing to name, for good.           *)
LEMMA SyncDirectoryStep ==
  ASSUME IInv, TypeOK', NEW c \in Calls, SyncDirectory(c)
  PROVE  IInv'
<1> USE DEF IInv, TypeOK, At, Goto
<1>1. /\ Len(names') = 1 /\ names'[1] = Visible
      /\ Visible = names[Len(names)] /\ Len(names) \in 1..Len(names)
  BY VisibleType DEF SyncDirectory, Visible
<1>2. /\ pc[c] = "syncDir" /\ pc' = [pc EXCEPT ![c] = "ok"]
      /\ UNCHANGED <<content, synced, after>>
  BY DEF SyncDirectory
<1>3. StageInv'
  BY <1>2 DEF StageInv
<1>4. UnnamedInv'
  BY <1>1, <1>2 DEF UnnamedInv
<1>5. PendingInv'
  BY <1>1, <1>2 DEF PendingInv, Visible
<1>6. NeverTorn'
  BY <1>1, <1>2 DEF NeverTorn
<1>7. AcknowledgedSurvives'
  BY <1>1, <1>2 DEF AcknowledgedSurvives, PendingInv
<1>8. QED
  BY <1>3, <1>4, <1>5, <1>6, <1>7

(* A crash keeps one of the files the path named since the last sync.      *)
LEMMA CrashStep ==
  ASSUME IInv, TypeOK', Crash
  PROVE  IInv'
<1> USE DEF IInv, TypeOK
<1>1. PICK i \in 1..Len(names) : names' = <<names[i]>>
  BY DEF Crash
<1>2. Len(names') = 1 /\ names'[1] = names[i]
  BY <1>1
<1>3. /\ \A c \in Calls : pc'[c] = IF pc[c] \in Steps \ {"create"} THEN "dead" ELSE pc[c]
      /\ \A c \in Calls : content'[c] = IF content[c] = "none" \/ c \in synced
                                        THEN content[c] ELSE "torn"
      /\ UNCHANGED <<synced, after>>
  BY DEF Crash
<1>4. StageInv'
  BY <1>3 DEF StageInv, Steps, Ends
<1>5. UnnamedInv'
  BY <1>2, <1>3 DEF UnnamedInv, Steps
<1>6. PendingInv'
  BY <1>3 DEF PendingInv, At, Steps
<1>7. NeverTorn'
  BY <1>2, <1>3 DEF NeverTorn
<1>8. AcknowledgedSurvives'
  BY <1>2, <1>3 DEF AcknowledgedSurvives, At, Steps
<1>9. QED
  BY <1>4, <1>5, <1>6, <1>7, <1>8

(* The inductive invariant holds throughout.                               *)
THEOREM Invariance == Spec => []IInv
<1>1. Init => IInv
  BY FileAssumption
  DEF Init, IInv, TypeOK, StageInv, UnnamedInv, PendingInv, NeverTorn,
      AcknowledgedSurvives, Visible, At, Steps, Ends
<1>2. ASSUME IInv, [Next]_vars PROVE IInv'
  <2>1. TypeOK'
    BY <1>2, TypeStep DEF IInv
  <2>2. CASE UNCHANGED vars
    BY <1>2, <2>2 DEF vars, IInv, TypeOK, StageInv, UnnamedInv, PendingInv,
       NeverTorn, AcknowledgedSurvives, Visible, At
  <2>3. QED
    BY <1>2, <2>1, <2>2, LocalStep, RenameStep, SyncDirectoryStep, CrashStep
    DEF Next, CallNext
<1>3. QED
  BY <1>1, <1>2, PTL DEF Spec

(* Every value keeps its type (the state of WriteFile and its directory).  *)
THEOREM TypeCorrect == Spec => []TypeOK
<1>1. IInv => TypeOK
  BY DEF IInv
<1>2. QED
  BY <1>1, Invariance, PTL

(* No reader of the path, before or after a crash, sees part of a write:   *)
(* WriteFile syncs the temporary file before it renames it.                *)
THEOREM NeverTornHolds == Spec => []NeverTorn
<1>1. IInv => NeverTorn
  BY DEF IInv
<1>2. QED
  BY <1>1, Invariance, PTL

(* What a call replaced never comes back once WriteFile returned nil:      *)
(* syncDirectory runs before the return.                                   *)
THEOREM AcknowledgedSurvivesHolds == Spec => []AcknowledgedSurvives
<1>1. IInv => AcknowledgedSurvives
  BY DEF IInv
<1>2. QED
  BY <1>1, Invariance, PTL

(* A call has a temporary file only between CreateTemp and its rename or   *)
(* removal.                                                                *)
TempsInv == \A c \in Calls : pc[c] \in {"create", "syncDir"} => c \notin temps

(* A crash gives back only names of files that had been renamed.           *)
LEMMA TempsStep ==
  ASSUME IInv, TempsInv, [Next]_vars
  PROVE  TempsInv'
<1> USE DEF IInv, TypeOK, TempsInv, At, Goto, Steps
<1>1. ASSUME NEW c \in Calls, CallNext(c) PROVE TempsInv'
  BY <1>1 DEF CallNext, CreateTemp, WriteData, WriteFails, SyncData, Rename, SyncDirectory,
     SyncDirectoryFails, StepFails, RemoveTemp, RemoveTempFails, Kill
<1>2. ASSUME Crash PROVE TempsInv'
  <2>1. PICK i \in 1..Len(names) :
          temps' \subseteq temps \cup {c \in Calls : \E j \in i+1..Len(names) : names[j] = c}
    BY <1>2 DEF Crash
  <2>2. \A c \in Calls : pc'[c] \in {"create", "syncDir"} => pc[c] = "create"
    BY <1>2 DEF Crash
  <2>3. \A c \in Calls, j \in i+1..Len(names) : pc[c] = "create" => names[j] # c
    BY DEF UnnamedInv
  <2>4. QED
    BY <2>1, <2>2, <2>3
<1>3. CASE UNCHANGED vars
  BY <1>3 DEF vars
<1>4. QED
  BY <1>1, <1>2, <1>3 DEF Next

(* A step that ends a call with its temporary file there is the removal's. *)
LEMMA LitterStep ==
  ASSUME IInv, TempsInv, [Next]_vars, NEW c \in Calls,
         pc[c] \in Steps, pc'[c] \in {"ok", "error"}, c \in temps'
  PROVE  pc[c] = "remove" /\ pc'[c] = "error"
<1> USE DEF IInv, TypeOK, TempsInv, At, Goto, Steps
<1>1. PICK d \in Calls : CallNext(d)
  BY DEF Next, vars, Crash
<1>2. d = c
  BY <1>1 DEF CallNext, CreateTemp, WriteData, WriteFails, SyncData, Rename, SyncDirectory,
     SyncDirectoryFails, StepFails, RemoveTemp, RemoveTempFails, Kill
<1>3. QED
  BY <1>1, <1>2 DEF CallNext, CreateTemp, WriteData, WriteFails, SyncData, Rename,
     SyncDirectory, SyncDirectoryFails, StepFails, RemoveTemp, RemoveTempFails, Kill

(* A WriteFile that returns nil has no temporary file in the directory,    *)
(* and one that returns an error has one only if os.Remove failed as well: *)
(* every error between the creation and the rename gets to the removal.    *)
THEOREM NoLitterHolds == Spec => NoLitter
<1>1. Init => TempsInv
  BY DEF Init, TempsInv
<1>2. IInv /\ TempsInv /\ [Next]_vars =>
        [\A c \in Calls :
          pc[c] \in Steps /\ pc'[c] \in {"ok", "error"} /\ c \in temps'
            => pc[c] = "remove" /\ pc'[c] = "error"]_vars
  BY LitterStep
<1>3. QED
  BY <1>1, <1>2, TempsStep, Invariance, PTL DEF Spec, NoLitter

-----------------------------------------------------------------------------
(* A step of the files seen as a step of the register.                     *)
LEMMA RefineStep ==
  ASSUME IInv, IInv', [Next]_vars
  PROVE  [AR!Next]_(AR!vars)
<1> USE DEF AR!Next, AR!vars
<1>1. AbsValues = names /\ AbsValues' = names'
  <2>1. \A i \in 1..Len(names) : Value(names[i]) = names[i]
    BY DEF IInv, NeverTorn, Value
  <2>2. \A i \in 1..Len(names') : Value(names[i])' = names'[i]
    BY DEF IInv, NeverTorn, Value
  <2>3. names \in Seq(Calls \cup {Original}) /\ names' \in Seq(Calls \cup {Original})
    BY DEF IInv, TypeOK
  <2>4. QED
    BY <2>1, <2>2, <2>3 DEF AbsValues
<1>2. pc \in [Calls -> Steps \cup Ends] /\ pc' \in [Calls -> Steps \cup Ends]
  BY DEF IInv, TypeOK
<1>3. ASSUME NEW c \in Calls, NEW s \in Steps, pc' = [pc EXCEPT ![c] = s], pc[c] \in Steps
      PROVE  AbsStatus' = AbsStatus
  BY <1>2, <1>3 DEF AbsStatus, Steps, Ends
<1>4. ASSUME NEW c \in Calls, pc[c] \in Steps,
             \/ pc' = [pc EXCEPT ![c] = "error"] \/ pc' = [pc EXCEPT ![c] = "dead"],
             UNCHANGED names
      PROVE  AR!GiveUp(c)
  <2>1. \/ AbsStatus' = [AbsStatus EXCEPT ![c] = "error"]
        \/ AbsStatus' = [AbsStatus EXCEPT ![c] = "lost"]
    BY <1>2, <1>4 DEF AbsStatus, Steps, Ends
  <2>2. AbsStatus[c] = "new"
    BY <1>4 DEF AbsStatus, Steps
  <2>3. QED
    BY <1>1, <1>4, <2>1, <2>2 DEF AR!GiveUp
<1>5. ASSUME NEW c \in Calls,
             CreateTemp(c) \/ WriteData(c) \/ WriteFails(c) \/ SyncData(c)
      PROVE  UNCHANGED <<AbsValues, AbsStatus>>
  BY <1>1, <1>3, <1>5
  DEF CreateTemp, WriteData, WriteFails, SyncData, At, Goto, Steps
<1>6. ASSUME NEW c \in Calls, Rename(c) PROVE AR!Write(c)
  <2>1. names' = Append(names, c) /\ AbsStatus' = AbsStatus
    BY <1>3, <1>6 DEF Rename, At, Goto, Steps
  <2>2. AbsStatus[c] = "new"
    BY <1>6 DEF AbsStatus, Rename, At
  <2>3. QED
    BY <1>1, <2>1, <2>2 DEF AR!Write
<1>7. ASSUME NEW c \in Calls, SyncDirectory(c) PROVE AR!Acknowledge(c)
  <2>1. AbsStatus[c] = "new" /\ AbsStatus' = [AbsStatus EXCEPT ![c] = "ok"]
    BY <1>2, <1>7 DEF AbsStatus, SyncDirectory, At, Goto, Steps, Ends
  <2>2. names' = <<Visible>>
    BY <1>7 DEF SyncDirectory
  <2>3. QED
    BY <1>1, <2>1, <2>2 DEF AR!Acknowledge, AR!Current, Visible
<1>8. ASSUME NEW c \in Calls, SyncDirectoryFails(c) \/ RemoveTemp(c) \/ RemoveTempFails(c) \/ Kill(c)
      PROVE  AR!GiveUp(c)
  BY <1>4, <1>8 DEF SyncDirectoryFails, RemoveTemp, RemoveTempFails, Kill, At, Goto, Steps
<1>9. ASSUME NEW c \in Calls, StepFails(c)
      PROVE  AR!GiveUp(c) \/ UNCHANGED <<AbsValues, AbsStatus>>
  <2>1. CASE At(c, "create")
    BY <1>4, <1>9, <2>1 DEF StepFails, At, Goto, Steps
  <2>2. CASE ~At(c, "create")
    BY <1>1, <1>3, <1>9, <2>2 DEF StepFails, At, Goto, Steps
  <2>3. QED
    BY <2>1, <2>2
<1>10. ASSUME Crash PROVE AR!Crash
  <2>1. PICK i \in 1..Len(names) : names' = <<names[i]>>
    BY <1>10 DEF Crash
  <2>2. \E i_1 \in 1..Len(AbsValues) : AbsValues' = <<AbsValues[i_1]>>
    BY <1>1, <2>1
  <2>3. DEFINE running == {c \in Calls : pc[c] \in Steps \ {"create"}}
  <2>4. running \in SUBSET {c \in Calls : AbsStatus[c] = "new"}
    BY DEF AbsStatus, Steps
  <2>5. AbsStatus' = [c \in Calls |-> IF c \in running THEN "lost" ELSE AbsStatus[c]]
    BY <1>2, <1>10 DEF AbsStatus, Crash, Steps, Ends
  <2>6. QED
    BY <2>2, <2>4, <2>5 DEF AR!Crash
<1>11. CASE UNCHANGED vars
  BY <1>1, <1>11 DEF vars, AbsStatus
<1>12. QED
  BY <1>5, <1>6, <1>7, <1>8, <1>9, <1>10, <1>11 DEF Next, CallNext

(* The files implement the atomic register, step by step.                  *)
THEOREM Refinement == Spec => ImplementsRegister
<1>1. Init => AR!Init
  BY FileAssumption DEF Init, AR!Init, AbsValues, AbsStatus, Value
<1>2. IInv /\ IInv' /\ [Next]_vars => [AR!Next]_(AR!vars)
  BY RefineStep
<1>3. QED
  BY <1>1, <1>2, Invariance, PTL DEF Spec, AR!Spec, ImplementsRegister
=============================================================================
