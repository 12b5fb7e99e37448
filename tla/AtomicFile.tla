----------------------------- MODULE AtomicFile -----------------------------
(***************************************************************************)
(* atomicfile.WriteFile, which every file gare keeps goes through          *)
(* (config.json, unit, manifest, env file, Caddy snippet, Caddyfile):      *)
(* temporary file beside the target, write, sync, rename, directory sync.  *)
(* Several calls, of several processes, may write one path at a time.      *)
(*                                                                         *)
(* The file system is external.  A call's temporary file is named by the   *)
(* call, and so is the content it writes.  What a crash leaves of a file   *)
(* that was not synced is Torn, and of the renames since the last          *)
(* directory sync a crash may keep any prefix.                             *)
(***************************************************************************)
EXTENDS Sequences, Naturals

CONSTANTS Calls,     \* the calls of WriteFile on the path
          Original   \* what the path names before the first of them

ASSUME FileAssumption == Original \notin Calls

VARIABLES
  pc,       \* pc[c]: the next step of call c, or how it ended
  content,  \* content[c]: of c's file, "none", "empty", "whole" or "torn"
  synced,   \* the calls whose file is on the disk as it is in the cache
  temps,    \* the temporary files in the directory
  names,    \* what the path named, from the last directory sync to now
  after     \* after[c]: the calls renamed after c (history)

vars == <<pc, content, synced, temps, names, after>>

Steps == {"create", "write", "sync", "rename", "syncDir", "remove"}
Ends  == {"ok", "error", "dead"}

TypeOK == /\ pc \in [Calls -> Steps \cup Ends]
          /\ content \in [Calls -> {"none", "empty", "whole", "torn"}]
          /\ synced \subseteq Calls /\ temps \subseteq Calls
          /\ names \in Seq(Calls \cup {Original}) /\ names # <<>>
          /\ after \in [Calls -> SUBSET Calls]

Init == /\ pc = [c \in Calls |-> "create"]
        /\ content = [c \in Calls |-> "none"]
        /\ synced = {} /\ temps = {}
        /\ names = <<Original>>
        /\ after = [c \in Calls |-> {}]

(* What a reader of the path opens.                                        *)
Visible == names[Len(names)]

At(c, step) == pc[c] = step
Goto(c, step) == pc' = [pc EXCEPT ![c] = step]

-----------------------------------------------------------------------------
(* MkdirAll and CreateTemp.                                                *)
CreateTemp(c) == /\ At(c, "create")
                 /\ temps' = temps \cup {c}
                 /\ content' = [content EXCEPT ![c] = "empty"]
                 /\ Goto(c, "write")
                 /\ UNCHANGED <<synced, names, after>>

(* Chmod and Write.                                                        *)
WriteData(c) == /\ At(c, "write")
                /\ content' = [content EXCEPT ![c] = "whole"]
                /\ Goto(c, "sync")
                /\ UNCHANGED <<synced, temps, names, after>>

(* Mutant of WriteFails: the number of bytes written is not looked at.     *)
ShortWrite(c) == /\ At(c, "write")
                 /\ content' = [content EXCEPT ![c] = "torn"]
                 /\ Goto(c, "sync")
                 /\ UNCHANGED <<synced, temps, names, after>>

(* Write stops in the middle.                                              *)
WriteFails(c) == /\ At(c, "write")
                 /\ content' \in {[content EXCEPT ![c] = k] : k \in {"empty", "torn"}}
                 /\ Goto(c, "remove")
                 /\ UNCHANGED <<synced, temps, names, after>>

(* Mutant of SyncData: the file is only closed.                            *)
CloseOnly(c) == At(c, "sync") /\ Goto(c, "rename") /\ UNCHANGED <<content, synced, temps, names, after>>

(* Sync and Close.                                                         *)
SyncData(c) == /\ At(c, "sync")
               /\ synced' = synced \cup {c}
               /\ Goto(c, "rename")
               /\ UNCHANGED <<content, temps, names, after>>

Rename(c) == /\ At(c, "rename")
             /\ names' = Append(names, c)
             /\ temps' = temps \ {c}
             /\ after' = [d \in Calls |-> IF pc[d] \in {"syncDir", "ok"}
                                          THEN after[d] \cup {c} ELSE after[d]]
             /\ Goto(c, "syncDir")
             /\ UNCHANGED <<content, synced>>

(* Mutant of SyncDirectory: the rename is taken to be safe by itself.      *)
ReturnUnsynced(c) == At(c, "syncDir") /\ Goto(c, "ok") /\ UNCHANGED <<content, synced, temps, names, after>>

(* Everything renamed so far is on the disk.                               *)
SyncDirectory(c) == /\ At(c, "syncDir")
                    /\ names' = <<Visible>>
                    /\ Goto(c, "ok")
                    /\ UNCHANGED <<content, synced, temps, after>>

(* The directory cannot be opened or synced: an error after the rename.    *)
SyncDirectoryFails(c) == /\ At(c, "syncDir")
                         /\ Goto(c, "error")
                         /\ UNCHANGED <<content, synced, temps, names, after>>

(* Mutant of StepFails: the error is returned at once.                     *)
FailAtOnce(c) == /\ pc[c] \in {"create", "sync", "rename"}
                 /\ Goto(c, "error")
                 /\ UNCHANGED <<content, synced, temps, names, after>>

(* CreateTemp, Sync, Close or Rename returns an error.                     *)
StepFails(c) == /\ pc[c] \in {"create", "sync", "rename"}
                /\ Goto(c, IF At(c, "create") THEN "error" ELSE "remove")
                /\ UNCHANGED <<content, synced, temps, names, after>>

(* os.Remove of the temporary file, then the joined errors.                *)
RemoveTemp(c) == /\ At(c, "remove")
                 /\ temps' = temps \ {c}
                 /\ Goto(c, "error")
                 /\ UNCHANGED <<content, synced, names, after>>

(* os.Remove fails too: its error is joined to the first, and the file     *)
(* stays beside the target.                                                *)
RemoveTempFails(c) == /\ At(c, "remove")
                      /\ Goto(c, "error")
                      /\ UNCHANGED <<content, synced, temps, names, after>>

(* One gare process is killed: its call stops where it is.                 *)
Kill(c) == /\ pc[c] \in Steps
           /\ Goto(c, "dead")
           /\ UNCHANGED <<content, synced, temps, names, after>>

(* The machine stops: every call does, the path names what it named at     *)
(* some time since the last directory sync, unsynced data is torn, and the *)
(* name of a temporary file whose rename was lost may be back.             *)
Crash == /\ pc' = [c \in Calls |-> IF pc[c] \in Steps \ {"create"} THEN "dead" ELSE pc[c]]
         /\ \E i \in 1..Len(names) :
              /\ names' = <<names[i]>>
              /\ temps' \in SUBSET (temps \cup {c \in Calls : \E j \in i+1..Len(names) : names[j] = c})
         /\ content' = [c \in Calls |-> IF content[c] = "none" \/ c \in synced
                                        THEN content[c] ELSE "torn"]
         /\ UNCHANGED <<synced, after>>

CallNext(c) == \/ CreateTemp(c) \/ WriteData(c) \/ WriteFails(c) \/ SyncData(c)
               \/ Rename(c) \/ SyncDirectory(c) \/ SyncDirectoryFails(c)
               \/ StepFails(c) \/ RemoveTemp(c) \/ RemoveTempFails(c) \/ Kill(c)

Next == (\E c \in Calls : CallNext(c)) \/ Crash

Spec == Init /\ [][Next]_vars
-----------------------------------------------------------------------------
(* Properties.                                                             *)

(* No file the path names, now or after a crash, is less than what some    *)
(* call wrote: the data is written and synced before the rename.           *)
NeverTorn == \A i \in 1..Len(names) : names[i] # Original =>
               content[names[i]] = "whole" /\ names[i] \in synced

(* Once a call returned nil no crash brings back what it replaced: the     *)
(* path names its file or that of a call renamed later.                    *)
AcknowledgedSurvives ==
  \A c \in Calls : At(c, "ok") => \A i \in 1..Len(names) : names[i] \in {c} \cup after[c]

(* A call that returns leaves its temporary file only if it asked for the  *)
(* removal and that failed as well: no other error path forgets it, and no *)
(* call that returns nil has one.                                          *)
NoLitter ==
  [][\A c \in Calls :
      pc[c] \in Steps /\ pc'[c] \in {"ok", "error"} /\ c \in temps'
        => pc[c] = "remove" /\ pc'[c] = "error"]_vars

-----------------------------------------------------------------------------
(* Refinement: a file read through the path is an atomic register.         *)

Value(n) == IF n = Original \/ content[n] = "whole" THEN n ELSE "torn"
AbsValues == [i \in 1..Len(names) |-> Value(names[i])]
AbsStatus == [c \in Calls |-> CASE pc[c] = "ok" -> "ok"
                                [] pc[c] = "error" -> "error"
                                [] pc[c] = "dead" -> "lost"
                                [] OTHER -> "new"]

AR == INSTANCE AtomicRegister WITH values <- AbsValues, status <- AbsStatus

(* Every behaviour of the files is one of the atomic register.             *)
ImplementsRegister == AR!Spec
=============================================================================
