--------------------------- MODULE MCSupervision ---------------------------
(* Instances of Supervision for TLC.                                       *)
EXTENDS Supervision, TLC

(* Compose and one of the others; one command at a time; one application.  *)
TwoTypes == {Compose, CHOOSE t \in Types : t # Compose}
OneProc == {{p} : p \in Procs}
OneApp == {{a} : a \in Apps}

(* Two commands at a time on two applications whose types do not change,   *)
(* with failing ingress and reloads, crashes and reboots.                  *)
PairScenes == [procs: {Procs}, apps: {Apps}, types: {TwoTypes},
               events: {{"ingress", "reload", "crash", "reboot"}}]

(* One command at a time on one application, with creates that fail and    *)
(* teardowns that leave something.                                         *)
DownScenes == [procs: OneProc, apps: OneApp, types: {TwoTypes},
               events: {{"ingress", "reload", "down", "create", "crash", "reboot"}}]

(* Two commands at a time on two applications whose types change, neither  *)
(* of them a compose stack.                                                *)
ChangeScenes == [procs: {Procs}, apps: {Apps}, types: {Types \ {Compose}},
                 events: {{"retype"}}]

(* One command at a time, and types that change: three types, ...          *)
QuietScenes == [procs: OneProc, apps: OneApp, types: {Types},
                events: {{"retype", "legacy", "down", "save", "reboot"}}]

(* ... two applications, ...                                               *)
SpreadScenes == [procs: OneProc, apps: {Apps}, types: {TwoTypes},
                 events: {{"retype", "legacy"}}]

(* ... stops that fail, ...                                                *)
StopScenes == [procs: OneProc, apps: OneApp, types: {TwoTypes},
               events: {{"retype", "legacy", "stop", "down", "save", "reboot"}}]

(* ... and every fault, but the reboot or what an older gare left.         *)
FaultScenes == [procs: OneProc, apps: OneApp, types: {TwoTypes},
                events: {AllEvents \ {"reboot"}, AllEvents \ {"legacy"}}]

AllScenes == PairScenes \cup DownScenes \cup ChangeScenes \cup QuietScenes
               \cup SpreadScenes \cup StopScenes \cup FaultScenes

ProcAndAppSymmetry == Permutations(Apps) \cup Permutations(Procs)
=============================================================================
