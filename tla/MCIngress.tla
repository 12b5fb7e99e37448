----------------------------- MODULE MCIngress -----------------------------
(* Instances of Ingress for TLC.                                           *)
EXTENDS Ingress, TLC

(* One command at a time, on stacks that are not compose stacks.           *)
SoloScenes == [procs: {{p} : p \in Procs}, compose: {{}}, hosts: {Domains}, ports: {Ports},
               events: {{"clone", "edit"}}]

(* One command at a time, with files that cannot be saved or written.      *)
FaultScenes == [procs: {{p} : p \in Procs}, compose: {{a} : a \in {CHOOSE a \in Apps : TRUE}},
                hosts: {{d} : d \in Domains}, ports: {{8000, 8001}},
                events: {{"prepare", "save", "files", "reload", "restart"}}]

(* One command at a time, and a Caddyfile edited during a reload or given  *)
(* a line that passes for the import.                                      *)
EditScenes == [procs: {{p} : p \in Procs}, compose: {{}}, hosts: {{d} : d \in Domains},
               ports: {{8000, 8001}}, events: {{"edit", "race", "lookalike"}}]

(* Two commands at a time, one application a compose stack, with clones,   *)
(* reloads and restarts that fail; one hostname and two ports.             *)
PairScenes == [procs: {Procs}, compose: {{a} : a \in {CHOOSE a \in Apps : TRUE}},
               hosts: {{d} : d \in Domains}, ports: {{8000, 8001}},
               events: {{"clone", "reload", "restart"}}]

SoloAndPair == SoloScenes \cup FaultScenes \cup EditScenes \cup PairScenes

(* One compose stack, and nothing fails.                                   *)
StackScenes == [procs: {Procs}, compose: {Apps}, hosts: {Domains}, ports: {Ports},
                events: {{}}]

ProcAndDomSymmetry == Permutations(Procs) \cup Permutations(Domains)
=============================================================================
