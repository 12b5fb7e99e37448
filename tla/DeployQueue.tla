---------------------------- MODULE DeployQueue ----------------------------
(***************************************************************************)
(* What the webhook daemon promises: an accepted delivery becomes one      *)
(* deploy job of its application, the jobs of one application run one at a *)
(* time, and a daemon that reports a clean stop has left no job behind.    *)
(***************************************************************************)
CONSTANTS Jobs,    \* the deliveries the daemon may accept
          Apps,    \* the applications they may name
          NoApp    \* the application of a job that was not accepted

VARIABLES job,      \* job[j]: "none", "queued", "running" or "done"
          owner,    \* owner[j]: the application job j deploys
          halted    \* "no", "clean" or "abrupt"

vars == <<job, owner, halted>>

Init == /\ job = [j \in Jobs |-> "none"]
        /\ owner = [j \in Jobs |-> NoApp]
        /\ halted = "no"

Accept(j, a) == /\ halted = "no"
                /\ job[j] = "none"
                /\ job' = [job EXCEPT ![j] = "queued"]
                /\ owner' = [owner EXCEPT ![j] = a]
                /\ UNCHANGED halted

Begin(j) == /\ halted = "no"
            /\ job[j] = "queued"
            /\ \A k \in Jobs : owner[k] = owner[j] => job[k] # "running"
            /\ job' = [job EXCEPT ![j] = "running"]
            /\ UNCHANGED <<owner, halted>>

Finish(j) == /\ halted = "no"
             /\ job[j] = "running"
             /\ job' = [job EXCEPT ![j] = "done"]
             /\ UNCHANGED <<owner, halted>>

HaltClean == /\ halted = "no"
             /\ \A j \in Jobs : job[j] \in {"none", "done"}
             /\ halted' = "clean"
             /\ UNCHANGED <<job, owner>>

HaltAbruptly == /\ halted = "no"
                /\ halted' = "abrupt"
                /\ UNCHANGED <<job, owner>>

Next == \/ \E j \in Jobs, a \in Apps : Accept(j, a)
        \/ \E j \in Jobs : Begin(j) \/ Finish(j)
        \/ HaltClean
        \/ HaltAbruptly

Spec == Init /\ [][Next]_vars
=============================================================================
