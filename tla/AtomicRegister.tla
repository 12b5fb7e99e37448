--------------------------- MODULE AtomicRegister ---------------------------
(***************************************************************************)
(* What a file written by gare promises its readers: its value is always   *)
(* one that some call wrote whole, a call that returns nil has made its    *)
(* value safe, and a crash loses at most the values nobody made safe.      *)
(***************************************************************************)
EXTENDS Sequences, Naturals

CONSTANTS Calls,    \* the writes, each named with the value it writes
          Original  \* the value before the first write

VARIABLES values,  \* the safe value, then those written since, in order
          status   \* status[c]: "new", "ok", "error" or "lost"

vars == <<values, status>>

Current == values[Len(values)]

Init == /\ values = <<Original>>
        /\ status = [c \in Calls |-> "new"]

Write(c) == /\ status[c] = "new"
            /\ values' = Append(values, c)
            /\ UNCHANGED status

(* The current value is made safe by a call that returns nil.              *)
Acknowledge(c) == /\ status[c] = "new"
                  /\ values' = <<Current>>
                  /\ status' = [status EXCEPT ![c] = "ok"]

(* The call returns an error, or its process is killed.                    *)
GiveUp(c) == /\ status[c] = "new"
             /\ status' \in {[status EXCEPT ![c] = how] : how \in {"error", "lost"}}
             /\ UNCHANGED values

(* The machine stops: one of the values survives, running calls do not.    *)
Crash == /\ \E i \in 1..Len(values) : values' = <<values[i]>>
         /\ \E running \in SUBSET {c \in Calls : status[c] = "new"} :
              status' = [c \in Calls |-> IF c \in running THEN "lost" ELSE status[c]]

Next == \/ \E c \in Calls : Write(c) \/ Acknowledge(c) \/ GiveUp(c)
        \/ Crash

Spec == Init /\ [][Next]_vars
=============================================================================
