------------------------------ MODULE MCAppEnv ------------------------------
(* Two variables and two values, the second the first in quotes; the       *)
(* repository ships no manifest, or one that declares the first variable.  *)
EXTENDS AppEnv

CONSTANTS v1, v2

MCClean == [v \in Values |-> v1]
MCShipped == {NoFile, Empty, [k \in Keys |-> IF k = 1 THEN v1 ELSE None]}
MCShippedBroken == {NoFile, Broken}
=============================================================================
