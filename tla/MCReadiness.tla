---------------------------- MODULE MCReadiness ----------------------------
(* The instance of Readiness TLC checks.                                   *)
EXTENDS Readiness
=============================================================================
