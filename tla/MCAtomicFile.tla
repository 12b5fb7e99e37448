---------------------------- MODULE MCAtomicFile ----------------------------
(* Instances of AtomicFile for TLC.                                        *)
EXTENDS AtomicFile, TLC

CallSymmetry == Permutations(Calls)
=============================================================================
