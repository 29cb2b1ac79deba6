---------------------------- MODULE MCTaskCenter ----------------------------
(* Instances of TaskCenter for TLC.                                        *)
EXTENDS TaskCenter, TLC

Symmetry == Permutations(Rule)
=============================================================================
