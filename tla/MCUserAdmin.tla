---------------------------- MODULE MCUserAdmin ----------------------------
(* Instances of UserAdmin for TLC.                                         *)
EXTENDS UserAdmin, TLC

Symmetry == Permutations(User) \cup Permutations(Pw)
=============================================================================
