---------------------------- MODULE MCAutomation ----------------------------
(* Instances of Automation for TLC.                                        *)
EXTENDS Automation, TLC

\* Both requests are analyses.
OneScope == [r \in Request |-> "analysis:write"]

Symmetry == Permutations(Call) \cup Permutations(Credential) \cup Permutations(Request)
=============================================================================
