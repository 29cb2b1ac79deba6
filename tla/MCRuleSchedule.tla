--------------------------- MODULE MCRuleSchedule ---------------------------
(* Instances of RuleSchedule for TLC.                                      *)
EXTENDS RuleSchedule, TLC

Symmetry == Permutations(Rule)
=============================================================================
