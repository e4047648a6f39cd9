---------------------------- MODULE MCRuleUpgrade ----------------------------
(* RuleUpgrade on small instances: upgraders are interchangeable. *)
EXTENDS RuleUpgrade, TLC

Symmetry == Permutations(Upgraders)
==============================================================================
