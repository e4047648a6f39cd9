----------------------------- MODULE MCStatistics -----------------------------
(* Statistics on small instances: swipes are interchangeable. *)
EXTENDS Statistics, TLC

Symmetry == Permutations(Swipes)
==============================================================================
