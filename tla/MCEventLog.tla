------------------------------ MODULE MCEventLog -----------------------------
(* EventLog on small instances: recorders and gates are interchangeable. *)
EXTENDS EventLog, TLC

Symmetry == Permutations(Recorders) \union Permutations(Gates)
==============================================================================
