----------------------------- MODULE MCHeartbeat -----------------------------
(* Heartbeat on small instances: request handlers are interchangeable. *)
EXTENDS Heartbeat, TLC

Symmetry == Permutations(Handlers)
==============================================================================
