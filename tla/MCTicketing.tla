----------------------------- MODULE MCTicketing -----------------------------
(* Ticketing on small instances: swipe handlers are interchangeable. *)
EXTENDS Ticketing, TLC

Symmetry == Permutations(Swipers)
==============================================================================
