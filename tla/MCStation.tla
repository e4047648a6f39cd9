------------------------------ MODULE MCStation ------------------------------
(* Station on small instances: swipe handlers are interchangeable, and tickets. *)
EXTENDS Station, TLC

Symmetry == Permutations(Handlers) \union Permutations(Tickets)
==============================================================================
