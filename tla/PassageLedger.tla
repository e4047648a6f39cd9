----------------------------- MODULE PassageLedger -----------------------------
(***************************************************************************)
(* What the passenger statistics of a channel promise: every passage is    *)
(* added once, none is taken away, and after a restart the channels of the *)
(* registered gates start from the entries on file.                        *)
(***************************************************************************)
EXTENDS Naturals

CONSTANTS
  Gates,        \* the gates, each with a channel of its own
  Registered    \* those the registry knows

VARIABLES
  passed,       \* passed[g]: passengers on the account of g's channel
  onFile        \* onFile[g]: entry events of g on disk

vars == <<passed, onFile>>

Init == passed = [g \in Gates |-> 0] /\ onFile = [g \in Gates |-> 0]

Note(g) == onFile' = [onFile EXCEPT ![g] = @ + 1] /\ UNCHANGED passed

Pass(g) == passed' = [passed EXCEPT ![g] = @ + 1] /\ UNCHANGED onFile

Restart ==
  /\ passed' = [g \in Gates |-> IF g \in Registered THEN onFile[g] ELSE 0]
  /\ UNCHANGED onFile

Next == Restart \/ \E g \in Gates : Note(g) \/ Pass(g)

Spec == Init /\ [][Next]_vars
==============================================================================
