----------------------------- MODULE GateMachine -----------------------------
(***************************************************************************)
(* What the gates promise, seen from outside the controller: each gate is  *)
(* a state machine of its own that cycles closed, opening, open, closing,  *)
(* an unfinished movement may fall back to closed, and no gate stays in a  *)
(* movement for ever.                                                      *)
(***************************************************************************)
CONSTANT Gates          \* the gates' identifiers

VARIABLE state          \* state[g]: the GateState of gate g

GateStates == {"closed", "opening", "open", "closing"}

Init == state = [g \in Gates |-> "closed"]

\* The pairs of the table allowedTransitions.
Allowed == {<<"closed", "opening">>, <<"opening", "open">>,
            <<"open", "closing">>, <<"closing", "closed">>}

Move(g, to) == state' = [state EXCEPT ![g] = to]

\* A transition of the table.
Step(g) == \E to \in GateStates : <<state[g], to>> \in Allowed /\ Move(g, to)

\* RecoverToClosed: an unfinished movement is undone.
Fallback(g) == state[g] \in {"opening", "closing"} /\ Move(g, "closed")

Next == \E g \in Gates : Step(g) \/ Fallback(g)

Spec == Init /\ [][Next]_state

\* Spec with its liveness: a movement is always ended.
LiveSpec == Spec /\ \A g \in Gates : []<>(state[g] \notin {"opening", "closing"})
==============================================================================
