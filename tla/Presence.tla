------------------------------- MODULE Presence -------------------------------
(***************************************************************************)
(* What is promised of a gate's presence, however many writers its status  *)
(* has: it goes offline and comes back, and the start of an outage is put  *)
(* on record when the outage begins, kept while it lasts and struck out    *)
(* when it ends.                                                           *)
(***************************************************************************)
EXTENDS Naturals

CONSTANT Gates          \* the gates' identifiers

VARIABLES
  online,               \* online[g]: is gate g online?
  offlineSince          \* offlineSince[g]: the start of its outage, 0 if it is online

vars == <<online, offlineSince>>

Init ==
  /\ online = [g \in Gates |-> TRUE]
  /\ offlineSince = [g \in Gates |-> 0]

Turn(g, up, since) ==
  /\ online' = [online EXCEPT ![g] = up]
  /\ offlineSince' = [offlineSince EXCEPT ![g] = since]

GoOffline(g) ==
  /\ online[g]
  /\ offlineSince'[g] \in Nat \ {0}
  /\ Turn(g, FALSE, offlineSince'[g])

ComeOnline(g) ==
  /\ ~online[g]
  /\ Turn(g, TRUE, 0)

Next == \E g \in Gates : GoOffline(g) \/ ComeOnline(g)

Spec == Init /\ [][Next]_vars
==============================================================================
