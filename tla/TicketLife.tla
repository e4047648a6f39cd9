------------------------------ MODULE TicketLife ------------------------------
(***************************************************************************)
(* What a ticket promises, seen from outside the swipe handlers: one cycle *)
(* of unused, entered and exited, which its holder goes along with, step   *)
(* by step, through any number of restarts.  A ticket once disturbed       *)
(* promises nothing any more.                                              *)
(***************************************************************************)
CONSTANT Tickets        \* ticket numbers

VARIABLES
  life,                 \* life[t]: what is recorded of ticket t
  holder,               \* holder[t]: the holder of t is outside, inside or refused
  disturbed             \* the tickets whose swipes overlapped or were cut short

vars == <<life, holder, disturbed>>

Statuses == {"absent", "unused", "entered", "exited"}
Holders == {"outside", "inside", "refused"}

Init ==
  /\ life \in [Tickets -> Statuses]
  /\ holder \in [Tickets -> Holders]
  /\ \A t \in Tickets : holder[t] # "outside" <=> life[t] = "entered"
  /\ disturbed = {}

Recorded(t, from, to) == life[t] = from /\ life'[t] = to
Moved(t, from, to) == holder[t] = from /\ holder'[t] = to
Same(t) == holder'[t] = holder[t]
Out(t) == Moved(t, "outside", "outside")

Stay(t) == life'[t] = life[t] /\ Same(t)

Put(t) == Recorded(t, "absent", "unused") /\ Out(t)
MarkEntered(t) == Recorded(t, "unused", "entered") /\ Out(t)
LetIn(t) == Recorded(t, "entered", "entered") /\ Moved(t, "outside", "inside")
TurnAway(t) == Recorded(t, "entered", "entered") /\ Moved(t, "outside", "refused")
MarkExited(t) == Recorded(t, "entered", "exited") /\ Same(t) /\ holder[t] # "outside"
LetOut(t) ==
  /\ Recorded(t, "exited", "exited")
  /\ \E from \in {"inside", "refused"} : Moved(t, from, "outside")
ResetEntry(t) == Recorded(t, "exited", "unused") /\ Out(t)

\* A start may put several tickets, and a stop disturb several.
Next ==
  /\ disturbed \subseteq disturbed'
  /\ \A t \in Tickets \ disturbed' :
       \/ Stay(t) \/ Put(t)
       \/ MarkEntered(t) \/ LetIn(t) \/ TurnAway(t)
       \/ MarkExited(t) \/ LetOut(t) \/ ResetEntry(t)

Spec == Init /\ [][Next]_vars
==============================================================================
