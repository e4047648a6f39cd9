------------------------------- MODULE Schedule -------------------------------
(***************************************************************************)
(* The scheduler and its clock: entries that HTTP handlers add at any      *)
(* time, and the goroutine that copies them at a tick of its ticker and    *)
(* opens and closes gates by the copy, gate after gate.                    *)
(*                                                                         *)
(* Only the gates' rest states are told apart, and a call of Open or Close *)
(* is one step (GateControl has their course): it does nothing when the    *)
(* gate's state has become another one.  A Close that fails leaves the     *)
(* gate closed, for RecoverToClosed says so.                               *)
(***************************************************************************)
EXTENDS Naturals

CONSTANTS
  Gates,      \* the gates
  MaxTime,    \* bound: the clock stops here; the times of entries reach so far
  MaxAdds     \* bound: entries added

ASSUME MaxTimeAssumption == MaxTime \in Nat
ASSUME MaxAddsAssumption == MaxAdds \in Nat

VARIABLES
  now,        \* the clock
  entries,    \* entries[g]: ScheduleEntry of g; both times 0 if there is none
  state,      \* state[g]: "open" or "closed"
  pc,         \* where RunOnce is
  stamp,      \* its argument, the time of the tick
  copy,       \* its copy of entries
  todo,       \* the gates it has still to look at
  current,    \* the gate it works on
  adds,       \* history: entries added
  replaced    \* history: gates whose entry was replaced since the copy was made

vars == <<now, entries, state, pc, stamp, copy, todo, current, adds, replaced>>
run == <<pc, stamp, copy, todo, current>>

Times == 0 .. MaxTime

\* ScheduleEntry; a time of 0 is none.
Entry == [openAt : Times, closeAt : Times]
NoEntry == [openAt |-> 0, closeAt |-> 0]

TypeOK ==
  /\ now \in Times
  /\ entries \in [Gates -> Entry]
  /\ state \in [Gates -> {"open", "closed"}]
  /\ pc \in {"idle", "look", "open", "close"}
  /\ stamp \in Times
  /\ copy \in [Gates -> Entry]
  /\ todo \in SUBSET Gates
  /\ current \in Gates
  /\ adds \in Nat
  /\ replaced \in SUBSET Gates

Init ==
  /\ now \in Times
  /\ entries = [g \in Gates |-> NoEntry]
  /\ state = [g \in Gates |-> "closed"]
  /\ pc = "idle"
  /\ stamp = 0
  /\ copy = [g \in Gates |-> NoEntry]
  /\ todo = {}
  /\ current \in Gates
  /\ adds = 0
  /\ replaced = {}

Pass ==
  /\ now < MaxTime
  /\ now' = now + 1
  /\ UNCHANGED <<entries, state, run, adds, replaced>>

\* Faulty: the times are taken from now on.
AddRelative(g, e) ==
  /\ adds < MaxAdds
  /\ adds' = adds + 1
  /\ entries' = [entries EXCEPT ![g] = [openAt |-> now + e.openAt, closeAt |-> now + e.closeAt]]
  /\ replaced' = IF pc = "idle" THEN replaced ELSE replaced \union {g}
  /\ UNCHANGED <<now, state, run>>

\* AddSchedule: the entry of a gate is replaced, whatever RunOnce is doing.
Add(g, e) ==
  /\ adds < MaxAdds
  /\ adds' = adds + 1
  /\ entries' = [entries EXCEPT ![g] = e]
  /\ replaced' = IF pc = "idle" THEN replaced ELSE replaced \union {g}
  /\ UNCHANGED <<now, state, run>>

\* A swipe opens the gate; nothing but the scheduler ever closes one.
SwipeOpens(g) ==
  /\ state[g] = "closed"
  /\ state' = [state EXCEPT ![g] = "open"]
  /\ UNCHANGED <<now, entries, run, adds, replaced>>

\* A tick: RunOnce copies the entries under its lock.
StartRun ==
  /\ pc = "idle"
  /\ stamp' = now
  /\ copy' = entries
  /\ todo' = Gates
  /\ pc' = "look"
  /\ replaced' = {}
  /\ UNCHANGED <<now, entries, state, current, adds>>

\* Faulty: the entry is due one second early.
DueEarly(time) == time > 0 /\ stamp + 1 >= time
Due(time) == time > 0 /\ stamp >= time

\* Faulty: the wrong state is asked for.
DecisionSwapped(g) ==
  IF Due(copy[g].openAt) /\ state[g] = "open" THEN "open"
  ELSE IF Due(copy[g].closeAt) /\ state[g] = "open" THEN "close"
  ELSE "look"

\* One read of the state decides both conditions.
Decision(g) ==
  IF Due(copy[g].openAt) /\ state[g] # "open" THEN "open"
  ELSE IF Due(copy[g].closeAt) /\ state[g] = "open" THEN "close"
  ELSE "look"

Look(g) ==
  /\ pc = "look"
  /\ g \in todo
  /\ todo' = todo \ {g}
  /\ current' = g
  /\ pc' = Decision(g)
  /\ UNCHANGED <<now, entries, state, stamp, copy, adds, replaced>>

\* Controller.Open: the gate is open afterwards, whoever opened it ...
Open ==
  /\ pc = "open"
  /\ state' = [state EXCEPT ![current] = "open"]
  /\ pc' = "look"
  /\ UNCHANGED <<now, entries, stamp, copy, todo, current, adds, replaced>>

\* ... or the opening fails, and RunOnce drops the error.
OpenFails ==
  /\ pc = "open"
  /\ pc' = "look"
  /\ UNCHANGED <<now, entries, state, stamp, copy, todo, current, adds, replaced>>

\* Controller.Close, confirmed or recovered.
Close ==
  /\ pc = "close"
  /\ state' = [state EXCEPT ![current] = "closed"]
  /\ pc' = "look"
  /\ UNCHANGED <<now, entries, stamp, copy, todo, current, adds, replaced>>

EndRun ==
  /\ pc = "look"
  /\ todo = {}
  /\ pc' = "idle"
  /\ UNCHANGED <<now, entries, state, stamp, copy, todo, current, adds, replaced>>

RunOnce ==
  \/ StartRun
  \/ \E g \in Gates : Look(g)
  \/ Open
  \/ OpenFails
  \/ Close
  \/ EndRun

Next ==
  \/ Pass
  \/ \E g \in Gates, e \in Entry : Add(g, e)
  \/ \E g \in Gates : SwipeOpens(g)
  \/ RunOnce

Spec == Init /\ [][Next]_vars

\* The ticker fires again and again, the clock goes on, and a gate opened again and
\* again by the scheduler opens at some time.  No swipe and no entry need ever come.
FairSpec ==
  /\ Spec
  /\ WF_vars(Pass)
  /\ WF_vars(RunOnce)
  /\ \A g \in Gates : SF_vars(current = g /\ Open)

------------------------------------------------------------------------------
(* Properties. *)

\* The gate the scheduler moves is due by the clock and by its entry, an entry
\* replaced during the run excepted: a decision made from the copy and an earlier
\* state is never acted on for another gate, and never early.
MovesWhenDue ==
  [][\A g \in Gates : pc \in {"open", "close"} /\ state'[g] # state[g] /\ pc' # pc =>
       /\ g = current
       /\ g \in replaced \/ LET due == IF state'[g] = "open" THEN entries[g].openAt
                                                          ELSE entries[g].closeAt
                            IN  0 < due /\ due <= now]_vars

OpenDue(g) == 0 < entries[g].openAt /\ entries[g].openAt <= now
CloseDue(g) == 0 < entries[g].closeAt /\ entries[g].closeAt <= now

\* Once its closing time has passed a gate is closed again and again, however often
\* swipes and its own entry open it.
DueGateCloses == \A g \in Gates : <>[]CloseDue(g) => []<>(state[g] = "closed")

\* Once its opening time has passed a gate is opened again and again: one without a
\* closing time stays open, one whose closing time has passed too never settles.
DueGateOpens ==
  \A g \in Gates : <>[]OpenDue(g) =>
    /\ []<>(state[g] = "open")
    /\ <>[](entries[g].closeAt = 0) => <>[](state[g] = "open")

==============================================================================
