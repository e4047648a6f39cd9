------------------------------- MODULE Station -------------------------------
(***************************************************************************)
(* A swipe from request to answer (Handlers.Swipe): the ticket store, the  *)
(* gates and alarm.Manager together.  A handler takes the ticket first and *)
(* drives the gate afterwards, and nothing gives the ticket back.          *)
(*                                                                         *)
(* Ticketing has the dedup entries, files and restarts (here a swipe may   *)
(* be refused, and a write fail, at any time), GateControl the course of   *)
(* Open and Close (here an opening has a begin and an end, and what the    *)
(* scheduler does to a gate is one step), Statistics the events and        *)
(* counts.  Left out are the faults of a gate, the numbers and times of     *)
(* alarms, and their severity, which the kind decides.                     *)
(***************************************************************************)
EXTENDS Naturals

CONSTANTS
  Tickets,      \* the tickets swiped, all in the store
  Gates,        \* the gates
  Scheduled,    \* those with an entry in the scheduler's table
  Handlers,     \* goroutines serving swipes, each reused
  Faults,       \* whether actuators, sensors and writes of ticket files fail
  MaxSwipes     \* bound: swipes begun

ASSUME GatesAssumption == Scheduled \subseteq Gates
ASSUME FaultsAssumption == Faults \in BOOLEAN
ASSUME SwipesAssumption == MaxSwipes \in Nat

VARIABLES
  status,       \* status[t]: TicketRecord.Status
  station,      \* station[t]: TicketRecord.EntryStation, or "none"
  state,        \* state[g]: GateStatus.State
  alarms,       \* the keys of Manager.alarms, each a gate and a kind
  active,       \* those of the active alarms
  filed,        \* those of the alarms with a copy in Manager.history
  pc,           \* pc[d]: where handler d is
  ticket,       \* ticket[d]: the ticket it serves
  gate,         \* gate[d]: the gate it serves
  copy,         \* copy[d]: the status in the copy Lookup gave it
  cause,        \* cause[d]: kind of the alarm its failed opening raises
  swipes,       \* history: swipes begun
  inside,       \* history: tickets on which somebody was let in since they were accepted last
  lastExit,     \* lastExit[g]: history: how the last exit decided at g ended
  mixed         \* history: gates at which two exits were under way at once

store == <<status, station>>
manager == <<alarms, active, filed>>
handlers == <<pc, ticket, gate, copy, cause, swipes>>
past == <<inside, lastExit, mixed>>
vars == <<store, state, manager, handlers, past>>

Kinds == {"entry-rejected", "open-failed", "open-timeout", "exit-writeback-failed",
          "close-failed", "close-timeout"}
Keys == Gates \X Kinds
Exiting == {"exit", "confirm", "reset", "writeback", "resolve"}
Locations == {"idle", "entry", "reject", "open", "opening", "cause", "report"} \union Exiting

TypeOK ==
  /\ status \in [Tickets -> {"unused", "entered", "exited"}]
  /\ station \in [Tickets -> Gates \union {"none"}]
  /\ state \in [Gates -> {"closed", "opening", "open"}]
  /\ alarms \in SUBSET Keys
  /\ active \in SUBSET alarms
  /\ filed \in SUBSET alarms
  /\ pc \in [Handlers -> Locations]
  /\ ticket \in [Handlers -> Tickets]
  /\ gate \in [Handlers -> Gates]
  /\ copy \in [Handlers -> {"unused", "entered", "exited"}]
  /\ cause \in [Handlers -> {"open-failed", "open-timeout"}]
  /\ swipes \in Nat
  /\ inside \in SUBSET Tickets
  /\ lastExit \in [Gates -> {"none", "failed", "done"}]
  /\ mixed \in SUBSET Gates

Init ==
  /\ status = [t \in Tickets |-> "unused"]
  /\ station = [t \in Tickets |-> "none"]
  /\ state = [g \in Gates |-> "closed"]
  /\ alarms = {}
  /\ active = {}
  /\ filed = {}
  /\ pc = [d \in Handlers |-> "idle"]
  /\ ticket \in [Handlers -> Tickets]
  /\ gate \in [Handlers -> Gates]
  /\ copy = [d \in Handlers |-> "unused"]
  /\ cause = [d \in Handlers |-> "open-failed"]
  /\ swipes = 0
  /\ inside = {}
  /\ lastExit = [g \in Gates |-> "none"]
  /\ mixed = {}

\* The handler goes on; copy and cause have been read then.
Goto(d, l) ==
  /\ pc' = [pc EXCEPT ![d] = l]
  /\ copy' = [copy EXCEPT ![d] = "unused"]
  /\ cause' = [cause EXCEPT ![d] = "open-failed"]
  /\ UNCHANGED <<ticket, gate, swipes>>

\* Faulty: the alarm is not put into the map; an alarm resolved is not raised again.
RaiseUnstored(g, kind) == active' = active \union {<<g, kind>>} /\ UNCHANGED <<alarms, filed>>
RaiseOnce(g, kind) ==
  /\ alarms' = alarms \union {<<g, kind>>}
  /\ active' = active \union ({<<g, kind>>} \ alarms)
  /\ UNCHANGED filed

\* Manager.Raise; raising an active alarm changes nothing here.
Raise(g, kind) ==
  /\ alarms' = alarms \union {<<g, kind>>}
  /\ active' = active \union {<<g, kind>>}
  /\ UNCHANGED filed

\* Manager.Resolve: only an active alarm is resolved, and filed.
Resolve(g, kind) ==
  /\ active' = active \ {<<g, kind>>}
  /\ filed' = IF <<g, kind>> \in active THEN filed \union {<<g, kind>>} ELSE filed
  /\ UNCHANGED alarms

------------------------------------------------------------------------------
(* Entry. *)

\* A request, and the Lookup that begins HandleEntry and HandleExit.
Request(d, t, g, action) ==
  /\ pc[d] = "idle"
  /\ swipes < MaxSwipes
  /\ swipes' = swipes + 1
  /\ pc' = [pc EXCEPT ![d] = action]
  /\ ticket' = [ticket EXCEPT ![d] = t]
  /\ gate' = [gate EXCEPT ![d] = g]
  /\ copy' = [copy EXCEPT ![d] = status[t]]
  /\ mixed' = IF action = "exit" /\ \E e \in Handlers : pc[e] \in Exiting /\ gate[e] = g
              THEN mixed \union {g} ELSE mixed
  /\ UNCHANGED <<store, state, manager, cause, inside, lastExit>>

\* validateEntry refuses: for the copy's status, the dedup entry or the rule.
Refuse(d) ==
  /\ pc[d] = "entry"
  /\ Goto(d, "reject")
  /\ UNCHANGED <<store, state, manager, past>>

\* MarkEntered, in memory even if the file is not written, which refuses the swipe.
Accept(d, written) ==
  LET t == ticket[d] IN
  /\ pc[d] = "entry"
  /\ copy[d] = "unused"
  /\ written \/ Faults
  /\ status' = [status EXCEPT ![t] = "entered"]
  /\ station' = [station EXCEPT ![t] = gate[d]]
  /\ inside' = inside \ {t}
  /\ Goto(d, IF written THEN "open" ELSE "reject")
  /\ UNCHANGED <<state, manager, lastExit, mixed>>

\* HandleEntry's alarm; the swipe is answered with the error.
RaiseRejected(d) ==
  /\ pc[d] = "reject"
  /\ Raise(gate[d], "entry-rejected")
  /\ Goto(d, "idle")
  /\ UNCHANGED <<store, state, past>>

\* Open's first SetState: a gate that is not closed refuses.
BeginOpen(d) ==
  LET g == gate[d] IN
  /\ pc[d] = "open"
  /\ IF state[g] = "closed"
     THEN state' = [state EXCEPT ![g] = "opening"] /\ Goto(d, "opening")
     ELSE UNCHANGED state /\ Goto(d, "report")
  /\ UNCHANGED <<store, manager, past>>

\* Open succeeds and the passenger is answered that entry is allowed.
Opened(d) ==
  /\ pc[d] = "opening"
  /\ state' = [state EXCEPT ![gate[d]] = "open"]
  /\ inside' = inside \union {ticket[d]}
  /\ Goto(d, "idle")
  /\ UNCHANGED <<store, manager, lastExit, mixed>>

\* The scheduler closes the gate between Open's second SetState and its IsOpen: an
\* error without an alarm of Open's own.
OpenOvertaken(d) ==
  /\ pc[d] = "opening"
  /\ gate[d] \in Scheduled
  /\ state' = [state EXCEPT ![gate[d]] = "closed"]
  /\ Goto(d, "report")
  /\ UNCHANGED <<store, manager, past>>

\* The actuator fails or no confirmation comes: RecoverToClosed ...
OpenFails(d, kind) ==
  /\ Faults
  /\ pc[d] = "opening"
  /\ state' = [state EXCEPT ![gate[d]] = "closed"]
  /\ pc' = [pc EXCEPT ![d] = "cause"]
  /\ cause' = [cause EXCEPT ![d] = kind]
  /\ UNCHANGED <<store, manager, past, ticket, gate, copy, swipes>>

\* ... and Raise.
RaiseCause(d) ==
  /\ pc[d] = "cause"
  /\ Raise(gate[d], cause[d])
  /\ Goto(d, "report")
  /\ UNCHANGED <<store, state, past>>

\* Faulty: the alarm is left to Open.
ReportOnly(d) ==
  /\ pc[d] = "report"
  /\ Goto(d, "idle")
  /\ UNCHANGED <<store, state, manager, past>>

\* Swipe's own alarm for every error of Open; the swipe is answered with the error
\* and the ticket stays entered.
Report(d) ==
  /\ pc[d] = "report"
  /\ Raise(gate[d], "open-failed")
  /\ Goto(d, "idle")
  /\ UNCHANGED <<store, state, past>>

------------------------------------------------------------------------------
(* Exit, which moves no gate. *)

\* validateExit: the status of the copy, then MarkExited, in memory first.
Leave(d, written) ==
  LET t == ticket[d] IN
  /\ pc[d] = "exit"
  /\ written \/ Faults
  /\ IF copy[d] = "entered"
     THEN /\ status' = [status EXCEPT ![t] = "exited"]
          /\ inside' = inside \ {t}
          /\ Goto(d, IF written THEN "confirm" ELSE "reset")
     ELSE Goto(d, "reset") /\ UNCHANGED <<status, inside>>
  /\ UNCHANGED <<station, state, manager, lastExit, mixed>>

\* The second Lookup decides.
Confirm(d) ==
  LET done == status[ticket[d]] = "exited" IN
  /\ pc[d] = "confirm"
  /\ lastExit' = IF done THEN [lastExit EXCEPT ![gate[d]] = "done"] ELSE lastExit
  /\ Goto(d, IF done THEN "resolve" ELSE "reset")
  /\ UNCHANGED <<store, state, manager, inside, mixed>>

\* HandleExit after an error: ResetEntry ...
Reset(d) ==
  LET t == ticket[d] IN
  /\ pc[d] = "reset"
  /\ status' = [status EXCEPT ![t] = "unused"]
  /\ station' = [station EXCEPT ![t] = "none"]
  /\ inside' = inside \ {t}
  /\ lastExit' = [lastExit EXCEPT ![gate[d]] = "failed"]
  /\ Goto(d, "writeback")
  /\ UNCHANGED <<state, manager, mixed>>

\* ... and Raise.
RaiseWriteback(d) ==
  /\ pc[d] = "writeback"
  /\ Raise(gate[d], "exit-writeback-failed")
  /\ Goto(d, "idle")
  /\ UNCHANGED <<store, state, past>>

\* HandleExit after a completed exit.
ResolveWriteback(d) ==
  /\ pc[d] = "resolve"
  /\ Resolve(gate[d], "exit-writeback-failed")
  /\ Goto(d, "idle")
  /\ UNCHANGED <<store, state, past>>

------------------------------------------------------------------------------
(* The scheduler. *)

ScheduledOpen(g) ==
  /\ state[g] = "closed"
  /\ state' = [state EXCEPT ![g] = "open"]
  /\ UNCHANGED <<store, manager, handlers, past>>

ScheduledClose(g) ==
  /\ state[g] = "open"
  /\ state' = [state EXCEPT ![g] = "closed"]
  /\ UNCHANGED <<store, manager, handlers, past>>

\* Open or Close fails: the gate is taken to be closed.
ScheduleFails(g, kind) ==
  /\ Faults
  /\ state[g] = IF kind \in {"close-failed", "close-timeout"} THEN "open" ELSE "closed"
  /\ state' = [state EXCEPT ![g] = "closed"]
  /\ Raise(g, kind)
  /\ UNCHANGED <<store, handlers, past>>

Scheduler(g) ==
  \/ ScheduledOpen(g)
  \/ ScheduledClose(g)
  \/ \E kind \in {"open-failed", "open-timeout", "close-failed", "close-timeout"} :
       ScheduleFails(g, kind)

Entry(d) ==
  \/ Refuse(d)
  \/ \E written \in BOOLEAN : Accept(d, written)
  \/ RaiseRejected(d)
  \/ BeginOpen(d)
  \/ Opened(d)
  \/ OpenOvertaken(d)
  \/ \E kind \in {"open-failed", "open-timeout"} : OpenFails(d, kind)
  \/ RaiseCause(d)
  \/ Report(d)

Exit(d) ==
  \/ \E written \in BOOLEAN : Leave(d, written)
  \/ Confirm(d)
  \/ Reset(d)
  \/ RaiseWriteback(d)
  \/ ResolveWriteback(d)

Next ==
  \/ \E d \in Handlers, t \in Tickets, g \in Gates, action \in {"entry", "exit"} :
       Request(d, t, g, action)
  \/ \E d \in Handlers : Entry(d) \/ Exit(d)
  \/ \E g \in Scheduled : Scheduler(g)

Spec == Init /\ [][Next]_vars

------------------------------------------------------------------------------
(* Properties. *)

\* Somebody's entry on ticket t is under way: accepted, and not yet answered.
UnderWay(t) ==
  \E d \in Handlers : /\ ticket[d] = t
                     /\ pc[d] \in {"open", "opening", "cause", "report", "reject"}

Reported(g) == <<g, "open-failed">> \in active \/ <<g, "entry-rejected">> \in active

\* A ticket is taken before the gate is driven and not given back: whatever fails on
\* the way and however swipes overlap, an entered ticket belongs to somebody let in,
\* to a swipe under way, or to a failure that an active alarm of the gate where it
\* was taken reports.
EnteredExplained ==
  \A t \in Tickets : status[t] = "entered" =>
    t \in inside \/ UnderWay(t) \/ Reported(station[t])

\* The exit-writeback-failed alarm is one per gate, raised for one ticket and resolved
\* for another: it tells how the last exit at the gate ended, unless exits overlapped,
\* and if it has been resolved it is on file.
WritebackTellsLastExit ==
  \A g \in Gates :
    LET alarm == <<g, "exit-writeback-failed">> IN
    /\ alarm \in alarms \ active => alarm \in filed
    /\ \/ g \in mixed
       \/ \E d \in Handlers : gate[d] = g /\ pc[d] \in {"writeback", "resolve"}
       \/ alarm \in active <=> lastExit[g] = "failed"

\* BENZHI_README: a swipe that passes validation drives the gate to open.  Said of
\* state and disks that never fail.
ValidTicketOpens ==
  \A t \in Tickets : status[t] = "entered" => t \in inside \/ UnderWay(t)

==============================================================================
