----------------------------- MODULE StationProofs -----------------------------
(* Theorems about Station, for any tickets, gates, handlers and bound. *)
EXTENDS Station, TLAPS

\* Every variable keeps to its type.
THEOREM TypeCorrect == Spec => []TypeOK
<1>1. Init => TypeOK
  BY DEF Init, TypeOK, Kinds, Locations
<1>2. TypeOK /\ [Next]_vars => TypeOK'
  <2> SUFFICES ASSUME TypeOK, [Next]_vars
               PROVE  TypeOK'
    OBVIOUS
  <2> USE DEF TypeOK, Goto, store, manager, handlers, past
  <2>1. ASSUME NEW d \in Handlers, NEW t \in Tickets, NEW g \in Gates,
               NEW action \in {"entry", "exit"}, Request(d, t, g, action)
        PROVE  TypeOK'
    BY <2>1 DEF Request, Locations, Exiting
  <2>2. ASSUME NEW d \in Handlers, Entry(d)
        PROVE  TypeOK'
    <3>1. CASE Refuse(d)
      BY <3>1 DEF Refuse, Locations, Kinds
    <3>2. ASSUME NEW written \in BOOLEAN, Accept(d, written)
          PROVE  TypeOK'
      BY <3>2 DEF Accept, Locations, Kinds
    <3>3. CASE RaiseRejected(d) \/ RaiseCause(d) \/ Report(d)
      BY <3>3 DEF RaiseRejected, RaiseCause, Report, Raise, Locations, Kinds, Keys
    <3>4. CASE BeginOpen(d) \/ Opened(d) \/ OpenOvertaken(d)
      BY <3>4 DEF BeginOpen, Opened, OpenOvertaken, Locations, Kinds
    <3>5. ASSUME NEW kind \in {"open-failed", "open-timeout"}, OpenFails(d, kind)
          PROVE  TypeOK'
      BY <3>5 DEF OpenFails, Locations, Kinds
    <3> QED
      BY <2>2, <3>1, <3>2, <3>3, <3>4, <3>5 DEF Entry
  <2>3. ASSUME NEW d \in Handlers, Exit(d)
        PROVE  TypeOK'
    <3>1. ASSUME NEW written \in BOOLEAN, Leave(d, written)
          PROVE  TypeOK'
      BY <3>1 DEF Leave, Locations, Exiting, Kinds
    <3>2. CASE Confirm(d)
      BY <3>2 DEF Confirm, Locations, Exiting, Kinds
    <3>3. CASE Reset(d)
      BY <3>3 DEF Reset, Locations, Exiting, Kinds
    <3>4. CASE RaiseWriteback(d)
      BY <3>4 DEF RaiseWriteback, Raise, Locations, Kinds, Keys
    <3>5. CASE ResolveWriteback(d)
      BY <3>5 DEF ResolveWriteback, Resolve, Locations, Kinds, Keys
    <3> QED
      BY <2>3, <3>1, <3>2, <3>3, <3>4, <3>5 DEF Exit
  <2>4. ASSUME NEW g \in Gates, Scheduler(g)
        PROVE  TypeOK'
    <3>1. CASE ScheduledOpen(g) \/ ScheduledClose(g)
      BY <3>1 DEF ScheduledOpen, ScheduledClose
    <3>2. ASSUME NEW kind \in {"open-failed", "open-timeout", "close-failed", "close-timeout"},
                 ScheduleFails(g, kind)
          PROVE  TypeOK'
      BY <3>2 DEF ScheduleFails, Raise, Kinds, Keys
    <3> QED
      BY <2>4, <3>1, <3>2 DEF Scheduler
  <2>5. CASE UNCHANGED vars
    BY <2>5 DEF vars
  <2> QED
    BY <2>1, <2>2, <2>3, <2>4, <2>5, GatesAssumption DEF Next
<1> QED
  BY <1>1, <1>2, PTL DEF Spec

------------------------------------------------------------------------------
(* Entered tickets.  The swipe under way that explains one is at the gate   *)
(* of the record, or its alarm would be of another gate.                    *)

Taking(d, t) ==
  /\ ticket[d] = t
  /\ pc[d] \in {"open", "opening", "cause", "report", "reject"}

Explained(t) ==
  status[t] = "entered" =>
    \/ t \in inside
    \/ \E d \in Handlers : Taking(d, t) /\ gate[d] = station[t]
    \/ station[t] \in Gates /\ Reported(station[t])

\* A step that leaves t's record alone and the alarms active keeps the explanation,
\* but for the handler that was it.
LEMMA ExplainedKept ==
  ASSUME TypeOK, NEW t \in Tickets, Explained(t), NEW d \in Handlers,
         status'[t] = status[t], station'[t] = station[t], t \in inside => t \in inside',
         \A g \in Gates : Reported(g) => Reported(g)',
         \A e \in Handlers \ {d} : pc'[e] = pc[e] /\ ticket'[e] = ticket[e] /\ gate'[e] = gate[e],
         Taking(d, t) /\ gate[d] = station[t] =>
           \/ t \in inside'
           \/ Taking(d, t)' /\ gate'[d] = station'[t]
           \/ gate'[d] = gate[d] /\ Reported(gate[d])'
  PROVE  Explained(t)'
<1>1. CASE t \in inside
  BY <1>1 DEF Explained
<1>2. CASE station[t] \in Gates /\ Reported(station[t])
  <2>1. Reported(station[t])'
    BY <1>2
  <2> QED
    BY <1>2, <2>1 DEF Explained, Reported
<1>3. ASSUME NEW e \in Handlers, Taking(e, t), gate[e] = station[t], e # d
      PROVE  Explained(t)'
  BY <1>3 DEF Explained, Taking
<1>4. CASE Taking(d, t) /\ gate[d] = station[t]
  <2>1. gate[d] \in Gates
    BY DEF TypeOK
  <2>2. ASSUME gate'[d] = gate[d], Reported(gate[d])'
        PROVE  Explained(t)'
    BY <1>4, <2>1, <2>2 DEF Explained, Reported
  <2>3. ASSUME Taking(d, t)', gate'[d] = station'[t]
        PROVE  Explained(t)'
    BY <2>3 DEF Explained
  <2>4. CASE t \in inside'
    BY <2>4 DEF Explained
  <2> QED
    BY <1>4, <2>2, <2>3, <2>4
<1>5. CASE status[t] # "entered"
  BY <1>5 DEF Explained
<1> QED
  BY <1>1, <1>2, <1>3, <1>4, <1>5 DEF Explained

\* Raising an alarm takes back none, nor does resolving one of exit-writeback-failed.
LEMMA ReportsStay ==
  ASSUME TypeOK, NEW g \in Gates, NEW kind \in Kinds,
         Raise(g, kind) \/ Resolve(g, "exit-writeback-failed") \/ UNCHANGED active
  PROVE  \A h \in Gates : Reported(h) => Reported(h)'
BY DEF Raise, Resolve, Reported

LEMMA ExplainedStep ==
  ASSUME TypeOK, [Next]_vars, NEW t \in Tickets, Explained(t)
  PROVE  Explained(t)'
<1> USE DEF TypeOK, Goto, store, manager, handlers, past
<1>1. ASSUME NEW d \in Handlers, NEW u \in Tickets, NEW g \in Gates,
             NEW action \in {"entry", "exit"}, Request(d, u, g, action)
      PROVE  Explained(t)'
  BY <1>1, ExplainedKept DEF Request, Taking, Reported
<1>2. ASSUME NEW d \in Handlers, Entry(d)
      PROVE  Explained(t)'
  <2>1. CASE Refuse(d)
    BY <2>1, ExplainedKept DEF Refuse, Taking, Reported
  <2>2. ASSUME NEW written \in BOOLEAN, Accept(d, written)
        PROVE  Explained(t)'
    <3>1. CASE t = ticket[d]
      BY <2>2, <3>1 DEF Accept, Explained, Taking
    <3>2. CASE t # ticket[d]
      BY <2>2, <3>2, ExplainedKept DEF Accept, Taking, Reported
    <3> QED
      BY <3>1, <3>2
  <2>3. CASE RaiseRejected(d)
    <3>1. \A h \in Gates : Reported(h) => Reported(h)'
      BY <2>3, ReportsStay DEF RaiseRejected, Kinds
    <3>2. Reported(gate[d])'
      BY <2>3 DEF RaiseRejected, Raise, Reported
    <3> QED
      BY <2>3, <3>1, <3>2, ExplainedKept DEF RaiseRejected
  <2>4. CASE RaiseCause(d)
    <3>1. \A h \in Gates : Reported(h) => Reported(h)'
      BY <2>4, ReportsStay DEF RaiseCause, Kinds
    <3> QED
      BY <2>4, <3>1, ExplainedKept DEF RaiseCause, Taking
  <2>5. CASE Report(d)
    <3>1. \A h \in Gates : Reported(h) => Reported(h)'
      BY <2>5, ReportsStay DEF Report, Kinds
    <3>2. Reported(gate[d])'
      BY <2>5 DEF Report, Raise, Reported
    <3> QED
      BY <2>5, <3>1, <3>2, ExplainedKept DEF Report
  <2>6. CASE BeginOpen(d)
    <3>1. UNCHANGED <<status, station, inside, active, ticket, gate>>
      BY <2>6 DEF BeginOpen
    <3>2. pc' = [pc EXCEPT ![d] = "opening"] \/ pc' = [pc EXCEPT ![d] = "report"]
      BY <2>6 DEF BeginOpen
    <3> QED
      BY <3>1, <3>2, ExplainedKept DEF Taking, Reported
  <2>7. CASE Opened(d)
    BY <2>7, ExplainedKept DEF Opened, Taking, Reported
  <2>8. CASE OpenOvertaken(d)
    BY <2>8, ExplainedKept DEF OpenOvertaken, Taking, Reported
  <2>9. ASSUME NEW kind \in {"open-failed", "open-timeout"}, OpenFails(d, kind)
        PROVE  Explained(t)'
    BY <2>9, ExplainedKept DEF OpenFails, Taking, Reported
  <2> QED
    BY <1>2, <2>1, <2>2, <2>3, <2>4, <2>5, <2>6, <2>7, <2>8, <2>9 DEF Entry
<1>3. ASSUME NEW d \in Handlers, Exit(d)
      PROVE  Explained(t)'
  <2>1. ASSUME NEW written \in BOOLEAN, Leave(d, written)
        PROVE  Explained(t)'
    <3>1. CASE t = ticket[d] /\ copy[d] = "entered"
      BY <2>1, <3>1 DEF Leave, Explained
    <3>2. CASE ~(t = ticket[d] /\ copy[d] = "entered")
      <4>1. UNCHANGED <<station, active, ticket, gate>>
        BY <2>1 DEF Leave
      <4>2. status'[t] = status[t] /\ (t \in inside => t \in inside')
        BY <2>1, <3>2 DEF Leave
      <4>3. ~Taking(d, t) /\ \A e \in Handlers \ {d} : pc'[e] = pc[e]
        BY <2>1 DEF Leave, Taking
      <4> QED
        BY <4>1, <4>2, <4>3, ExplainedKept DEF Reported
    <3> QED
      BY <3>1, <3>2
  <2>2. CASE Confirm(d)
    BY <2>2, ExplainedKept DEF Confirm, Taking, Reported
  <2>3. CASE Reset(d)
    <3>1. CASE t = ticket[d]
      BY <2>3, <3>1 DEF Reset, Explained
    <3>2. CASE t # ticket[d]
      BY <2>3, <3>2, ExplainedKept DEF Reset, Taking, Reported
    <3> QED
      BY <3>1, <3>2
  <2>4. CASE RaiseWriteback(d)
    <3>1. \A h \in Gates : Reported(h) => Reported(h)'
      BY <2>4, ReportsStay DEF RaiseWriteback, Kinds
    <3> QED
      BY <2>4, <3>1, ExplainedKept DEF RaiseWriteback, Taking
  <2>5. CASE ResolveWriteback(d)
    <3>1. \A h \in Gates : Reported(h) => Reported(h)'
      BY <2>5, ReportsStay DEF ResolveWriteback, Kinds
    <3> QED
      BY <2>5, <3>1, ExplainedKept DEF ResolveWriteback, Taking
  <2> QED
    BY <1>3, <2>1, <2>2, <2>3, <2>4, <2>5 DEF Exit
<1>4. ASSUME NEW g \in Gates, Scheduler(g)
      PROVE  Explained(t)'
  <2>1. UNCHANGED <<store, handlers, past>>
    BY <1>4 DEF Scheduler, ScheduledOpen, ScheduledClose, ScheduleFails
  <2>2. \A h \in Gates : Reported(h) => Reported(h)'
    <3>1. CASE UNCHANGED active
      BY <3>1 DEF Reported
    <3>2. CASE \E kind \in Kinds : Raise(g, kind)
      BY <3>2, ReportsStay
    <3> QED
      BY <1>4, <3>1, <3>2 DEF Scheduler, ScheduledOpen, ScheduledClose, ScheduleFails, Kinds
  <2> QED
    BY <2>1, <2>2 DEF Explained, Taking
<1>5. CASE UNCHANGED vars
  BY <1>5 DEF vars, Explained, Taking, Reported
<1> QED
  BY <1>1, <1>2, <1>3, <1>4, <1>5, GatesAssumption DEF Next

\* Whatever fails and however swipes overlap, a ticket that is entered has been used
\* to let somebody in, is being used, or its gate has an active alarm.
THEOREM Entered == Spec => []EnteredExplained
<1> DEFINE Inv == \A t \in Tickets : Explained(t)
<1>1. Init => Inv
  BY DEF Init, Explained
<1>2. TypeOK /\ Inv /\ [Next]_vars => Inv'
  BY ExplainedStep
<1>3. Inv => EnteredExplained
  BY DEF Explained, Taking, EnteredExplained, UnderWay
<1> HIDE DEF Inv
<1> QED
  BY <1>1, <1>2, <1>3, TypeCorrect, PTL DEF Spec

------------------------------------------------------------------------------
(* The exit-writeback-failed alarm.  Where exits have not overlapped there  *)
(* is one handler at most between its request and its alarm call, and the   *)
(* history of the last exit is its own.                                     *)

Writeback(g) == <<g, "exit-writeback-failed">>
ExitsAt(d, g) == gate[d] = g /\ pc[d] \in Exiting

Alone(g) ==
  g \notin mixed => \A d, e \in Handlers : ExitsAt(d, g) /\ ExitsAt(e, g) => d = e

Decided(g) ==
  g \notin mixed => \A d \in Handlers : gate[d] = g =>
    /\ pc[d] = "writeback" => lastExit[g] = "failed"
    /\ pc[d] = "resolve" => lastExit[g] = "done"

Deciding(g) == \E d \in Handlers : gate[d] = g /\ pc[d] \in {"writeback", "resolve"}

Tells(g) ==
  /\ Writeback(g) \in alarms \ active => Writeback(g) \in filed
  /\ g \in mixed \/ Deciding(g) \/ (Writeback(g) \in active <=> lastExit[g] = "failed")

Settled(g) == Alone(g) /\ Decided(g) /\ Tells(g)

\* A step of one handler, at another gate or one that decides no exit, that raises
\* and resolves no alarm of this kind.
LEMMA SettledKept ==
  ASSUME TypeOK, NEW g \in Gates, Settled(g), NEW d \in Handlers,
         UNCHANGED <<gate, mixed>>, lastExit'[g] = lastExit[g],
         Writeback(g) \in active' <=> Writeback(g) \in active,
         Writeback(g) \in alarms' <=> Writeback(g) \in alarms,
         Writeback(g) \in filed' <=> Writeback(g) \in filed,
         \A e \in Handlers \ {d} : pc'[e] = pc[e],
         \/ gate[d] # g
         \/ /\ pc'[d] \in Exiting => pc[d] \in Exiting
            /\ pc[d] \notin {"writeback", "resolve"}
            /\ pc'[d] \notin {"writeback", "resolve"}
  PROVE  Settled(g)'
<1>1. Alone(g)'
  BY DEF Settled, Alone, ExitsAt
<1>2. Decided(g)'
  BY DEF Settled, Decided
<1>3. Deciding(g) => Deciding(g)'
  BY DEF Deciding
<1>4. Tells(g)'
  BY <1>3 DEF Settled, Tells, Writeback
<1> QED
  BY <1>1, <1>2, <1>4 DEF Settled

LEMMA SettledStep ==
  ASSUME TypeOK, [Next]_vars, NEW g \in Gates, Settled(g)
  PROVE  Settled(g)'
<1> USE DEF Goto, store, manager, handlers, past
<1>1. ASSUME NEW d \in Handlers, NEW t \in Tickets, NEW h \in Gates,
             NEW action \in {"entry", "exit"}, Request(d, t, h, action)
      PROVE  Settled(g)'
  <2>1. /\ pc[d] = "idle" /\ pc' = [pc EXCEPT ![d] = action] /\ gate' = [gate EXCEPT ![d] = h]
        /\ UNCHANGED <<manager, lastExit>> /\ mixed \subseteq mixed'
    BY <1>1 DEF Request
  <2>2. pc \in [Handlers -> Locations] /\ gate \in [Handlers -> Gates]
    BY DEF TypeOK
  <2>3. Alone(g)'
    <3>1. CASE action = "exit" /\ h = g
      <4>1. g \notin mixed' => \A e \in Handlers : ~ExitsAt(e, g)
        BY <1>1, <3>1 DEF Request, ExitsAt
      <4> QED
        BY <2>1, <2>2, <4>1 DEF Alone, ExitsAt
    <3>2. CASE ~(action = "exit" /\ h = g)
      <4>1. ~ExitsAt(d, g)'
        BY <2>1, <2>2, <3>2 DEF ExitsAt, Exiting
      <4>2. \A e \in Handlers \ {d} : ExitsAt(e, g)' <=> ExitsAt(e, g)
        BY <2>1, <2>2 DEF ExitsAt
      <4> QED
        BY <2>1, <4>1, <4>2 DEF Settled, Alone
    <3> QED
      BY <3>1, <3>2
  <2>4. Decided(g)'
    BY <2>1, <2>2 DEF Settled, Decided
  <2>5. Deciding(g) => Deciding(g)'
    BY <2>1, <2>2 DEF Deciding
  <2>6. Tells(g)'
    BY <2>1, <2>5 DEF Settled, Tells, Writeback
  <2> QED
    BY <2>3, <2>4, <2>6 DEF Settled
<1>2. ASSUME NEW d \in Handlers, Entry(d)
      PROVE  Settled(g)'
  <2>1. UNCHANGED <<gate, mixed, lastExit, filed>>
    BY <1>2 DEF Entry, Refuse, Accept, RaiseRejected, BeginOpen, Opened, OpenOvertaken,
                OpenFails, RaiseCause, Report, Raise
  <2>2. /\ pc[d] \in {"entry", "reject", "open", "opening", "cause", "report"}
        /\ \E l \in {"idle", "reject", "open", "opening", "cause", "report"} :
             pc' = [pc EXCEPT ![d] = l]
    BY <1>2 DEF Entry, Refuse, Accept, RaiseRejected, BeginOpen, Opened, OpenOvertaken,
                OpenFails, RaiseCause, Report
  <2>3. UNCHANGED <<alarms, active>> \/ \E kind \in Kinds \ {"exit-writeback-failed"} : Raise(gate[d], kind)
    <3>1. RaiseCause(d) => cause[d] # "exit-writeback-failed"
      BY DEF TypeOK
    <3> QED
      BY <1>2, <3>1 DEF Entry, Refuse, Accept, RaiseRejected, BeginOpen, Opened, OpenOvertaken,
                OpenFails, RaiseCause, Report, Kinds, TypeOK
  <2>4. /\ Writeback(g) \in active' <=> Writeback(g) \in active
        /\ Writeback(g) \in alarms' <=> Writeback(g) \in alarms
        /\ Writeback(g) \in filed' <=> Writeback(g) \in filed
    BY <2>1, <2>3 DEF Raise, Writeback
  <2>5. /\ \A e \in Handlers \ {d} : pc'[e] = pc[e]
        /\ pc[d] \notin Exiting /\ pc'[d] \notin Exiting
    BY <2>2 DEF TypeOK, Exiting
  <2>6. /\ pc'[d] \in Exiting => pc[d] \in Exiting
        /\ pc[d] \notin {"writeback", "resolve"}
        /\ pc'[d] \notin {"writeback", "resolve"}
    BY <2>5 DEF Exiting
  <2> QED
    BY <2>1, <2>4, <2>5, <2>6, SettledKept
<1>3. ASSUME NEW d \in Handlers, Exit(d)
      PROVE  Settled(g)'
  <2>0. /\ UNCHANGED <<gate, mixed>>
        /\ pc[d] \in Exiting
        /\ \A h \in Gates \ {gate[d]} : lastExit'[h] = lastExit[h]
        /\ \E l \in {"idle", "confirm", "reset", "writeback", "resolve"} : pc' = [pc EXCEPT ![d] = l]
    BY <1>3 DEF Exit, Leave, Confirm, Reset, RaiseWriteback, ResolveWriteback, Exiting, TypeOK
  <2>1. CASE gate[d] # g
    <3>1. /\ Writeback(g) \in active' <=> Writeback(g) \in active
          /\ Writeback(g) \in alarms' <=> Writeback(g) \in alarms
          /\ Writeback(g) \in filed' <=> Writeback(g) \in filed
      BY <1>3, <2>1 DEF Exit, Leave, Confirm, Reset, RaiseWriteback, ResolveWriteback,
                        Raise, Resolve, Writeback
    <3> QED
      BY <2>0, <2>1, <3>1, SettledKept DEF TypeOK
  <2> SUFFICES ASSUME gate[d] = g
               PROVE  Settled(g)'
    BY <2>1
  <2>2. Alone(g)'
    BY <2>0 DEF Settled, Alone, ExitsAt, TypeOK
  <2>3. g \notin mixed => \A e \in Handlers \ {d} : gate[e] = g => pc[e] \notin Exiting
    BY <2>0 DEF Settled, Alone, ExitsAt
  <2>4. \A e \in Handlers \ {d} : pc'[e] = pc[e]
    BY <2>0
  <2>5. ASSUME NEW written \in BOOLEAN, Leave(d, written)
        PROVE  Settled(g)'
    BY <2>4, <2>5, SettledKept DEF Leave, Exiting, TypeOK
  <2>6. CASE Confirm(d)
    <3>1. CASE status[ticket[d]] = "exited"
      <4>1. pc'[d] = "resolve" /\ lastExit'[g] = "done" /\ UNCHANGED manager
        BY <2>6, <3>1 DEF Confirm, TypeOK
      <4>2. Decided(g)'
        BY <2>0, <2>3, <2>4, <4>1 DEF Decided, Exiting
      <4>3. Tells(g)'
        BY <2>0, <4>1 DEF Settled, Tells, Deciding, Writeback
      <4> QED
        BY <2>2, <4>2, <4>3 DEF Settled
    <3>2. CASE status[ticket[d]] # "exited"
      BY <2>4, <2>6, <3>2, SettledKept DEF Confirm, Exiting, TypeOK
    <3> QED
      BY <3>1, <3>2
  <2>7. CASE Reset(d)
    <3>1. pc'[d] = "writeback" /\ lastExit'[g] = "failed" /\ UNCHANGED manager
      BY <2>7 DEF Reset, TypeOK
    <3>2. Decided(g)'
      BY <2>0, <2>3, <2>4, <3>1 DEF Decided, Exiting
    <3>3. Tells(g)'
      BY <2>0, <3>1 DEF Settled, Tells, Deciding, Writeback
    <3> QED
      BY <2>2, <3>2, <3>3 DEF Settled
  <2>8. CASE RaiseWriteback(d)
    <3>1. pc[d] = "writeback" /\ pc'[d] = "idle" /\ lastExit'[g] = lastExit[g] /\ Writeback(g) \in active'
      BY <2>8 DEF RaiseWriteback, Raise, Writeback, TypeOK
    <3>2. g \notin mixed => lastExit[g] = "failed"
      BY <3>1 DEF Settled, Decided
    <3>3. Decided(g)'
      BY <2>0, <2>4, <3>1 DEF Settled, Decided
    <3>4. Tells(g)'
      BY <2>0, <3>1, <3>2 DEF Tells, Writeback
    <3> QED
      BY <2>2, <3>3, <3>4 DEF Settled
  <2>9. CASE ResolveWriteback(d)
    <3>1. /\ pc[d] = "resolve" /\ pc'[d] = "idle" /\ lastExit'[g] = lastExit[g]
          /\ Writeback(g) \notin active'
          /\ Writeback(g) \in alarms' <=> Writeback(g) \in alarms
          /\ Writeback(g) \in filed' <=> Writeback(g) \in active \/ Writeback(g) \in filed
      BY <2>9 DEF ResolveWriteback, Resolve, Writeback, TypeOK
    <3>2. g \notin mixed => lastExit[g] = "done"
      BY <3>1 DEF Settled, Decided
    <3>3. Decided(g)'
      BY <2>0, <2>4, <3>1 DEF Settled, Decided
    <3>4. Tells(g)'
      BY <2>0, <3>1, <3>2 DEF Settled, Tells, Writeback
    <3> QED
      BY <2>2, <3>3, <3>4 DEF Settled
  <2> QED
    BY <1>3, <2>5, <2>6, <2>7, <2>8, <2>9 DEF Exit
<1>4. ASSUME NEW h \in Gates, Scheduler(h)
      PROVE  Settled(g)'
  <2>1. UNCHANGED <<pc, gate, lastExit, mixed, filed>>
    BY <1>4 DEF Scheduler, ScheduledOpen, ScheduledClose, ScheduleFails, Raise
  <2>2. /\ Writeback(g) \in active' <=> Writeback(g) \in active
        /\ Writeback(g) \in alarms' <=> Writeback(g) \in alarms
    BY <1>4 DEF Scheduler, ScheduledOpen, ScheduledClose, ScheduleFails, Raise, Writeback
  <2> QED
    BY <2>1, <2>2 DEF Settled, Alone, Decided, Tells, Deciding, ExitsAt, Writeback
<1>5. CASE UNCHANGED vars
  BY <1>5 DEF vars, Settled, Alone, Decided, Tells, Deciding, ExitsAt, Writeback
<1> QED
  BY <1>1, <1>2, <1>3, <1>4, <1>5, GatesAssumption DEF Next

\* One alarm for all tickets of a gate: it tells how the gate's last exit ended, for any
\* tickets and handlers, unless exits overlapped there.
THEOREM Told == Spec => []WritebackTellsLastExit
<1> DEFINE Inv == \A g \in Gates : Settled(g)
<1>1. Init => Inv
  BY DEF Init, Settled, Alone, Decided, Tells, ExitsAt, Exiting, Writeback
<1>2. TypeOK /\ Inv /\ [Next]_vars => Inv'
  BY SettledStep
<1>3. Inv => WritebackTellsLastExit
  BY DEF Settled, Tells, Deciding, Writeback, WritebackTellsLastExit
<1> HIDE DEF Inv
<1> QED
  BY <1>1, <1>2, <1>3, TypeCorrect, PTL DEF Spec

------------------------------------------------------------------------------
(* Gates without an entry in the scheduler's table.                         *)

Unscheduled == Gates \ Scheduled

\* Only the handler that began to open such a gate moves it, and it is alone.
OneOpener ==
  \A d \in Handlers : pc[d] = "opening" /\ gate[d] \in Unscheduled =>
    /\ state[gate[d]] = "opening"
    /\ \A e \in Handlers : pc[e] = "opening" /\ gate[e] = gate[d] => e = d

LEMMA OneOpenerStep == TypeOK /\ OneOpener /\ [Next]_vars => OneOpener'
<1> SUFFICES ASSUME TypeOK, OneOpener, [Next]_vars
             PROVE  OneOpener'
  OBVIOUS
<1> USE DEF TypeOK, Goto, OneOpener, Unscheduled
<1>1. ASSUME NEW d \in Handlers, NEW t \in Tickets, NEW g \in Gates,
             NEW action \in {"entry", "exit"}, Request(d, t, g, action)
      PROVE  OneOpener'
  BY <1>1 DEF Request
<1>2. ASSUME NEW d \in Handlers, BeginOpen(d)
      PROVE  OneOpener'
  BY <1>2 DEF BeginOpen
<1>3. ASSUME NEW d \in Handlers,
             \/ Opened(d) \/ OpenOvertaken(d)
             \/ \E kind \in {"open-failed", "open-timeout"} : OpenFails(d, kind)
      PROVE  OneOpener'
  BY <1>3 DEF Opened, OpenOvertaken, OpenFails
<1>4. ASSUME NEW g \in Scheduled, Scheduler(g)
      PROVE  OneOpener'
  BY <1>4, GatesAssumption DEF Scheduler, ScheduledOpen, ScheduledClose, ScheduleFails, handlers
<1>5. ASSUME NEW d \in Handlers,
             \/ Refuse(d) \/ RaiseRejected(d) \/ RaiseCause(d) \/ Report(d) \/ Exit(d)
             \/ \E written \in BOOLEAN : Accept(d, written)
      PROVE  OneOpener'
  <2>1. state' = state /\ gate' = gate
    BY <1>5 DEF Exit, Refuse, RaiseRejected, RaiseCause, Report, Accept, Leave, Confirm, Reset,
                RaiseWriteback, ResolveWriteback
  <2>2. \A e \in Handlers : pc'[e] = "opening" => pc[e] = "opening"
    BY <1>5 DEF Exit, Refuse, RaiseRejected, RaiseCause, Report, Accept, Leave, Confirm, Reset,
                RaiseWriteback, ResolveWriteback
  <2> QED
    BY <2>1, <2>2
<1>6. CASE UNCHANGED vars
  BY <1>6 DEF vars, handlers
<1> QED
  BY <1>1, <1>2, <1>3, <1>4, <1>5, <1>6 DEF Next, Entry

\* Nothing but the scheduler closes a gate, and Open opens none but a closed one: a
\* gate the scheduler has no entry for stays open once a swipe has opened it, and
\* every ticket accepted there from then on is taken and its passenger refused.
THEOREM OpensOnce ==
  Spec => [][\A g \in Unscheduled : state[g] = "open" =>
               /\ state'[g] = "open"
               /\ \A d \in Handlers : pc[d] = "open" /\ gate[d] = g /\ pc'[d] # pc[d]
                                        => pc'[d] = "report"]_vars
<1>1. Init => OneOpener
  BY DEF Init, OneOpener
<1>2. TypeOK /\ OneOpener /\ [Next]_vars =>
        [\A g \in Unscheduled : state[g] = "open" =>
           /\ state'[g] = "open"
           /\ \A d \in Handlers : pc[d] = "open" /\ gate[d] = g /\ pc'[d] # pc[d]
                                    => pc'[d] = "report"]_vars
  <2> SUFFICES ASSUME TypeOK, OneOpener, [Next]_vars, NEW g \in Unscheduled, state[g] = "open"
               PROVE  /\ state'[g] = "open"
                      /\ \A d \in Handlers : pc[d] = "open" /\ gate[d] = g /\ pc'[d] # pc[d]
                                               => pc'[d] = "report"
    OBVIOUS
  <2>1. state'[g] = "open"
    <3>1. ASSUME NEW d \in Handlers, Entry(d)
          PROVE  state'[g] = "open"
      BY <3>1 DEF Entry, Refuse, Accept, RaiseRejected, BeginOpen, Opened, OpenOvertaken, OpenFails,
                  RaiseCause, Report, OneOpener, Unscheduled, TypeOK
    <3>2. ASSUME NEW h \in Scheduled, Scheduler(h)
          PROVE  state'[g] = "open"
      BY <3>2 DEF Scheduler, ScheduledOpen, ScheduledClose, ScheduleFails, Unscheduled, TypeOK
    <3> QED
      BY <3>1, <3>2 DEF Next, Request, Exit, Leave, Confirm, Reset, RaiseWriteback,
         ResolveWriteback, vars
  <2>2. ASSUME NEW d \in Handlers, pc[d] = "open", gate[d] = g, pc'[d] # pc[d]
        PROVE  pc'[d] = "report"
    <3>1. BeginOpen(d)
      BY <2>2 DEF Next, Request, Entry, Exit, Refuse, Accept, RaiseRejected, BeginOpen, Opened,
         OpenOvertaken, OpenFails, RaiseCause, Report, Leave, Confirm, Reset, RaiseWriteback,
         ResolveWriteback, Scheduler, ScheduledOpen, ScheduledClose, ScheduleFails, Goto, handlers,
         vars, TypeOK
    <3> QED
      BY <2>2, <3>1 DEF BeginOpen, Goto, TypeOK
  <2> QED
    BY <2>1, <2>2
<1> QED
  BY <1>1, <1>2, OneOpenerStep, TypeCorrect, PTL DEF Spec
==============================================================================
