--------------------------- MODULE HeartbeatProofs ---------------------------
(***************************************************************************)
(* Proofs about Heartbeat, for any gates, handlers, timeout and clock.     *)
(***************************************************************************)
EXTENDS Heartbeat, TLAPS

\* A write of the status keeps to the types of what it writes.
LEMMA WriteTypes ==
  ASSUME TypeOK, NEW g \in Gates, NEW up \in BOOLEAN, NEW at \in Stamps, SetOnline(g, up, at)
  PROVE  /\ online' \in [Gates -> BOOLEAN]
         /\ offlineSince' \in [Gates -> Nat]
         /\ updatedAt' \in [Gates -> Nat]
         /\ known' \in SUBSET Gates
<1>1. online' \in [Gates -> BOOLEAN]
  BY Zenon DEF TypeOK, SetOnline
<1>2. offlineSince' \in [Gates -> Nat]
  BY DEF TypeOK, SetOnline, Stamps
<1>3. updatedAt' \in [Gates -> Nat] /\ known' \in SUBSET Gates
  BY DEF TypeOK, SetOnline, Stamp, Stamps
<1> QED
  BY <1>1, <1>2, <1>3

\* A handler's step forward keeps to the types of its locals.
LEMMA GotoTypes ==
  ASSUME TypeOK, NEW h \in Handlers, NEW l \in Locations, Goto(h, l)
  PROVE  /\ pc' \in [Handlers -> Locations]
         /\ report' \in [Handlers -> Reports]
<1>1. pc' \in [Handlers -> Locations]
  BY DEF TypeOK, Goto
<1>2. report' \in [Handlers -> Reports]
  <2>1. 1 \in Stamps
    BY TimeAssumption DEF Stamps
  <2>2. report \in [Handlers -> Reports]
    BY DEF TypeOK
  <2>3. [report[h] EXCEPT !.online = TRUE, !.at = 1] \in Reports
    BY <2>1, <2>2 DEF Reports
  <2>4. [report EXCEPT ![h].online = TRUE, ![h].at = 1]
          = [report EXCEPT ![h] = [report[h] EXCEPT !.online = TRUE, !.at = 1]]
    BY <2>2 DEF Reports
  <2> QED
    BY <2>2, <2>3, <2>4, Zenon DEF Goto
<1> QED
  BY <1>1, <1>2

LEMMA AnswerType == ASSUME NEW up \in BOOLEAN PROVE Answer(up) \in Locations
BY DEF Answer, Locations

\* The state of heartbeats, poller and sweep keeps to its types whatever report
\* arrives and in whatever order requests, polls and sweeps write.
THEOREM TypeCorrect == Spec => []TypeOK
<1>1. Init => TypeOK
  BY TimeAssumption, RegisteredAssumption DEF Init, TypeOK, Stamps, Locations, Reports
<1>2. TypeOK /\ [Next]_vars => TypeOK'
  <2> SUFFICES ASSUME TypeOK, [Next]_vars
               PROVE  TypeOK'
    OBVIOUS
  <2> USE DEF status, monitor, handlers, poller, sweeper
  <2>1. CASE Clock
    <3>1. now' \in Stamps
      BY <2>1, TimeAssumption DEF Clock, TypeOK, Stamps
    <3> QED
      BY <2>1, <3>1 DEF Clock, TypeOK
  <2>2. ASSUME NEW g \in Gates, Touch(g)
        PROVE  TypeOK'
    <3>1. updatedAt' \in [Gates -> Nat]
      BY <2>2 DEF Touch, Stamp, TypeOK, Stamps
    <3> QED
      BY <2>2, <3>1 DEF Touch, Stamp, Rewind, TypeOK
  <2>3. ASSUME NEW h \in Handlers, Ingest(h)
        PROVE  TypeOK'
    <3>1. PICK g \in Gates, up \in BOOLEAN, at \in 0 .. MaxTime :
            LET stamp == IF at = 0 THEN now ELSE at IN
            /\ report' = [report EXCEPT ![h] = [gate |-> g, online |-> up, at |-> stamp]]
            /\ lastSeen' = [lastSeen EXCEPT ![g] = stamp]
      BY <2>3, Zenon DEF Ingest, TimeOf
    <3>2. (IF at = 0 THEN now ELSE at) \in Stamps
      BY TimeAssumption DEF TypeOK, Stamps
    <3>3. report' \in [Handlers -> Reports]
      BY <3>1, <3>2 DEF TypeOK, Reports
    <3>4. lastSeen' \in [Gates -> Nat]
      BY <3>1, <3>2 DEF TypeOK, Stamps
    <3>5. pc' \in [Handlers -> Locations]
      BY <2>3 DEF Ingest, TimeOf, TypeOK, Locations
    <3> QED
      BY <2>3, <3>3, <3>4, <3>5 DEF Ingest, TimeOf, TypeOK
  <2>4. ASSUME NEW h \in Handlers, Handle(h)
        PROVE  TypeOK'
    <3> DEFINE r == report[h]
    <3>0. r \in Reports /\ r.gate \in Gates /\ r.online \in BOOLEAN /\ r.at \in Stamps
      BY DEF TypeOK, Reports
    <3>1. CASE Admit(h)
      <4>1. pc' \in [Handlers -> Locations] /\ report' \in [Handlers -> Reports]
        BY <3>1, GotoTypes DEF Admit, Locations
      <4>2. applied' \in [Gates -> Nat]
        BY <3>0, <3>1 DEF Admit, TypeOK, Stamps
      <4> QED
        BY <3>1, <4>1, <4>2 DEF Admit, TypeOK
    <3>2. CASE Reread(h)
      <4>1. online[r.gate] \in BOOLEAN
        BY <3>0 DEF TypeOK
      <4>2. pc' \in [Handlers -> Locations] /\ report' \in [Handlers -> Reports]
        BY <3>2, <4>1, GotoTypes, AnswerType DEF Reread
      <4> QED
        BY <3>0, <3>2, <4>2 DEF Reread, TypeOK
    <3>3. CASE Compare(h)
      <4>1. online[r.gate] \in BOOLEAN
        BY <3>0 DEF TypeOK
      <4>2. (IF r.at < updatedAt[r.gate] THEN Answer(online[r.gate]) ELSE "write") \in Locations
        BY <4>1, AnswerType DEF Locations
      <4>3. pc' \in [Handlers -> Locations] /\ report' \in [Handlers -> Reports]
        BY <3>3, <4>2, GotoTypes DEF Compare
      <4> QED
        BY <3>0, <3>3, <4>3 DEF Compare, TypeOK
    <3>4. CASE Write(h)
      <4>1. online[r.gate] \in BOOLEAN
        BY <3>0 DEF TypeOK
      <4>2. CASE /\ SetOnline(r.gate, r.online, r.at)
                 /\ beat' = [beat EXCEPT ![r.gate] = r.at]
                 /\ UNCHANGED rewound
                 /\ Goto(h, Answer(r.online))
        <5>1. pc' \in [Handlers -> Locations] /\ report' \in [Handlers -> Reports]
          BY <3>0, <4>2, GotoTypes, AnswerType
        <5>2. /\ online' \in [Gates -> BOOLEAN] /\ offlineSince' \in [Gates -> Nat]
              /\ updatedAt' \in [Gates -> Nat] /\ known' \in SUBSET Gates
          BY <3>0, <4>2, WriteTypes
        <5>3. beat' \in [Gates -> Nat]
          BY <3>0, <4>2 DEF TypeOK, Stamps
        <5> QED
          BY <3>4, <4>2, <5>1, <5>2, <5>3 DEF Write, TypeOK
      <4>3. CASE Goto(h, Answer(online[r.gate])) /\ UNCHANGED <<known, status>>
        <5>1. pc' \in [Handlers -> Locations] /\ report' \in [Handlers -> Reports]
          BY <4>1, <4>3, GotoTypes, AnswerType
        <5> QED
          BY <3>4, <4>3, <5>1 DEF Write, TypeOK
      <4> QED
        BY <3>4, <4>2, <4>3 DEF Write
    <3>5. CASE Resolve(h)
      <4>1. pc' \in [Handlers -> Locations] /\ report' \in [Handlers -> Reports]
        BY <3>5, GotoTypes DEF Resolve, Locations
      <4> QED
        BY <3>5, <4>1 DEF Resolve, TypeOK
    <3> QED
      BY <2>4, <3>1, <3>2, <3>3, <3>4, <3>5 DEF Handle
  <2>5. CASE StartPoll
    BY <2>5, RegisteredAssumption DEF StartPoll, TypeOK
  <2>6. ASSUME NEW g \in Gates, ApplyPoll(g)
        PROVE  TypeOK'
    <3>1. pollAt \in Stamps
      BY DEF TypeOK
    <3>2. /\ online' \in [Gates -> BOOLEAN] /\ offlineSince' \in [Gates -> Nat]
          /\ updatedAt' \in [Gates -> Nat] /\ known' \in SUBSET Gates
      BY <2>6, <3>1, WriteTypes DEF ApplyPoll
    <3> QED
      BY <2>6, <3>2 DEF ApplyPoll, Rewind, TypeOK
  <2>7. CASE StartSweep
    BY <2>7 DEF StartSweep, TypeOK
  <2>8. ASSUME NEW g \in Gates, Check(g)
        PROVE  TypeOK'
    BY <2>8 DEF Check, TypeOK
  <2>9. CASE MarkOffline
    <3>1. late \in Gates /\ sweepAt \in Stamps
      BY DEF TypeOK
    <3>2. /\ online' \in [Gates -> BOOLEAN] /\ offlineSince' \in [Gates -> Nat]
          /\ updatedAt' \in [Gates -> Nat] /\ known' \in SUBSET Gates
      BY <2>9, <3>1, WriteTypes DEF MarkOffline
    <3> QED
      BY <2>9, <3>1, <3>2 DEF MarkOffline, Rewind, TypeOK
  <2>10. CASE Raise
    BY <2>10 DEF Raise, TypeOK
  <2>11. CASE UNCHANGED vars
    BY <2>11 DEF vars, TypeOK
  <2> QED
    BY <2>1, <2>2, <2>3, <2>4, <2>5, <2>6, <2>7, <2>8, <2>9, <2>10, <2>11
    DEF Next, Poll, Sweep
<1> QED
  BY <1>1, <1>2, PTL DEF Spec

\* For a gate whose UpdatedAt was never set back, the status is at least as new as
\* the last report written into it.
Ahead == \A g \in Gates \ rewound : beat[g] <= updatedAt[g]

\* A write of the flag by poller, sweep or handler; and the stamp of a write of the
\* controller, which leaves the flag alone.
Written(g, up, at) ==
  /\ SetOnline(g, up, at)
  /\ \/ Rewind(g, at) /\ UNCHANGED beat
     \/ at >= updatedAt[g] /\ beat' = [beat EXCEPT ![g] = at] /\ UNCHANGED rewound

Stamped(g, at) == Stamp(g, at) /\ Rewind(g, at) /\ UNCHANGED <<online, offlineSince, beat>>

\* The steps that touch a status, told apart by what they write.
LEMMA StatusSteps ==
  ASSUME TypeOK, [Next]_vars
  PROVE  \/ UNCHANGED <<online, offlineSince, updatedAt, beat, rewound>>
         \/ \E g \in Gates, at \in Nat : Stamped(g, at)
         \/ \E g \in Gates, up \in BOOLEAN, at \in Stamps : Written(g, up, at)
<1> USE DEF status
<1>1. CASE Clock \/ StartPoll \/ StartSweep \/ Raise \/ UNCHANGED vars
  BY <1>1 DEF Clock, StartPoll, StartSweep, Raise, vars
<1>2. ASSUME NEW g \in Gates, Touch(g)
      PROVE  \E f \in Gates, at \in Nat : Stamped(f, at)
  <2>1. PICK at \in {now, now - 1} \ {0} : Stamp(g, at) /\ Rewind(g, at)
    BY <1>2 DEF Touch
  <2>2. at \in Nat
    BY DEF TypeOK, Stamps
  <2> QED
    BY <1>2, <2>1, <2>2 DEF Touch, Stamped
<1>3. ASSUME NEW h \in Handlers, Ingest(h)
      PROVE  UNCHANGED <<online, offlineSince, updatedAt, beat, rewound>>
  BY <1>3 DEF Ingest, TimeOf
<1>4. ASSUME NEW h \in Handlers, Handle(h)
      PROVE  \/ UNCHANGED <<online, offlineSince, updatedAt, beat, rewound>>
             \/ \E g \in Gates, up \in BOOLEAN, at \in Stamps : Written(g, up, at)
  <2>1. CASE Admit(h) \/ Reread(h) \/ Compare(h) \/ Resolve(h)
    BY <2>1 DEF Admit, Reread, Compare, Resolve
  <2>2. CASE Write(h)
    <3>1. report[h].gate \in Gates /\ report[h].online \in BOOLEAN /\ report[h].at \in Stamps
      BY DEF TypeOK, Reports
    <3>2. \/ Written(report[h].gate, report[h].online, report[h].at)
          \/ UNCHANGED <<online, offlineSince, updatedAt, beat, rewound>>
      BY <2>2 DEF Write, Written
    <3> QED
      BY <3>1, <3>2
  <2> QED
    BY <1>4, <2>1, <2>2 DEF Handle
<1>5. ASSUME NEW g \in Gates, ApplyPoll(g)
      PROVE  \E f \in Gates, up \in BOOLEAN, at \in Stamps : Written(f, up, at)
  <2>1. pollAt \in Stamps /\ Written(g, TRUE, pollAt)
    BY <1>5 DEF ApplyPoll, Written, TypeOK
  <2> QED
    BY <2>1
<1>6. ASSUME NEW g \in Gates, Check(g)
      PROVE  UNCHANGED <<online, offlineSince, updatedAt, beat, rewound>>
  BY <1>6 DEF Check
<1>7. CASE MarkOffline
  <2>1. late \in Gates /\ sweepAt \in Stamps /\ Written(late, FALSE, sweepAt)
    BY <1>7 DEF MarkOffline, Written, TypeOK
  <2> QED
    BY <2>1
<1> QED
  BY <1>1, <1>2, <1>3, <1>4, <1>5, <1>6, <1>7 DEF Next, Poll, Sweep

\* Three writers share Online and OfflineSince: a gate is offline exactly when the
\* start of its outage is on record.
OutageOnRecord == \A g \in Gates : online[g] <=> offlineSince[g] = 0

\* A gate is offline exactly when the start of its outage is on record, whichever
\* of the three writers wrote last.
LEMMA OutagesRecorded == Spec => []OutageOnRecord
<1>1. Init => OutageOnRecord
  BY DEF Init, OutageOnRecord
<1>2. TypeOK /\ OutageOnRecord /\ [Next]_vars => OutageOnRecord'
  <2> SUFFICES ASSUME TypeOK, OutageOnRecord, [Next]_vars
               PROVE  OutageOnRecord'
    OBVIOUS
  <2>1. CASE UNCHANGED <<online, offlineSince, updatedAt, beat, rewound>>
    BY <2>1 DEF OutageOnRecord
  <2>2. ASSUME NEW g \in Gates, NEW at \in Nat, Stamped(g, at)
        PROVE  OutageOnRecord'
    BY <2>2 DEF OutageOnRecord, Stamped
  <2>3. ASSUME NEW g \in Gates, NEW up \in BOOLEAN, NEW at \in Stamps, Written(g, up, at)
        PROVE  OutageOnRecord'
    <3>1. online' = [online EXCEPT ![g] = up]
      BY <2>3, Zenon DEF Written, SetOnline
    <3>2. offlineSince' = [offlineSince EXCEPT ![g] =
            IF up THEN 0 ELSE IF offlineSince[g] = 0 THEN at ELSE offlineSince[g]]
      BY <2>3, Zenon DEF Written, SetOnline
    <3>3. at # 0
      BY DEF Stamps
    <3>4. online \in [Gates -> BOOLEAN] /\ offlineSince \in [Gates -> Nat]
      BY DEF TypeOK
    <3> SUFFICES ASSUME NEW f \in Gates
                 PROVE  online'[f] <=> offlineSince'[f] = 0
      BY DEF OutageOnRecord
    <3>5. CASE f = g
      BY <3>1, <3>2, <3>3, <3>4, <3>5
    <3>6. CASE f # g
      BY <3>1, <3>2, <3>4, <3>6 DEF OutageOnRecord
    <3> QED
      BY <3>5, <3>6
  <2> QED
    BY <2>1, <2>2, <2>3, StatusSteps
<1> QED
  BY <1>1, <1>2, TypeCorrect, PTL DEF Spec

\* The start of an outage is kept as long as the gate stays offline.
THEOREM OutagesKept == Spec => OutageStartKept
<1>1. TypeOK /\ OutageOnRecord /\ [Next]_vars =>
        [\A g \in Gates : ~online[g] /\ ~online'[g] => offlineSince'[g] = offlineSince[g]]_vars
  <2> SUFFICES ASSUME TypeOK, OutageOnRecord, [Next]_vars,
                      NEW f \in Gates, ~online[f], ~online'[f]
               PROVE  offlineSince'[f] = offlineSince[f]
    OBVIOUS
  <2>1. ASSUME NEW g \in Gates, NEW up \in BOOLEAN, NEW at \in Stamps, Written(g, up, at)
        PROVE  offlineSince'[f] = offlineSince[f]
    <3>1. online' = [online EXCEPT ![g] = up]
      BY <2>1, Zenon DEF Written, SetOnline
    <3>2. offlineSince' = [offlineSince EXCEPT ![g] =
            IF up THEN 0 ELSE IF offlineSince[g] = 0 THEN at ELSE offlineSince[g]]
      BY <2>1, Zenon DEF Written, SetOnline
    <3>3. online \in [Gates -> BOOLEAN] /\ offlineSince \in [Gates -> Nat]
      BY DEF TypeOK
    <3>4. offlineSince[f] # 0
      BY DEF OutageOnRecord
    <3> QED
      BY <3>1, <3>2, <3>3, <3>4
  <2> QED
    BY <2>1, StatusSteps DEF Stamped
<1> QED
  BY <1>1, TypeCorrect, OutagesRecorded, PTL DEF Spec, OutageStartKept

\* Whichever of the three writers writes the flag, an outage begins, goes on or ends.
THEOREM OutagesInOrder == Spec => ImplementsPresence
<1>1. Init => Outages!Init
  BY DEF Init, Outages!Init
<1>2. TypeOK /\ OutageOnRecord /\ [Next]_vars => [Outages!Next]_Outages!vars
  <2> SUFFICES ASSUME TypeOK, OutageOnRecord, [Next]_vars
               PROVE  Outages!Next \/ UNCHANGED <<online, offlineSince>>
    BY DEF Outages!vars
  <2> USE DEF Outages!Next, Outages!GoOffline, Outages!ComeOnline, Outages!Turn
  <2>1. ASSUME NEW g \in Gates, NEW up \in BOOLEAN, NEW at \in Stamps, Written(g, up, at)
        PROVE  Outages!Next \/ UNCHANGED <<online, offlineSince>>
    <3>1. online' = [online EXCEPT ![g] = up]
      BY <2>1, Zenon DEF Written, SetOnline
    <3>2. offlineSince' = [offlineSince EXCEPT ![g] =
            IF up THEN 0 ELSE IF offlineSince[g] = 0 THEN at ELSE offlineSince[g]]
      BY <2>1, Zenon DEF Written, SetOnline
    <3>3. online \in [Gates -> BOOLEAN] /\ offlineSince \in [Gates -> Nat] /\ at \in Nat \ {0}
      BY DEF TypeOK, Stamps
    <3>4. online[g] <=> offlineSince[g] = 0
      BY DEF OutageOnRecord
    <3>5. CASE online[g] /\ ~up
      BY <3>1, <3>2, <3>3, <3>4, <3>5
    <3>6. CASE ~online[g] /\ up
      BY <3>1, <3>2, <3>3, <3>6
    <3>7. CASE online[g] = up
      BY <3>1, <3>2, <3>3, <3>4, <3>7
    <3> QED
      BY <3>3, <3>5, <3>6, <3>7
  <2> QED
    BY <2>1, StatusSteps DEF Stamped
<1> QED
  BY <1>1, <1>2, TypeCorrect, OutagesRecorded, PTL DEF Spec, ImplementsPresence, Outages!Spec

\* No report is ever replaced by an older one, however many handlers run, unless a
\* poll, a sweep or the controller set the status back.
THEOREM NewestWins == Spec => NewestReportWins
<1>1. Init => Ahead
  <2> SUFFICES ASSUME Init, NEW g \in Gates
               PROVE  beat[g] <= updatedAt[g]
    BY DEF Ahead
  <2>1. beat[g] = 0 /\ updatedAt[g] = 0
    BY Zenon DEF Init
  <2> QED
    BY <2>1
<1>2. TypeOK /\ Ahead /\ [Next]_vars =>
        Ahead' /\ [\A g \in Gates \ rewound' : beat'[g] >= beat[g]]_vars
  <2> SUFFICES ASSUME TypeOK, Ahead, [Next]_vars, NEW f \in Gates, f \notin rewound'
               PROVE  beat'[f] <= updatedAt'[f] /\ beat'[f] >= beat[f]
    BY DEF Ahead
  <2>0. /\ beat \in [Gates -> Nat]
        /\ updatedAt \in [Gates -> Nat]
        /\ f \notin rewound => beat[f] <= updatedAt[f]
    BY DEF TypeOK, Ahead
  <2>1. CASE UNCHANGED <<online, offlineSince, updatedAt, beat, rewound>>
    BY <2>0, <2>1
  <2>2. ASSUME NEW g \in Gates, NEW at \in Nat, Stamp(g, at), Rewind(g, at), UNCHANGED beat
        PROVE  beat'[f] <= updatedAt'[f] /\ beat'[f] >= beat[f]
    BY <2>0, <2>2 DEF Stamp, Rewind
  <2>3. ASSUME NEW g \in Gates, NEW at \in Nat, Stamp(g, at), at >= updatedAt[g],
               beat' = [beat EXCEPT ![g] = at], UNCHANGED rewound
        PROVE  beat'[f] <= updatedAt'[f] /\ beat'[f] >= beat[f]
    BY <2>0, <2>3 DEF Stamp
  <2>4. Stamps \subseteq Nat
    BY DEF Stamps
  <2> QED
    BY <2>1, <2>2, <2>3, <2>4, StatusSteps DEF Stamped, Written, SetOnline
<1> QED
  BY <1>1, <1>2, TypeCorrect, PTL DEF Spec, NewestReportWins

------------------------------------------------------------------------------
(* Liveness.  PollOnce writes every registered gate, and Check checks every *)
(* gate that is known: that much is assumed here of their loops, whose      *)
(* variant, the number of gates left, calls for an induction.  Of the       *)
(* handlers nothing is assumed: a silent gate has none that serves it.      *)

Swept(g) == []<>~(g \in known) \/ []<><<Check(g)>>_vars
Polled(g) == []<><<ApplyPoll(g)>>_vars

IsKnown(g) == g \in known
Seen(g) == lastSeen[g] # 0
Left(g) == g \in sweeping
Alarmed(g) == alarm[g] # "none"
Fresh(g) == sweepAt > lastSeen[g] + Timeout
InHand(g) == sweepPc # "next" /\ late = g

Carried(g) ==
  \E h \in Handlers : pc[h] \in {"admit", "reread", "compare"} /\ report[h].gate = g

\* A gate that has been seen is polled, or known to the store, or soon will be.
SeenKnown == \A g \in Gates \ Registered : Seen(g) => IsKnown(g) \/ Carried(g)

\* A gate known stays known.
LEMMA KnownStays == ASSUME TypeOK, [Next]_vars PROVE known \subseteq known'
BY DEF Next, Poll, Sweep, Clock, Touch, Ingest, Handle, Admit, Reread, Compare, Write, Resolve,
       StartPoll, ApplyPoll, StartSweep, Check, MarkOffline, Raise, SetOnline, Stamp, vars

\* A gate is seen by a request that goes on to make it known.
LEMMA SeenGates == Spec => []SeenKnown
<1>1. Init => SeenKnown
  BY DEF Init, SeenKnown, Seen
<1>2. TypeOK /\ SeenKnown /\ [Next]_vars => SeenKnown'
  <2> SUFFICES ASSUME TypeOK, SeenKnown, [Next]_vars, NEW g \in Gates \ Registered, Seen(g)'
               PROVE  (IsKnown(g) \/ Carried(g))'
    BY DEF SeenKnown
  <2> USE DEF Seen, IsKnown, Carried, TypeOK
  <2>1. IsKnown(g) => IsKnown(g)'
    BY KnownStays
  <2>2. ASSUME NEW h \in Handlers, Ingest(h)
        PROVE  (IsKnown(g) \/ Carried(g))'
    <3>1. PICK f \in Gates, up \in BOOLEAN, at \in 0 .. MaxTime :
            /\ report' = [report EXCEPT ![h] = [gate |-> f, online |-> up, at |-> TimeOf(at)]]
            /\ lastSeen' = [lastSeen EXCEPT ![f] = TimeOf(at)]
      BY <2>2, Zenon DEF Ingest
    <3>2. pc[h] = "idle" /\ pc' = [pc EXCEPT ![h] = "admit"]
      BY <2>2 DEF Ingest
    <3>3. CASE f = g
      BY <3>1, <3>2, <3>3
    <3>4. CASE f # g
      BY <2>1, <3>1, <3>2, <3>4 DEF SeenKnown
    <3> QED
      BY <3>3, <3>4
  <2>3. ASSUME NEW h \in Handlers, Handle(h)
        PROVE  (IsKnown(g) \/ Carried(g))'
    <3>1. Seen(g)
      BY <2>3 DEF Handle, Admit, Reread, Compare, Write, Resolve, monitor
    <3>2. CASE Admit(h)
      BY <2>1, <3>1, <3>2 DEF Admit, Goto, SeenKnown, Reports
    <3>3. CASE Reread(h) \/ Compare(h)
      BY <2>1, <3>1, <3>3 DEF Reread, Compare, Goto, SeenKnown
    <3>4. CASE Write(h) \/ Resolve(h)
      BY <2>1, <3>1, <3>4 DEF Write, Resolve, Goto, SeenKnown
    <3> QED
      BY <2>3, <3>2, <3>3, <3>4 DEF Handle
  <2>4. ASSUME UNCHANGED <<lastSeen, handlers>>
        PROVE  (IsKnown(g) \/ Carried(g))'
    BY <2>1, <2>4 DEF handlers, SeenKnown
  <2>5. \/ \E h \in Handlers : Ingest(h) \/ Handle(h)
        \/ UNCHANGED <<lastSeen, handlers>>
    BY DEF Next, Poll, Sweep, Clock, Touch, StartPoll, ApplyPoll, StartSweep, Check, MarkOffline,
           Raise, monitor, handlers, vars
  <2> QED
    BY <2>2, <2>3, <2>4, <2>5
<1> QED
  BY <1>1, <1>2, TypeCorrect, PTL DEF Spec

\* While a gate is silent nothing is heard of it and no alarm about it is resolved.
LEMMA SilenceKept ==
  ASSUME TypeOK, [Next]_vars, NEW g \in Gates, Silent(g), Silent(g)'
  PROVE  /\ lastSeen'[g] = lastSeen[g]
         /\ Alarmed(g) => Alarmed(g)'
<1> USE DEF Silent, Quiet, Alarmed, TypeOK
<1>1. ASSUME NEW h \in Handlers, Ingest(h)
      PROVE  lastSeen'[g] = lastSeen[g] /\ alarm' = alarm
  <2>1. PICK f \in Gates, up \in BOOLEAN, at \in 0 .. MaxTime :
          /\ report' = [report EXCEPT ![h] = [gate |-> f, online |-> up, at |-> TimeOf(at)]]
          /\ lastSeen' = [lastSeen EXCEPT ![f] = TimeOf(at)]
    BY <1>1, Zenon DEF Ingest
  <2>2. pc'[h] # "idle"
    BY <1>1 DEF Ingest
  <2>3. f # g
    BY <2>1, <2>2
  <2> QED
    BY <1>1, <2>1, <2>3 DEF Ingest
<1>2. ASSUME NEW h \in Handlers, Handle(h)
      PROVE  lastSeen' = lastSeen /\ alarm'[g] = alarm[g]
  BY <1>2 DEF Handle, Admit, Reread, Compare, Write, Resolve, monitor
<1>3. CASE Raise
  BY <1>3 DEF Raise, monitor
<1> QED
  BY <1>1, <1>2, <1>3 DEF Next, Poll, Sweep, Clock, Touch, StartPoll, ApplyPoll, StartSweep,
                          Check, MarkOffline, monitor, vars

\* A sweep that begins while a gate is silent is late enough to find it overdue.
LEMMA SweepRenewed ==
  ASSUME TypeOK, [Next]_vars, NEW g \in Gates, Silent(g), Silent(g)'
  PROVE  \/ Fresh(g)'
         \/ ~Fresh(g) /\ (Left(g)' => Left(g))
<1>1. lastSeen'[g] = lastSeen[g]
  BY SilenceKept
<1>2. CASE StartSweep
  BY <1>1, <1>2 DEF StartSweep, Fresh, Silent
<1>3. ~StartSweep => sweepAt' = sweepAt /\ sweeping' \subseteq sweeping
  BY DEF Next, Poll, Sweep, Clock, Touch, Ingest, Handle, Admit, Reread, Compare, Write, Resolve,
         StartPoll, ApplyPoll, Check, MarkOffline, Raise, sweeper, vars
<1> QED
  BY <1>1, <1>2, <1>3 DEF Fresh, Left

\* A gate found overdue is in the sweep's hand until its alarm is raised.
LEMMA OverdueRaised ==
  ASSUME TypeOK, [Next]_vars, NEW g \in Gates
  PROVE  InHand(g) => InHand(g)' \/ Alarmed(g)'
<1> USE DEF InHand, Alarmed, TypeOK
<1>1. CASE StartSweep \/ \E f \in Gates : Check(f)
  BY <1>1 DEF StartSweep, Check
<1>2. CASE MarkOffline \/ Raise
  BY <1>2 DEF MarkOffline, Raise
<1>3. CASE UNCHANGED sweeper
  BY <1>3 DEF sweeper
<1> QED
  BY <1>1, <1>2, <1>3 DEF Next, Poll, Sweep, Clock, Touch, Ingest, Handle, Admit, Reread,
     Compare, Write, Resolve, StartPoll, ApplyPoll, sweeper, vars

\* A gate silent for good is alarmed for good: what a late Resolve took back, or a
\* sweep begun too early missed, the next sweep makes up for.
THEOREM SilentAlarmed ==
  Spec /\ (\A g \in Gates : Swept(g)) /\ (\A g \in Registered : Polled(g)) => SilentGateAlarmed
<1> SUFFICES ASSUME NEW g \in Gates
             PROVE  Spec /\ (\A f \in Gates : Swept(f)) /\ (\A f \in Registered : Polled(f)) =>
                      (<>[]Silent(g) => <>[]Alarmed(g))
  BY DEF SilentGateAlarmed, Alarmed
<1>1. (\A f \in Gates : Swept(f)) => Swept(g)
  OBVIOUS
<1>2. ASSUME g \in Registered
      PROVE  (\A f \in Registered : Polled(f)) => Polled(g)
  BY <1>2
<1>3. TypeOK /\ [Next]_vars => (IsKnown(g) => IsKnown(g)')
  BY KnownStays DEF IsKnown
<1>4. TypeOK /\ <<ApplyPoll(g)>>_vars => IsKnown(g)'
  BY DEF ApplyPoll, SetOnline, Stamp, IsKnown
<1>5. Spec /\ (\A f \in Registered : Polled(f)) => (<>[]Silent(g) => <>IsKnown(g))
  <2>1. CASE g \in Registered
    BY <1>2, <1>4, <2>1, TypeCorrect, PTL DEF Spec, Polled
  <2>2. CASE g \notin Registered
    <3>1. SeenKnown /\ Silent(g) => IsKnown(g)
      BY <2>2 DEF SeenKnown, Silent, Quiet, Seen, Carried
    <3> QED
      BY <3>1, SeenGates, PTL
  <2> QED
    BY <2>1, <2>2
<1>6. TypeOK /\ [Next]_vars /\ Silent(g) /\ Silent(g)' =>
        /\ Fresh(g)' \/ (~Fresh(g) /\ (Left(g)' => Left(g)))
        /\ Alarmed(g) => Alarmed(g)'
  BY SweepRenewed, SilenceKept
<1>7. TypeOK /\ [Next]_vars => (InHand(g) => InHand(g)' \/ Alarmed(g)')
  BY OverdueRaised
<1>8. TypeOK /\ <<Check(g)>>_vars =>
        /\ Left(g) /\ ~Left(g)' /\ ~InHand(g)
        /\ Silent(g) /\ Fresh(g) => InHand(g)'
  BY DEF Check, Left, InHand, Fresh, Silent
<1>9. IsKnown(g) <=> g \in known
  BY DEF IsKnown
<1>10. Spec /\ Swept(g) => (<>[]Silent(g) /\ <>IsKnown(g) => <>[]Alarmed(g))
  BY <1>3, <1>6, <1>7, <1>8, <1>9, TypeCorrect, PTL DEF Spec, Swept
<1> QED
  BY <1>1, <1>5, <1>10, PTL
==============================================================================
