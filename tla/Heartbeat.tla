------------------------------ MODULE Heartbeat ------------------------------
(***************************************************************************)
(* Who says whether a gate is online: heartbeat requests                   *)
(* (Handlers.IngestHeartbeat, Monitor.ApplyHeartbeat), the sweep           *)
(* (Monitor.Check), the poller (PollManager.PollOnce) and the controller,  *)
(* which renews a gate's UpdatedAt.  GateStore, Monitor and alarm.Manager  *)
(* lock per call, and a step below is one such call.                       *)
(*                                                                         *)
(* Times are seconds; 1 is when the program starts.  RecordSeq is left     *)
(* out: whether a report's own number is behind it is free, for a device   *)
(* numbers its reports as it likes.  Left out too: the history of alarms.  *)
(***************************************************************************)
EXTENDS Naturals

CONSTANTS
  Gates,        \* gates that are heard of, known to the registry or not
  Registered,   \* the gates seedGates registers
  Handlers,     \* goroutines serving heartbeat requests, each reused
  Timeout,      \* Monitor.timeout
  MaxTime       \* bound: the clock stops here

ASSUME RegisteredAssumption == Registered \subseteq Gates
ASSUME TimeAssumption == Timeout \in Nat /\ MaxTime \in Nat \ {0}

VARIABLES
  now,          \* the clock
  known,        \* the gates of GateStore.statuses
  online,       \* online[g]: GateStatus.Online
  offlineSince, \* offlineSince[g]: GateStatus.OfflineSince, 0 if online
  updatedAt,    \* updatedAt[g]: GateStatus.UpdatedAt
  lastSeen,     \* lastSeen[g]: Monitor.lastSeen, 0 if none
  applied,      \* applied[g]: Monitor.applied, 0 if none
  timeouts,     \* timeouts[g]: Monitor.timeouts, of which only 0, 1 and more matter
  alarm,        \* alarm[g]: severity of the active heartbeat-timeout alarm, or "none"
  pc,           \* pc[h]: where request handler h is
  report,       \* report[h]: the request h serves
  polling,      \* gates PollOnce has still to write
  pollAt,       \* the time PollOnce was given
  sweepPc,      \* where the sweep is in Check
  sweeping,     \* gates the sweep has still to check
  sweepAt,      \* the time of the sweep's tick
  late,         \* the gate whose timeout Check is handling
  beat,         \* history: stamp of the last report written into the status of g
  rewound       \* history: gates whose UpdatedAt was set back

vars == <<now, known, online, offlineSince, updatedAt, lastSeen, applied, timeouts, alarm,
          pc, report, polling, pollAt, sweepPc, sweeping, sweepAt, late, beat, rewound>>

status == <<online, offlineSince, updatedAt, beat, rewound>>
monitor == <<lastSeen, applied, timeouts>>
handlers == <<pc, report>>
poller == <<polling, pollAt>>
sweeper == <<sweepPc, sweeping, sweepAt, late>>

Stamps == 1 .. MaxTime
Reports == [gate : Gates, online : BOOLEAN, at : Stamps]
Locations == {"idle", "admit", "reread", "compare", "write", "resolve"}

TypeOK ==
  /\ now \in Stamps
  /\ known \in SUBSET Gates
  /\ online \in [Gates -> BOOLEAN]
  /\ offlineSince \in [Gates -> Nat]
  /\ updatedAt \in [Gates -> Nat]
  /\ lastSeen \in [Gates -> Nat]
  /\ applied \in [Gates -> Nat]
  /\ timeouts \in [Gates -> 0 .. 2]
  /\ alarm \in [Gates -> {"none", "warning", "critical"}]
  /\ pc \in [Handlers -> Locations]
  /\ report \in [Handlers -> Reports]
  /\ polling \in SUBSET Gates
  /\ pollAt \in Stamps
  /\ sweepPc \in {"next", "offline", "raise"}
  /\ sweeping \in SUBSET Gates
  /\ sweepAt \in Stamps
  /\ late \in Gates
  /\ beat \in [Gates -> Nat]
  /\ rewound \in SUBSET Gates

\* BuildApplication: every registered gate counts as seen and as polled online.
Init ==
  /\ now = 1
  /\ known = {}
  /\ online = [g \in Gates |-> TRUE]
  /\ offlineSince = [g \in Gates |-> 0]
  /\ updatedAt = [g \in Gates |-> 0]
  /\ lastSeen = [g \in Gates |-> IF g \in Registered THEN 1 ELSE 0]
  /\ applied = [g \in Gates |-> 0]
  /\ timeouts = [g \in Gates |-> 0]
  /\ alarm = [g \in Gates |-> "none"]
  /\ pc = [h \in Handlers |-> "idle"]
  /\ \E g \in Gates : /\ report = [h \in Handlers |-> [gate |-> g, online |-> TRUE, at |-> 1]]
                      /\ late = g
  /\ polling = {}
  /\ pollAt = 1
  /\ sweepPc = "next"
  /\ sweeping = {}
  /\ sweepAt = 1
  /\ beat = [g \in Gates |-> 0]
  /\ rewound = {}

Clock ==
  /\ now < MaxTime
  /\ now' = now + 1
  /\ UNCHANGED <<known, status, monitor, alarm, handlers, poller, sweeper>>

\* A write of GateStore stamps the status, with a time read some steps ago.
Stamp(g, at) ==
  /\ updatedAt' = [updatedAt EXCEPT ![g] = at]
  /\ known' = known \union {g}

\* The history of a write that does not look at UpdatedAt.
Rewind(g, at) == rewound' = IF at < updatedAt[g] THEN rewound \union {g} ELSE rewound

\* Faulty: an outage begins anew with every write.
SetOnlineAnew(g, up, at) ==
  /\ online' = [online EXCEPT ![g] = up]
  /\ offlineSince' = [offlineSince EXCEPT ![g] = IF up THEN 0 ELSE at]
  /\ Stamp(g, at)

\* What ApplyPoll, WriteHeartbeat and ApplyOffline write.
SetOnline(g, up, at) ==
  /\ online' = [online EXCEPT ![g] = up]
  /\ offlineSince' = [offlineSince EXCEPT ![g] = IF up THEN 0 ELSE IF @ = 0 THEN at ELSE @]
  /\ Stamp(g, at)

\* The controller's SetState, RecoverToClosed and RecordFault: the second may turn
\* between their reading of the clock and the write.
Touch(g) ==
  /\ \E at \in {now, now - 1} \ {0} : Stamp(g, at) /\ Rewind(g, at)
  /\ UNCHANGED <<now, online, offlineSince, beat, monitor, alarm, handlers, poller, sweeper>>

\* The handler goes on; what a report says is dead once the report is decided upon.
Goto(h, l) ==
  /\ pc' = [pc EXCEPT ![h] = l]
  /\ report' = IF l \in {"compare", "write"} THEN report
               ELSE [report EXCEPT ![h].online = TRUE, ![h].at = 1]

\* Faulty: a report without a time keeps its zero.
TimeAsGiven(at) == at
\* A report without a time is stamped on arrival.
TimeOf(at) == IF at = 0 THEN now ELSE at

\* A request, stamped by the device or, with 0, on arrival; then Monitor.Ingest,
\* which takes every stamp, older than the last one or not.
Ingest(h) ==
  /\ pc[h] = "idle"
  /\ \E g \in Gates, up \in BOOLEAN, at \in 0 .. MaxTime :
       /\ report' = [report EXCEPT ![h] = [gate |-> g, online |-> up, at |-> TimeOf(at)]]
       /\ lastSeen' = [lastSeen EXCEPT ![g] = TimeOf(at)]
  /\ pc' = [pc EXCEPT ![h] = "admit"]
  /\ UNCHANGED <<now, known, status, applied, timeouts, alarm, poller, sweeper>>

\* ApplyHeartbeat: a report older than one admitted before is not applied.
Admit(h) ==
  LET r == report[h] IN
  /\ pc[h] = "admit"
  /\ applied' = [applied EXCEPT ![r.gate] = IF r.at < @ THEN @ ELSE r.at]
  /\ Goto(h, IF r.at < applied[r.gate] THEN "reread" ELSE "compare")
  /\ UNCHANGED <<now, known, status, lastSeen, timeouts, alarm, poller, sweeper>>

\* Where the status that ApplyHeartbeat returns leads.
Answer(up) == IF up THEN "resolve" ELSE "idle"

Reread(h) ==
  LET g == report[h].gate IN
  /\ pc[h] = "reread"
  /\ known' = known \union {g}
  /\ Goto(h, Answer(online[g]))
  /\ UNCHANGED <<now, status, monitor, alarm, poller, sweeper>>

\* The status read before the write: a report older than the status is not applied.
Compare(h) ==
  LET g == report[h].gate IN
  /\ pc[h] = "compare"
  /\ known' = known \union {g}
  /\ Goto(h, IF report[h].at < updatedAt[g] THEN Answer(online[g]) ELSE "write")
  /\ UNCHANGED <<now, status, monitor, alarm, poller, sweeper>>

\* Faulty: relies on the comparison made before.
WriteUnchecked(h) ==
  LET r == report[h] IN
  /\ pc[h] = "write"
  /\ SetOnline(r.gate, r.online, r.at)
  /\ beat' = [beat EXCEPT ![r.gate] = r.at]
  /\ Goto(h, Answer(r.online))
  /\ UNCHANGED <<now, rewound, monitor, alarm, poller, sweeper>>

\* WriteHeartbeat, which compares again under the lock; a report may also be dropped
\* because its number is behind RecordSeq.
Write(h) ==
  LET r == report[h] IN
  /\ pc[h] = "write"
  /\ \/ /\ r.at >= updatedAt[r.gate]
        /\ SetOnline(r.gate, r.online, r.at)
        /\ beat' = [beat EXCEPT ![r.gate] = r.at]
        /\ UNCHANGED rewound
        /\ Goto(h, Answer(r.online))
     \/ /\ Goto(h, Answer(online[r.gate]))
        /\ UNCHANGED <<known, status>>
  /\ UNCHANGED <<now, monitor, alarm, poller, sweeper>>

\* IngestHeartbeat: the status said online.
Resolve(h) ==
  /\ pc[h] = "resolve"
  /\ alarm' = [alarm EXCEPT ![report[h].gate] = "none"]
  /\ Goto(h, "idle")
  /\ UNCHANGED <<now, known, status, monitor, poller, sweeper>>

Handle(h) == Admit(h) \/ Reread(h) \/ Compare(h) \/ Write(h) \/ Resolve(h)

\* PollOnce: the device states, which nothing changes after the start, are all online.
StartPoll ==
  /\ polling = {}
  /\ polling' = Registered
  /\ pollAt' = now
  /\ UNCHANGED <<now, known, status, monitor, alarm, handlers, sweeper>>

\* ApplyPoll.
ApplyPoll(g) ==
  /\ g \in polling
  /\ polling' = polling \ {g}
  /\ SetOnline(g, TRUE, pollAt)
  /\ Rewind(g, pollAt)
  /\ UNCHANGED <<now, beat, monitor, alarm, handlers, pollAt, sweeper>>

Poll == StartPoll \/ \E g \in Gates : ApplyPoll(g)

\* heartbeatSweep: a tick, and the gates GateStore lists then; if there are none
\* nothing happens.
StartSweep ==
  /\ sweepPc = "next"
  /\ sweeping = {}
  /\ known # {}
  /\ sweeping' = known
  /\ sweepAt' = now
  /\ UNCHANGED <<now, known, status, monitor, alarm, handlers, poller, sweepPc, late>>

\* Check: the read that decides.  Only the sweep counts timeouts, so its second
\* critical section is part of the step.
Check(g) ==
  LET overdue == lastSeen[g] # 0 /\ sweepAt > lastSeen[g] + Timeout IN
  /\ sweepPc = "next"
  /\ g \in sweeping
  /\ sweeping' = sweeping \ {g}
  /\ IF overdue
     THEN /\ timeouts' = [timeouts EXCEPT ![g] = IF @ = 0 THEN 1 ELSE 2]
          /\ late' = g
          /\ sweepPc' = "offline"
     ELSE UNCHANGED <<timeouts, late, sweepPc>>
  /\ UNCHANGED <<now, known, status, lastSeen, applied, alarm, handlers, poller, sweepAt>>

\* ApplyOffline, whatever has been reported since the read.
MarkOffline ==
  /\ sweepPc = "offline"
  /\ sweepPc' = "raise"
  /\ SetOnline(late, FALSE, sweepAt)
  /\ Rewind(late, sweepAt)
  /\ UNCHANGED <<now, beat, monitor, alarm, handlers, poller, sweeping, sweepAt, late>>

\* Faulty: only the first timeout of a gate raises an alarm.
RaiseFirst ==
  /\ sweepPc = "raise"
  /\ sweepPc' = "next"
  /\ alarm' = [alarm EXCEPT ![late] = IF timeouts[late] >= 2 THEN @ ELSE "warning"]
  /\ UNCHANGED <<now, known, status, monitor, handlers, poller, sweeping, sweepAt, late>>

\* Raise: critical from the gate's second timeout on.
Raise ==
  /\ sweepPc = "raise"
  /\ sweepPc' = "next"
  /\ alarm' = [alarm EXCEPT ![late] = IF timeouts[late] >= 2 THEN "critical" ELSE "warning"]
  /\ UNCHANGED <<now, known, status, monitor, handlers, poller, sweeping, sweepAt, late>>

Sweep == StartSweep \/ (\E g \in Gates : Check(g)) \/ MarkOffline \/ Raise

Next ==
  \/ Clock
  \/ \E g \in Gates : Touch(g)
  \/ \E h \in Handlers : Ingest(h) \/ Handle(h)
  \/ Poll
  \/ Sweep

Spec == Init /\ [][Next]_vars

\* Requests that have begun are served, and the tickers of poller and sweep tick.
FairSpec ==
  /\ Spec
  /\ \A h \in Handlers : WF_vars(Handle(h))
  /\ WF_vars(Poll)
  /\ WF_vars(Sweep)

------------------------------------------------------------------------------
(* Properties. *)

\* While a gate stays offline the start of its outage does not move, however
\* many sweeps, and reports that it is offline, follow.
OutageStartKept ==
  [][\A g \in Gates : ~online[g] /\ ~online'[g] => offlineSince'[g] = offlineSince[g]]_vars

\* Poller, sweep and reports, each writing by a time of its own, together keep the
\* record of outages: one start for each, and none beside a gate that is online.
Outages == INSTANCE Presence
ImplementsPresence == Outages!Spec

\* Of concurrent, late or reordered reports an older one never replaces a newer:
\* both of two handlers may have compared before either writes.  Only a poll, a
\* sweep or the controller that set UpdatedAt back lets an older report in.
NewestReportWins == [][\A g \in Gates \ rewound' : beat'[g] >= beat[g]]_vars

Quiet(g) == \A h \in Handlers : pc[h] # "idle" => report[h].gate # g
Silent(g) == Quiet(g) /\ lastSeen[g] # 0 /\ now > lastSeen[g] + Timeout

\* A gate that falls silent for good is alarmed for good: an alarm that a late
\* Resolve takes back, or that a stale sweep missed, is raised again.
SilentGateAlarmed == \A g \in Gates : <>[]Silent(g) => <>[](alarm[g] # "none")
==============================================================================
