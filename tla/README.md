# AFC gate control: TLA+ models, model checking and proofs

This directory holds the formal model of the automatic fare collection (AFC) gate
control service in `src/`: a Go program that validates a passenger's ticket, opens and
closes gates behind a sensor confirmation, counts passages, watches device heartbeats and
raises alarms. The modules model the code (not its README), TLC checks them on small
instances, and TLAPS proves for every value of the constants what the runs show of a few.

`PROJECT.json` is the index: components, runs, the source lines each definition models,
the mutants that show a property can fail, findings, hazards and theorems.

## 1. The system

One process. HTTP handlers run one goroutine per request; `RunBackground`
(`cmd/afc/server.go:144`) starts five more: poller, snapshot loop, heartbeat sweep, dedup
sweep, scheduler. Every table (`GateStore`, `TicketStore`, `DedupManager`, `RuleCache`, ...)
is behind a mutex of its own, taken **per method**; no lock spans two tables or two calls.
There are therefore few data races, and many races between calls. That decides the grain
of the models: *a step is one locked call with the local computation around it.*

| Component | State | Operations | Hard behaviour | Correct when |
|---|---|---|---|---|
| Gate controller (`internal/gate/gate.go`, `state.go`, `sensor.go`) | per gate: state, faults, Online, UpdatedAt, RecordSeq | `Open`, `Close` (4 to 7 calls each), `SetState`, `RecoverToClosed`, `RecordFault`, `IsOpen` | swipes and the scheduler drive one gate at once; the sensor times out; actuators fail | a movement is ended by the call that makes it, no gate is left half-way, openings are counted, no movement ends and no fault is recorded in silence |
| Scheduler (`schedule.go`) | entries (OpenAt, CloseAt) | `Add`, `RunOnce` | acts on a state it read before | opens and closes only by the gate's table |
| Ticket store, validator, dedup (`internal/ticket`, `internal/dedup`, `gate.go:75-111`) | record and file per ticket; dedup entry with time to live | `Lookup`, `MarkEntered`, `MarkExited`, `ResetEntry`, `Set`, `Check`, `Clear`, `Sweep`, `loadAll`, seeding | two handlers with one ticket; failed writes; restart; expiry | a ticket admits one holder at a time and is never locked out |
| Rules (`internal/rule`, `RuleCache` in `ticket.go`) | rule per group with version, cache at the gate, audit | `Upgrade`, `Broadcast`, `Update`, `Append` | stored in one order, delivered in another | an answered upgrade is enforced, the cache converges |
| Event recorder (`events.go`, `eventstore.go`) | one handle per gate in a map, files | `openForAppend`, `appendLine`, `closeHandle`, `Close` | two records of one gate overwrite each other's handle; shutdown under a record | events are written, files closed |
| Alarms (`internal/alarm`) | alarms by gate and kind, active or not; history | `Raise`, `Resolve` | raise and resolve race; one alarm for all tickets of a gate | an abnormal gate has an alarm, a resolved alarm is on file |
| Passage counter, statistics, recovery (`internal/passage`) | totals, pending, session counts | `Count`, `Snapshot`, `ResetSession`, `Record`, `FlushPending`, `Replay`, `Restore` | rebuilt from events at a restart | no passage lost or counted twice |
| Heartbeat monitor, poller (`internal/heartbeat`, `poll.go`) | lastSeen, applied, timeouts; device states | `Ingest`, `Check`, `ApplyHeartbeat`, `PollOnce` | three writers of Online with clock stamps | Online follows the newest report |
| Session ledger, channels (`session.go`, `channel.go`) | lists of snapshots, the latest of each | `Save`, `SnapshotChannel` | taken in steps while passages are recorded | a snapshot is of one flush |
| Registry (`registry.go`) | the gates of the configuration | filled at the start, then read | none of its own | |
| HTTP layer (`cmd/afc`) | none | a handler per request; startup, loops, shutdown | a handler calls several components in turn, and nothing takes a call back | what an answer says has happened |
| Reports, formatting | none | sorting, `itoa`, `int64String` | none | |

Interactions: `Handlers.Swipe` calls `HandleEntry` (validator, ticket store, dedup) and, when
the swipe is allowed, `Open`; an exit swipe calls `HandleExit` and never moves the gate.
`Open` writes `GateStore`, waits for the sensor, asks `PassageCounter.Count` (which reads
`GateStore` back through `IsOpen`), records an event, and on an error raises an alarm.
`UpgradeRule` writes `RuleStore`; `ChangeNotifier` calls `RuleCache.Update`, which the
validator of later swipes reads. At a restart only ticket files and event files survive.

The hazards that follow from this are listed, each at its line, in `PROJECT.json`.

## 2. Modules

    GateMachine       abstract: what a gate promises         (refined by GateControl)
    GateControl       controller, scheduler, sensors         MCGateControl, GateControlProofs
    Schedule          scheduler's table and clock            MCSchedule,    ScheduleProofs
    TicketLife        abstract: what a ticket goes through   (refined by Ticketing)
    Ticketing         tickets, dedup, restarts               MCTicketing,   TicketingProofs
    Station           a swipe: ticket, gate, alarms          MCStation,     StationProofs
    RuleBook          abstract: what an upgrade promises     (refined by RuleUpgrade)
    RuleUpgrade       rule store, notifier, cache, audit     MCRuleUpgrade, RuleUpgradeProofs
    Presence          abstract: a gate's outages             (refined by Heartbeat)
    Heartbeat         monitor, poller, Online, its alarm     MCHeartbeat,   HeartbeatProofs
    EventLog          event recorder and its handles         MCEventLog,    EventLogProofs
    PassageLedger     abstract: what the totals promise      (refined by Statistics)
    Statistics        counter, totals, snapshots, restart    MCStatistics,  StatisticsProofs

Components are modelled apart and then composed at a coarser grain. `GateControl` has the
steps of one movement; `Schedule`, `Statistics` and `Station` take a movement as one or two steps whose possible
results are those `GateControl` shows. `Ticketing` has the files, restarts and dedup entries of a
ticket; `Station` takes refusals and failed writes as choices and adds the gate and the alarms.

An MC module adds at most the symmetry of interchangeable goroutines and tickets. Operators whose
comment begins "Faulty" are plausible bugs, used by the mutants; no specification uses them.
Variables marked `history` are not in the program: they record what happened so that a
property can speak of it, and no guard reads one except through a named bound.

### GateControl

`state`, `faults` are the fields of `GateStatus`, `totals` the counter. A goroutine `d` has a
location `pc[d]` and the locals `gate`, `op`. `Drivers` are the swipe handlers and the scheduler.
`faults` has two writers, the error path of a movement and `HandleExit` when its flow fails, and both are
actions; one raises its alarm after the fault, the other before it. Of the alarms only those calls of `Raise` are counted
(`raised`): an alarm of a kind that is active already changes nothing, and `HandleExit` resolves its kind, so a fault is not told by
what is active. What is active, and `Resolve`, are in `Station`.

| Action | Code |
|---|---|
| `Request`, `Tick` | `Swipe` calls `Open`; `RunOnce` reads the state and later calls `Open` or `Close` |
| `Begin` | first `SetState`; an illegal transition ends the call |
| `Actuate`, `ActuatorFails` | `sensor.Open`, `sensor.Close` |
| `Confirm`, `Timeout` | the two ends of `waitConfirmation` |
| `Commit` | second `SetState`; its error leaves `Open`/`Close` with no recovery |
| `Verify`, `Count`, `Undo` | `IsOpen` again, `PassageCounter.Count`, or `RecoverToClosed` |
| `Fallback`, `Fault`, `RaiseCause` | the three calls of the error path |
| `ExitFails`, `ExitFault` | `HandleExit` with a failed flow: `Raise` (`gate.go:98`), later `RecordFault` (`gate.go:100`) |

The sensor of the program (`DirectSensor`) never fails; `Sensor` is an interface whose
errors the code handles, so `ActuatorFaults` says whether they occur. Whether
an entry's OpenAt or CloseAt has passed is free here; `Schedule` has the entries.

### Schedule

`entries` is the table, `copy` and `stamp` the locals of `RunOnce`, `current` the gate it works on, `now` the clock.

| Action | Code |
|---|---|
| `Add` | `Scheduler.Add`, at any time, replaces the entry of a gate |
| `StartRun`, `Look`, `EndRun` | a tick copies the entries under the lock; then, gate after gate in any order (a map), one `Status` decides |
| `Open`, `OpenFails`, `Close` | the call decided on, whatever has become of gate and entry meanwhile |
| `SwipeOpens` | a swipe; nothing but the scheduler closes a gate |
| `Pass` | the clock |

### Ticketing

`records` is memory, `disk` the ticket files, `dedup` the entry of the swipe key; `copy[d]` is
the status in the copy `Lookup` gave handler `d`, which the code keeps using.
`HandleEntry` is Lookup, `Check` (status, dedup, rule), `Mark` (memory, then file),
`Remember` (dedup); then the swipe handler calls `Open`, which lets the holder in or turns him away, his ticket
taken. `holder` says which: "outside", "inside" or "refused". `HandleExit` is Lookup, `Leave`, `Confirm` (second Lookup), and on a
failure `Clear`, `Clear`, `Reset`. `Stop` loses the memory wherever handlers are, `spoiled` the tickets they had
in hand, those waiting for the gate included;
`Start` is `loadAll` followed by `seedTickets`. `WriteRecord` changes memory before the file, as
`persist` does, so that a failed write leaves them different.

`TicketLife` is what a passenger can rely on: absent, unused, entered, exited and unused again, the
holder following one step behind: let in (`LetIn`) or turned away (`TurnAway`) after the ticket is recorded as entered, out
after it is recorded as exited. `Ticketing` implements it with `life` what memory, or while the process is down the
file, says (`Known`), and `disturbed` the tickets `overlapped` or `spoiled`. In it a used ticket comes back into use only by `ResetEntry`, with its holder outside.

### Station

`status` and `station` are the ticket store, `state` the gates, `alarms`, `active`, `filed` the alarm
manager by keys (gate and kind): stored, active, with a copy in the history. A swipe of a handler is `Request`
(with `Lookup`), then for an entry `Refuse` or `Accept`, `BeginOpen`, one of `Opened`, `OpenOvertaken`,
`OpenFails` with `RaiseCause`, and for every error of `Open` `Report`; for an exit `Leave`, `Confirm`, and
`ResolveWriteback` or `Reset` with `RaiseWriteback`. The scheduler moves gates between a swipe's steps.
The ticket is taken (`Accept`) before the gate is driven and given back by nothing.

### RuleUpgrade

A rule is its version (`RuleStore.seq` never gives one twice). `Request` to `Record` are the
calls of `UpgradeRule` in order: `Set`, `Broadcast`, `Update` (in `RuleCache`), `Readback`, `Record`.
`RuleFor` is the cache's lookup with its fallback on the default group.

`RuleBook` is an upgrade seen by gates and clients: a newer rule comes into force, then its request is answered, then the next may
come. `RuleUpgrade` implements it with `rule` the cache, `answered` the last answer and `contended` the groups
`overlapped`.

### Heartbeat

`online`, `offlineSince`, `updatedAt` are fields of `GateStatus`, `known` the gates in `GateStore`'s map;
`lastSeen`, `applied`, `timeouts` those of `Monitor` (of a count only 0, 1 and more matter:
severity is critical from the second timeout on); `alarm` is the heartbeat-timeout alarm.
A request runs `Ingest`, `Admit` (older than the last admitted?), `Compare` (older than the status?),
`Write` (compared again under the lock), `Resolve` when the returned status was online. A poll is
`StartPoll`, then one `ApplyPoll` per registered gate with the time taken at its start; a sweep
is `StartSweep`, then per gate `Check` (the read that decides), `MarkOffline`, `Raise`. `Touch` is any write of
the controller, of which only the stamp matters here. A report's own number is compared with
`RecordSeq` in the code; the outcome is free in `Write`. Stamps are positive, from a clock that stops at `MaxTime`;
a device may stamp its report with any of them, the future included.

`Presence` is the status of a gate as one careful writer would keep it: offline with the start of the outage, online
without. `Heartbeat` implements it with the same two variables, whichever of its writers acts.

### EventLog

`slot` is the map of handles, `open` the files open in the operating system, `handle[r]` the local
handle of a `Record`. `CloseHandle` closes what *the map* holds. `Finalize` is external:
the Go runtime closes a file nobody refers to, at some time or never.

### Statistics

`passages` and `sessions` are the counter's, `totals` and `pending` those of `StatsService`, `saved` and
`snapshot` the latest session and channel snapshots, `events` the entry events on file. An entry swipe is `HandleEntry` (the event, written or not), `Open` or
`OpenFails`, `Record`. `FlushPending`, `Save`, `ResetSession` and `SnapshotChannels` are the calls of a round of
`snapshotLoop`, with passages recorded in between. `Restart` ends the process anywhere and replays the events
of the registered gates; `SessionLedger` and `ChannelRegistry` start empty, so `Restore` and `Recover`
find nothing and are not actions. `ScheduledOpen` and `Poll` change what counts and what is listed.
`PassageLedger` is the abstract specification: a passage is added once, and a restart starts from the files.

## 3. What each run checks

Runs that pass:

| Run | Instance | Shows |
|---|---|---|
| `gate_control` | 1 gate, 2 swipes, scheduler, all failures, 2 openings begun, 1 failed exit, `FairSpec` | no abandoned movement (`NoOrphanTransient`), one driver (`ExclusiveDriver`), exact counting, and a movement taken over only where an opening then goes uncounted (`CountsMatchOpens`), no silent end: every movement and every failed exit ends in a commit or a fault, but for refused commits, never more than the openings that go uncounted, and every fault has its call of `Raise` (`FaultsAccounted`); movements ended by their own call (`MovementsEndConfirmed`), refinement of `GateMachine` with its liveness: a movement always ends (`ImplementsLiveMachine`) |
| `schedule` | 2 gates, 2 entries added, times to 2, `FairSpec` | the scheduler moves the gate it looked at and never early, replaced entries excepted (`MovesWhenDue`); a due gate is closed again and again (`DueGateCloses`) and opened again and again (`DueGateOpens`) |
| `ticketing` | 1 ticket, 3 handlers, failing writes, expiry, restarts | for swipes that do not overlap a ticket is recorded as entered iff its holder is inside or was turned away by the gate (`LedgerMatchesHolders`), `OneHolder`, `NoLockout`, `Durable`, refinement of `TicketLife` (`ImplementsLife`): among others, a used ticket is never entered on a stale copy |
| `station` | 2 tickets, 1 scheduled gate, 2 handlers, 4 swipes, all failures | an entered ticket is explained by its holder, a swipe under way or an active alarm at its gate (`EnteredExplained`); the writeback alarm tells how the last exit ended (`WritebackTellsLastExit`) |
| `rule_upgrade` | 3 groups, one without a rule, 3 requests, versions to 5 | `UpgradeTakesEffect`, `CacheIsStore`, `AuditComplete`; whatever overlaps, a group enforces a rule granted to it and none newer than the store's (`EnforcedGranted`); refinement of `RuleBook` (`ImplementsRuleBook`): among others, no group returns to an older rule |
| `heartbeat` | 1 gate, 2 requests, poller, sweep, controller, 2 seconds, every silence overdue | refinement of `Presence` (`ImplementsPresence`): an outage has one start, kept while it lasts; no older report replaces a newer (`NewestReportWins`) |
| `heartbeat_liveness` | same with 1 request at a time, 3 seconds, overdue after 2, `FairSpec` | a silent gate is alarmed for good (`SilentGateAlarmed`) |
| `event_log` | 2 gates, 3 records, 3 handles a gate, a shutdown | `SlotOwned`, `LostOnlyIfDisturbed`, `NoLeakUndisturbed` |
| `statistics` | a registered and another gate, 2 swipes, snapshot loop, 3 openings, 1 restart | every entry is on one account (`EntriesAccounted`), `SessionsAccounted`, `SnapshotsCurrent`, a restart moves totals only by entries refused, under way or unwritten (`RestartRecounts`), refinement of `PassageLedger` (`ImplementsLedger`) |

Many of these properties except gates, tickets or groups that a history variable marks
(`stolen`, `overlapped`, `spoiled`, `contended`, `shut`, `rewound`, `replaced`, `mixed`). The exception is the point: the
property says that *nothing but* that kind of overlap can break the promise. No exception is made in `NoOrphanTransient`,
`CountsMatchOpens`, `FaultsAccounted`, `AuditComplete`, `EnforcedGranted`, `SlotOwned`, `EnteredExplained` and the accounts of `statistics`: these say
what is left however calls overlap. Two of the exceptions are reached and matter, and so does what `AuditComplete` says:

- `OneHolder`: two handlers pass `validateEntry` with one ticket before either writes; both holders are let in.
- `MovementsEndConfirmed`: `Open` commits; the scheduler begins to close; `Open` finds the gate not open and
  calls `RecoverToClosed` (`gate.go:137-138`), which ends the scheduler's closing unconfirmed.
- `AuditComplete`: "before" is read after the upgrade (`handlers.go:153`), so it is never the rule replaced; the property
  says exactly that.

Runs that find the code at odds with what it says (one property each):

| Run | Property | What happens |
|---|---|---|
| `ticket_reuse` | `UsedStaysUsed` | a second exit swipe fails and resets the used ticket to unused (`gate.go:97`) |
| `rule_race` | `TakesEffectAlways` | `Set` and `Broadcast` of two upgrades interleave: the older rule stays in the cache |
| `station_refused` | `ValidTicketOpens` | nothing fails and swipes come one by one: the first opens the gate and nothing closes it; the second passenger's ticket is marked entered, `Open` refuses the open gate, and the ticket cannot be used for an entry again |

### Bounds

- `GateControl.MaxCycles` bounds the openings begun on a gate: no *request* starts beyond it,
  calls under way always finish. Goroutines interfere through at most two
  movements, one overtaken and one that overtakes; with two openings a gate can be opened, closed and reopened
  under a slow call, which is how `stolen` and `raced` are reached.
  One gate is enough because no step reads or writes two gates; the proofs cover
  any number.
- `GateControl.MaxExits` bounds the failed exits at a gate. They move no gate and read nothing, so one is
  enough to fall between any two steps of the movements.
- `Ticketing` has no counter: the state space is finite as it is. The run's ticket is not seeded, so that
  restarts carry its record; seeding is in `ticket_reuse` and, for all sets of seeds, in the proofs.
- `Heartbeat.MaxTime` stops the clock. Two seconds tell an older stamp from a newer, and with
  `Timeout` 0 let every gate fall overdue; the liveness run takes three seconds, so that a report can be late without
  being overdue. One gate is enough for interleavings, for no step reads two gates; a batch's time grows stale
  on one gate as it does on many, because other steps run between its start and its write.
- `RuleUpgrade.MaxSeq` bounds the versions given (a request passing the test together with
  others may exceed it, as the actions do not check it again).
- `EventLog.MaxHandles` bounds the handles of a gate; a handle number is used once.
- `Schedule.MaxTime` stops the clock and is the latest time of an entry; with 2 a gate can be due to open
  before, with or after it is due to close. `MaxAdds` 2 lets an entry be replaced during a run, or both gates have one.
- `Statistics.MaxEntries` bounds entries and scheduled openings: with 3, both swipes can be under way while a third entry has
  failed or been flushed. `MaxRestarts` 1: all that a restart leaves is `events`, and a second one starts from
  states of the same form.
- `Station.MaxSwipes` bounds the swipes: with 4, both tickets can be entered and exited, or one be refused,
  reset and taken again. Gates meet only in the scheduler, so one is enough; the proofs cover any number.

`CHECK_DEADLOCK FALSE` stands in the configurations of `GateControl`, `RuleUpgrade`, `EventLog` and `Station`: once a bound
is reached and all calls have returned nothing is left to do. `Ticketing` never
stops (a process can always be restarted), nor do `Heartbeat`, `Schedule` and `Statistics` (the tickers), so there the
deadlock check is on.

### Fairness

Three runs assume any. `gate_control`: weak fairness of `Proceed(d)` for each goroutine, that is,
a goroutine inside `Open` or `Close` eventually takes its next step. The Go scheduler runs every
runnable goroutine, mutexes are held for a few instructions, and the only wait, for
the sensor, is bounded by `openTimeout` (`waitConfirmation` returns on either). No request
is assumed to arrive, no sensor to confirm, no actuator to work: the fairness is on the
disjunction, so always failing is a fair behaviour. `GateMachine` states its liveness as what it is for, that a gate
is at rest again and again (`LiveSpec`); the run and the theorem `MovementsEnd` show it is implied.

`heartbeat_liveness`: weak fairness of each handler's steps, of the poller and of the sweep. A
request that has begun runs to its end, and `Run` and `heartbeatSweep` loop on a ticker until the process
ends. Neither the clock nor any report is assumed: that a gate is silent for good, its last report older
than the timeout, is the hypothesis of the property.

`schedule`: weak fairness of the clock and of `RunOnce`, which a ticker calls until the process ends and whose calls
are bounded by the sensor's timeout; strong fairness of `Open` on each gate, that is, a gate the scheduler opens again
and again opens at some time. That is the one assumption on hardware; without it a broken actuator keeps a due gate
closed for ever, as it should. `DueGateCloses` does not need it: a failed `Close` is recorded as closed. No swipe and no entry is assumed.

## 4. What is proved

The theorems say `Spec => []P`, `Spec => [][A]_vars`, `Spec =>` a refinement, or `Spec /\ H => L` for a liveness property `L`
under the fairness `H` it needs; they hold for every value of the constants that satisfies the named ASSUMEs (the scheduler is not a swipe handler, bounds are
naturals, seeds are tickets, registered and scheduled gates are gates, the default group has a rule, the swipe handlers are finitely many where they are
counted). Every property of the passing runs is proved: the invariants, the action properties, the refinements of `TicketLife`, `RuleBook`, `Presence` and `PassageLedger`, that of `GateMachine` with
its liveness, and the other liveness properties.

**GateControlProofs** - `TypeCorrect`, `NoOrphans`, `Exclusive`, `EndConfirmed`, `CountsExact`,
`FaultsCounted`, `MovementsEnd`. `NoOrphanTransient` is inductive with the typing because a movement is
entered only by `Begin` of a call that then drives it, and the driver's exits (`Commit`,
`Fallback`) leave the movement. That an exit does so needs no exclusiveness: whatever
the state is then, if it is this driver's movement the exit ends it. `ExclusiveDriver` rests on the
table: `Begin` succeeds only from a settled state, where the invariant leaves no driver.
The lemma `ProceedStates` says which states a call's step can lead to; the table
of `GateMachine` (lemma `FollowsMachine`) and `EndConfirmed` follow from it. `CountsExact` counts the goroutines that still owe a count: `OwedEnter`, `OwedLeave` and
`OwedStays` say how their number moves, and `Overtaken` that one which will give up has been overtaken by a closing. `StealsDropped` adds what a stolen movement costs.
`FaultsCounted` counts the goroutines still at work on a gate (`AtMoves` says how their number moves) and rests on `Spared`: drivers beyond the
one that a gate in a movement has, and refused commits, are never more than the openings given up. A driver without a movement was robbed
of it by an `Undo`, and that `Undo` gave up an opening.
`MovementsEnd`: a gate in a movement has a maker (`NoOrphans`); while the movement lasts nobody turns it into another
(`MovementStays`), and each step of the maker brings him closer to its end or ends it (`MakesStep`, over the locations in their order).

**TicketingProofs** - `TypeCorrect`, `Ledger`, `SingleHolder`, `NeverLockedOut`, `FilesFollow`,
`LivesInOrder`, `NoStaleEntry`. None of the properties is inductive: they speak of tickets at rest, and a
handler half-way through has to be described too. The invariant is
`Alone` (a ticket never overlapped has one handler at most), `Down` (a stopped process has no
handlers and no memory), `Phases` (for each location, what handler's copy, record and
dedup entry are then), `Books` (where the holder of an undisturbed ticket is at each of them) and the properties themselves, of a ticket at rest. `LivesInOrder` takes it further: a
step of the swipe that has a ticket to itself is the next one of its life (`SwipeLives`), and stop and start are
none, or disturb it (`RestartLives`). For that `Books` says what the record is while a failed exit is cleared and reset.

**RuleUpgradeProofs** - `TypeCorrect`, `TakesEffect`, `CacheConverges`, `Audits`, `BookKept`, `OnlyGranted`, `Monotone`. The invariant:
`VersionsGiven` (nothing is newer than `seq`), `Alone`, `OnTheWay` (what store and cache hold at each
location of the group's only upgrade), `CacheIsStore`, `AckedEnforced`. For `Audits`, without any exception for overlaps: a version is
carried by exactly one request or stands in exactly one record (`Once`), and what a request reads back is not older
than what it stored (`Carried`). `BookKept` follows how far answers lag behind the cache at each location (`BookInv`). `OnlyGranted`, without
the exception too (`EnforcedGranted`), is what overlapping upgrades cannot break: a group enforces a rule it was granted, never one
of another group, never one newer than the store's. `rule_race` shows that it need not be the newest.

**HeartbeatProofs** - `TypeCorrect`, `OutagesInOrder`, `OutagesKept`, `NewestWins`, `SilentAlarmed`. `OutagesInOrder` and `OutagesKept` rest on `OutageOnRecord`, that a gate is offline exactly when the
start of its outage is on record, which is inductive with the
typing, which says that stamps are positive (0 is how the code says "no outage"). `NewestReportWins` needs `Ahead`: a
status whose UpdatedAt was never set back is at least as new as the last report written into it.
The lemma `StatusSteps` reduces the actions to three forms of write. `SilentAlarmed`: a gate the monitor has seen is known to the store or soon will
be (`SeenGates`); a sweep begun when the silence was overdue finds it overdue (`SilenceKept`, `SweepRenewed`) and raises the alarm
(`OverdueRaised`), and no report is left to resolve it.

**EventLogProofs** - `TypeCorrect`, `SlotsOwned`, `LossExplained`, `LeakExplained`. The invariant:
`Alone`, `Held` (an undisturbed record finds its own open handle in the map), `Numbered` (handle numbers
do not exceed those given, so a new handle is new) and the positivity of handles.

**StatisticsProofs** - `TypeCorrect`, `Entries`, `Sessions`, `Snapshots`, `Recounts`, `Refinement`. The invariant: `Accounted` (the
accounts with the number of handlers at work, which `BusyEnter`, `BusyLeave` and `BusyStays` follow step by step),
`NoneOld` (nothing of a registered gate is left unreplayed) and `SnappedKnown` (a gate with a snapshot is listed in every later
round, or its snapshot would grow stale). `Recounts` compares the accounts before a restart with the files.

**ScheduleProofs** - `TypeCorrect`, `MovesDue`, `DueCloses`, `DueOpens`. The invariant: the tick's time has passed, the copy is the table but for the
replaced entries (`CopyCurrent`), and what has been decided is due by the copy (`DecidedDue`). For liveness: what holds of the
table for good holds of the next copy (`CopyRenewed`), a look at the gate then decides for the call that is due (`LookDecides`), and the
call is made, whatever has become of the gate (`DecidedDone`).

**StationProofs** - `TypeCorrect`, `Entered`, `Told`, `OpensOnce`. `Explained` strengthens `EnteredExplained`: the swipe under
way is at the gate of the record, or its alarm would be of another gate. `Told` rests on `Alone` (one exit at a gate at a time
where none overlapped), `Decided` (a handler about to raise or resolve has decided the gate's last exit) and `Tells`
(otherwise the alarm already says so).

`OpensOnce` is the general form of what `station_refused` finds on one run: at a gate the scheduler has no entry for, a swipe that opens it is the last
one that does. Only its handler moves such a gate (`OneOpener`), so that it is open for good afterwards, and every
later handler that took a ticket ends in the error report.

### What the liveness theorems assume

The provers have neither ENABLED nor induction over data, so the fairness in the theorems is stated by the guards:

| Hypothesis | Says | In the specification's fairness |
|---|---|---|
| `Progress(d)` (`MovementsEnd`) | goroutine `d` is idle again and again, or steps again and again | `WF_vars(Proceed(d))`; the lemma `FairProgress` derives it from `FairSpec` and `NeverBlocked`, that a goroutine in a call can always step, which is what the values of `pc` and the guards of the disjuncts say |
| `LooksAt(g)` (`DueCloses`, `DueOpens`) | the scheduler looks at `g` again and again | `WF` of the clock and of `RunOnce`, which takes each gate of its copy in turn |
| `OpensAtLast(g)` (`DueOpens`) | an opening tried again and again succeeds again and again | `SF_vars` of `Open` on `g`, with its guard for ENABLED |
| `Swept(g)`, `Polled(g)` (`SilentAlarmed`) | a known gate is checked, a registered one polled, again and again | `WF` of the sweep and of the poller, which take each gate in turn |

What is left to TLC is that the loops come to every gate, `NeverBlocked`, and with them that `FairSpec` as it stands implies the properties:
the runs `gate_control`, `schedule` and `heartbeat_liveness` check exactly that. The theorems in turn need less than the runs assume: `SilentAlarmed` nothing of the request handlers,
`DueCloses` nothing of the hardware.

`OutagesKept`, `NoStaleEntry` and `Monotone` are proved of `OutageStartKept`, `NoEntryFromExited` and `NoRollback`, which no run checks: the
refinements say more, but for tickets a failed write has spoiled, of which `NoStaleEntry` still holds.

The counterexample runs are TLC's. Out of the prover's reach in any case: ENABLED, and what a recursive definition
computes for every input. No module uses RECURSIVE.

## 5. What is left out

- *In the models:* times, `RecordSeq` and `Online` in `GateControl` (no call of `Open` or `Close` reads them), stations of a
  ticket record, which alarms are active in `GateControl` (there only their calls count), what a rule allows (free), the text of events, `TicketStore.closed` (set only
  after the last handler has returned), the handler's JSON.
- *Coarser than the code:* in `Schedule`, `Statistics`, `Station` and `Ticketing` a movement of a gate is one or two steps;
  a passage's session is not told from another's; alarms have no numbers, times or severities in `Station` (the kind decides the
  severity, but for heartbeat-timeout, which is in `Heartbeat`).
- *Not to be modelled:* reports (`ListByStatus`, `Recent`, alarm and passage reports), `itoa` and `int64String`: they read under
  one lock, sort and format, and change no state; routing, flags, JSON, the static page and the read-only views (pure I/O); the
  vendored hash (dedup keys are taken to be distinct for distinct tickets). The registry is the constant `Registered`: it is filled
  once and then read.

Seen while reading:

- Upgraded rules and alarms are not persisted: a restart returns to the initial rules and forgets every alarm.
- `seedTickets` makes T-0001 to T-0003 unused at every start, their holders inside or not (`spoiled` marks them).
- `Recovery.Restore` and `StatsService.Recover` read ledgers that are new at every start and never find anything;
  `counted` is therefore always 0. The counter's totals restart at 0 while the channels' restart at the entry events.
- An opening by the scheduler counts as a passage in the counter, not in the channels' totals.
- A `Close` that fails is recorded as closed, whatever the barrier does.
- The poller writes every registered gate online at each tick, so that a gate the sweep took offline shows online
  again, its alarm still active; `Ingest` takes older stamps too, so a late report makes a gate overdue.
- `closeHandle` of overlapping records leaves a file that `OpenHandles` does not count.
- Only heartbeat-timeout and exit-writeback-failed alarms are ever resolved; a refused or failed opening stays an alarm.
- After CloseAt has passed, an entry that also has OpenAt opens and closes its gate at alternate ticks for ever
  (`DueGateCloses` and `DueGateOpens` hold of it together).

## 6. Plan

Order: what can strand a passenger or a gate first, then what misinforms the operator.

1. *(done)* `GateMachine`, `GateControl`, with refinement, counting and proofs.
2. *(done)* `Ticketing`, `RuleUpgrade`, `EventLog`, `Heartbeat`, each with proofs.
3. *(done)* `Schedule`, `PassageLedger` and `Statistics`, `Station`, each with proofs.
4. *(done)* `Presence`, `TicketLife` and `RuleBook`, each refined by its module; liveness proved.
5. `Statistics` over `EventLog`: a lost event is then a record that overlapped, not a choice.
6. `Station` over `Ticketing`, step for step, with restarts: an alarm is lost with the process, the ticket's state is not.
