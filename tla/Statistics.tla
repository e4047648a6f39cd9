------------------------------ MODULE Statistics ------------------------------
(***************************************************************************)
(* Passenger statistics: swipe handlers write an entry event, open the     *)
(* gate and record the passage in StatsService; the counter counts every   *)
(* opening; the snapshot loop flushes what is pending, saves and resets    *)
(* the session counts and takes a snapshot of every channel.  A restart    *)
(* keeps the event files only and replays them.                            *)
(*                                                                         *)
(* SessionLedger and ChannelRegistry are new at every start, so that       *)
(* Recovery.Restore and StatsService.Recover find nothing to restore, and  *)
(* counted, which only Recover writes, is always 0: the tests counted > 0  *)
(* of Replay and FlushPending never hold and are left out.  Opening a gate *)
(* (see GateControl) is one step here.                                     *)
(***************************************************************************)
EXTENDS Naturals, FiniteSets

CONSTANTS
  Gates,          \* the gates swiped at
  Registered,     \* the gates in GateRegistry
  Swipes,         \* goroutines serving an entry swipe
  MaxEntries,     \* bound: entries and scheduled openings
  MaxRestarts     \* bound: restarts

ASSUME GatesAssumption == Registered \subseteq Gates
ASSUME SwipesAssumption == IsFiniteSet(Swipes)
ASSUME BoundsAssumption == MaxEntries \in Nat /\ MaxRestarts \in Nat

VARIABLES
  events,       \* events[g]: entry events in the file of g
  known,        \* the gates in GateStore
  passages,     \* passages[g]: PassageCounter.totals
  sessions,     \* sessions[g]: PassageCounter.sessions
  saved,        \* saved[g]: Counts of the ledger's latest session
  totals,       \* totals[g]: StatsService.totals of g's channel
  pending,      \* pending[g]: StatsService.pending
  snapshot,     \* snapshot[g]: Total of the channel's latest snapshot
  snapped,      \* the gates whose channel has a snapshot
  pc,           \* pc[d]: where swipe handler d is
  gate,         \* gate[d]: the gate it works on
  loop,         \* where snapshotLoop is
  begun,        \* history: entries and scheduled openings so far
  restarts,     \* history: restarts so far
  failed,       \* history: entries of g since the start whose gate did not open
  lost,         \* history: entries of g since the start whose event was not written
  old,          \* history: events of g the last start did not replay
  slipped       \* history: passages of g between the last Save and its ResetSession

ledger == <<totals, pending, snapshot, snapped>>
counter == <<passages, sessions, saved, slipped>>
process == <<known, pc, gate, loop, restarts, begun>>
fate == <<failed, lost, old>>
vars == <<events, ledger, counter, process, fate>>

Zero == [g \in Gates |-> 0]

TypeOK ==
  /\ events \in [Gates -> Nat]
  /\ known \in SUBSET Gates
  /\ passages \in [Gates -> Nat]
  /\ sessions \in [Gates -> Nat]
  /\ saved \in [Gates -> Nat]
  /\ totals \in [Gates -> Nat]
  /\ pending \in [Gates -> Nat]
  /\ snapshot \in [Gates -> Nat]
  /\ snapped \in SUBSET Gates
  /\ pc \in [Swipes -> {"idle", "open", "record"}]
  /\ gate \in [Swipes -> Gates]
  /\ loop \in {"idle", "save", "reset", "channels"}
  /\ begun \in Nat
  /\ restarts \in Nat
  /\ failed \in [Gates -> Nat]
  /\ lost \in [Gates -> Nat]
  /\ old \in [Gates -> Nat]
  /\ slipped \in [Gates -> Nat]

Init ==
  /\ events = Zero
  /\ known = {}
  /\ passages = Zero
  /\ sessions = Zero
  /\ saved = Zero
  /\ totals = Zero
  /\ pending = Zero
  /\ snapshot = Zero
  /\ snapped = {}
  /\ pc = [d \in Swipes |-> "idle"]
  /\ gate \in [Swipes -> Gates]
  /\ loop = "idle"
  /\ begun = 0
  /\ restarts = 0
  /\ failed = Zero
  /\ lost = Zero
  /\ old = Zero
  /\ slipped = Zero

Goto(d, l) == pc' = [pc EXCEPT ![d] = l]

\* The entries of g that have not yet ended in Record or in a failed Open.
InFlight(g) == {d \in Swipes : gate[d] = g /\ pc[d] # "idle"}

\* HandleEntry lets the holder in and records the entry event; that Record
\* failed is not noticed.
HandleEntry(d, g, written) ==
  /\ pc[d] = "idle"
  /\ begun < MaxEntries
  /\ begun' = begun + 1
  /\ events' = [events EXCEPT ![g] = IF written THEN @ + 1 ELSE @]
  /\ lost' = [lost EXCEPT ![g] = IF written THEN @ ELSE @ + 1]
  /\ gate' = [gate EXCEPT ![d] = g]
  /\ Goto(d, "open")
  /\ UNCHANGED <<ledger, counter, known, loop, restarts, failed, old>>

\* PassageCounter.Count on an open gate.
Count(g) ==
  /\ passages' = [passages EXCEPT ![g] = @ + 1]
  /\ sessions' = [sessions EXCEPT ![g] = @ + 1]
  /\ slipped' = [slipped EXCEPT ![g] = IF loop = "reset" THEN @ + 1 ELSE @]
  /\ UNCHANGED saved

\* Open succeeds; Count may find the gate closed again, which is not reported.
Open(d, counted) ==
  /\ pc[d] = "open"
  /\ known' = known \union {gate[d]}
  /\ IF counted THEN Count(gate[d]) ELSE UNCHANGED counter
  /\ Goto(d, "record")
  /\ UNCHANGED <<events, ledger, gate, loop, restarts, begun, fate>>

OpenFails(d) ==
  /\ pc[d] = "open"
  /\ known' = known \union {gate[d]}
  /\ failed' = [failed EXCEPT ![gate[d]] = @ + 1]
  /\ Goto(d, "idle")
  /\ UNCHANGED <<events, ledger, counter, gate, loop, restarts, begun, lost, old>>

\* Faulty: a later passage replaces the pending one.
AddedOnly(n) == 1
Added(n) == n + 1

\* StatsService.Record.
Record(d) ==
  /\ pc[d] = "record"
  /\ pending' = [pending EXCEPT ![gate[d]] = Added(@)]
  /\ Goto(d, "idle")
  /\ UNCHANGED <<events, counter, known, gate, loop, restarts, begun, fate, totals, snapshot, snapped>>

\* The scheduler opens a gate: the counter takes the opening for a passage.
ScheduledOpen(g) ==
  /\ begun < MaxEntries
  /\ begun' = begun + 1
  /\ known' = known \union {g}
  /\ Count(g)
  /\ UNCHANGED <<events, ledger, pc, gate, loop, restarts, fate>>

\* PollManager.PollOnce puts every registered gate into GateStore.
Poll ==
  /\ known' = known \union Registered
  /\ UNCHANGED <<events, ledger, counter, pc, gate, loop, restarts, begun, fate>>

\* Faulty: what is pending is dropped.
FlushedNone(g) == totals[g]
Flushed(g) == totals[g] + pending[g]

\* FlushPending, the first call of a round of snapshotLoop.
FlushPending ==
  /\ loop = "idle"
  /\ totals' = [g \in Gates |-> Flushed(g)]
  /\ pending' = Zero
  /\ loop' = "save"
  /\ UNCHANGED <<events, counter, known, pc, gate, restarts, begun, fate, snapshot, snapped>>

\* Faulty: the session counts in place of the totals.
SnapshotSessions == sessions
Snapshot == passages

\* PassageCounter.Snapshot, stored by SessionLedger.Save, which nobody else calls.
Save ==
  /\ loop = "save"
  /\ saved' = Snapshot
  /\ slipped' = Zero
  /\ loop' = "reset"
  /\ UNCHANGED <<events, ledger, passages, sessions, known, pc, gate, restarts, begun, fate>>

ResetSession ==
  /\ loop = "reset"
  /\ sessions' = Zero
  /\ loop' = "channels"
  /\ UNCHANGED <<events, ledger, passages, saved, slipped, known, pc, gate, restarts, begun, fate>>

\* Faulty: a total includes what is pending.
TotalPending(g) == totals[g] + pending[g]
Total(g) == totals[g]

\* SnapshotChannel for every gate of GateStore.List.  Only this goroutine changes
\* totals, so that reading them gate by gate is one step.
SnapshotChannels ==
  /\ loop = "channels"
  /\ snapshot' = [g \in Gates |-> IF g \in known THEN Total(g) ELSE snapshot[g]]
  /\ snapped' = snapped \union known
  /\ loop' = "idle"
  /\ UNCHANGED <<events, counter, known, pc, gate, restarts, begun, fate, totals, pending>>

\* Faulty: the kind of event is misspelt and none is replayed.
ReplaysNone(g) == FALSE

\* The start replays the gates of GateRegistry.List.
Replays(g) == g \in Registered

\* Faulty: the event being written is taken off.
ReplayedButOne == [g \in Gates |-> IF Replays(g) THEN events[g] - 1 ELSE 0]

\* Replay of each entry event.
Replayed == [g \in Gates |-> IF Replays(g) THEN events[g] ELSE 0]

\* The process ends anywhere and is started again.
Restart ==
  /\ restarts < MaxRestarts
  /\ restarts' = restarts + 1
  /\ totals' = Replayed
  /\ old' = [g \in Gates |-> IF Replays(g) THEN 0 ELSE events[g]]
  /\ pending' = Zero /\ snapshot' = Zero /\ snapped' = {}
  /\ passages' = Zero /\ sessions' = Zero /\ saved' = Zero /\ slipped' = Zero
  /\ failed' = Zero /\ lost' = Zero
  /\ known' = {}
  /\ pc' = [d \in Swipes |-> "idle"]
  /\ loop' = "idle"
  /\ UNCHANGED <<events, gate, begun>>

Handler(d) ==
  \/ \E g \in Gates, written \in BOOLEAN : HandleEntry(d, g, written)
  \/ \E counted \in BOOLEAN : Open(d, counted)
  \/ OpenFails(d)
  \/ Record(d)

Round == FlushPending \/ Save \/ ResetSession \/ SnapshotChannels

Next ==
  \/ \E d \in Swipes : Handler(d)
  \/ \E g \in Gates : ScheduledOpen(g)
  \/ Poll
  \/ Round
  \/ Restart

Spec == Init /\ [][Next]_vars

------------------------------------------------------------------------------
(* Properties. *)

\* Every entry is on exactly one account: in the totals, pending, in the hands of
\* a handler, refused by the gate, or among the old events of a gate whose file
\* the start does not replay.  The entries are the events on file and those lost.
EntriesAccounted ==
  \A g \in Gates :
    totals[g] + pending[g] + Cardinality(InFlight(g)) + failed[g] + old[g] = events[g] + lost[g]

\* The session count shown for a gate is what was counted since the session saved
\* last, short only of the passages counted between that save and its reset.
SessionsAccounted ==
  \A g \in Gates :
    passages[g] = saved[g] + slipped[g] + (IF loop = "reset" THEN 0 ELSE sessions[g])

\* A snapshot never shows passages the totals do not have, and between two rounds
\* the snapshots are the totals: those of all channels are of one flush.
SnapshotsCurrent ==
  \A g \in snapped :
    /\ snapshot[g] <= totals[g]
    /\ loop = "idle" => snapshot[g] = totals[g]

\* A restart moves a registered gate's total by the entries it did not have: up by
\* those refused by the gate or under way, which become passages, down by those
\* whose event was not written.
RestartRecounts ==
  [][restarts' # restarts =>
       \A g \in Registered :
         /\ totals'[g] + lost[g] >= totals[g] + pending[g]
         /\ totals'[g] <= totals[g] + pending[g] + failed[g] + Cardinality(InFlight(g))]_vars

\* The statistics as their readers may rely on them: flushing, saving and taking
\* snapshots neither lose nor repeat a passage.
Ledger == INSTANCE PassageLedger
            WITH passed <- [g \in Gates |-> totals[g] + pending[g]], onFile <- events

ImplementsLedger == Ledger!Spec

==============================================================================
