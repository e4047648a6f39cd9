----------------------------- MODULE GateControl -----------------------------
(***************************************************************************)
(* The gate controller: goroutines that run Controller.Open and            *)
(* Controller.Close on the shared GateStore.  A swipe handler only opens;  *)
(* the scheduler goroutine reads a gate's status and then opens or closes  *)
(* it.  GateStore, PassageCounter and alarm.Manager take a mutex per       *)
(* method, so a step below is one such call (with the local computation    *)
(* around it), and any other goroutine may run between two of them.        *)
(*                                                                         *)
(* GateStatus.Faults has one more writer, the exit that failed, and so it  *)
(* is here.                                                                *)
(*                                                                         *)
(* Left out: times, RecordSeq and the Online flag (which Open and Close    *)
(* never read), the event log, and the polling of the sensor, which is the *)
(* step Confirm or Timeout.  Of the alarms only the controller's calls of  *)
(* Raise are counted that go with a fault: which alarms are active,        *)
(* Resolve and the alarm of the swipe handler are in Station.              *)
(***************************************************************************)
EXTENDS Naturals, FiniteSets

CONSTANTS
  Gates,            \* the gates
  Swipes,           \* goroutines serving swipes, each reused for later swipes
  Scheduler,        \* the goroutine of Scheduler.Run
  ActuatorFaults,   \* may sensor.Open and sensor.Close return an error?
  MaxCycles,        \* bound: no request begins on a gate opened this often
  MaxExits          \* bound: failed exits at a gate

ASSUME SchedulerAssumption == Scheduler \notin Swipes
ASSUME SwipesAssumption == IsFiniteSet(Swipes)
ASSUME ActuatorAssumption == ActuatorFaults \in BOOLEAN
ASSUME MaxCyclesAssumption == MaxCycles \in Nat
ASSUME MaxExitsAssumption == MaxExits \in Nat

VARIABLES
  state,      \* state[g]: GateStatus.State
  faults,     \* faults[g]: GateStatus.Faults
  totals,     \* totals[g]: PassageCounter.totals
  pc,         \* pc[d]: where goroutine d is
  gate,       \* gate[d]: the gate d works on
  op,         \* op[d]: which of Open and Close d runs
  cycles,     \* history: times g went from closed to opening
  opens,      \* history: times g became open
  closings,   \* history: times g went from open to closing
  closes,     \* history: times a closing of g was committed
  lost,       \* history: commits at g that SetState refused
  exits,      \* history: exits that failed at g
  raised,     \* history: calls of Raise for a fault of g
  stolen,     \* history: gates whose movement was undone by a goroutine not driving it
  missed,     \* history: openings of g that Open ended without counting them
  raced       \* history: gates closed while an opening still had to be counted

tally == <<closings, closes, lost, exits, raised>>
history == <<cycles, opens, stolen, missed, raced, tally>>

vars == <<state, faults, totals, pc, gate, op, history>>

Drivers == Swipes \union {Scheduler}

Ops == {"open", "close"}
GateStates == {"closed", "opening", "open", "closing"}
Transients == {"opening", "closing"}

Locations == {"idle", "begin", "actuate", "confirm", "commit", "verify", "count",
              "undo", "fallback", "fault", "alarm", "exitfault"}

\* Faulty: an opening gate may be opened again.
TableOpeningTwice == {<<"closed", "opening">>, <<"opening", "opening">>, <<"opening", "open">>,
                      <<"open", "closing">>, <<"closing", "closed">>}

\* allowedTransitions.
allowedTransitions == {<<"closed", "opening">>, <<"opening", "open">>,
                       <<"open", "closing">>, <<"closing", "closed">>}

\* The state a call moves the gate into first, and the one it ends in.
Moving(o) == IF o = "open" THEN "opening" ELSE "closing"
Settled(o) == IF o = "open" THEN "open" ELSE "closed"

Goto(d, l) == pc' = [pc EXCEPT ![d] = l]

TypeOK ==
  /\ state \in [Gates -> GateStates]
  /\ faults \in [Gates -> Nat]
  /\ totals \in [Gates -> Nat]
  /\ pc \in [Drivers -> Locations]
  /\ gate \in [Drivers -> Gates]
  /\ op \in [Drivers -> Ops]
  /\ cycles \in [Gates -> Nat]
  /\ opens \in [Gates -> Nat]
  /\ closings \in [Gates -> Nat]
  /\ closes \in [Gates -> Nat]
  /\ lost \in [Gates -> Nat]
  /\ exits \in [Gates -> Nat]
  /\ raised \in [Gates -> Nat]
  /\ stolen \in SUBSET Gates
  /\ missed \in [Gates -> Nat]
  /\ raced \in SUBSET Gates

Init ==
  /\ state = [g \in Gates |-> "closed"]
  /\ faults = [g \in Gates |-> 0]
  /\ totals = [g \in Gates |-> 0]
  /\ pc = [d \in Drivers |-> "idle"]
  /\ gate \in [Drivers -> Gates]
  /\ op = [d \in Drivers |-> "open"]
  /\ cycles = [g \in Gates |-> 0]
  /\ opens = [g \in Gates |-> 0]
  /\ closings = [g \in Gates |-> 0]
  /\ closes = [g \in Gates |-> 0]
  /\ lost = [g \in Gates |-> 0]
  /\ exits = [g \in Gates |-> 0]
  /\ raised = [g \in Gates |-> 0]
  /\ stolen = {}
  /\ missed = [g \in Gates |-> 0]
  /\ raced = {}

\* A swipe has been validated and its handler calls Open.
Request(d, g) ==
  /\ pc[d] = "idle"
  /\ cycles[g] < MaxCycles
  /\ Goto(d, "begin")
  /\ gate' = [gate EXCEPT ![d] = g]
  /\ op' = [op EXCEPT ![d] = "open"]
  /\ UNCHANGED <<state, faults, totals, history>>

\* Scheduler.RunOnce on the entry of g: one read of the state decides, and the
\* call it leads to comes later.  Whether OpenAt and CloseAt have passed is free,
\* for entries are added at any time.
Tick(g) ==
  LET d == Scheduler IN
  /\ pc[d] = "idle"
  /\ cycles[g] < MaxCycles \/ state[g] = "open"
  /\ Goto(d, "begin")
  /\ gate' = [gate EXCEPT ![d] = g]
  /\ op' = [op EXCEPT ![d] = IF state[g] = "open" THEN "close" ELSE "open"]
  /\ UNCHANGED <<state, faults, totals, history>>

\* Faulty: the table is not looked up.
MaySetAlways(g, to) == TRUE

\* SetState: the guard of the table, and the state it sets.
MaySet(g, to) == <<state[g], to>> \in allowedTransitions
SetState(g, to) == state' = IF MaySet(g, to) THEN [state EXCEPT ![g] = to] ELSE state

\* Faulty: recovers an unfinished opening only.
RecoverOpeningOnly(g) ==
  state' = IF state[g] = "opening" THEN [state EXCEPT ![g] = "closed"] ELSE state

\* RecoverToClosed: what it leaves; its error is dropped by every caller.
RecoverToClosed(g) ==
  state' = IF state[g] \in Transients THEN [state EXCEPT ![g] = "closed"] ELSE state

\* Openings of g that are committed and not yet counted.
Uncounted(g) == {d \in Drivers : gate[d] = g /\ op[d] = "open" /\ pc[d] \in {"verify", "count", "undo"}}

\* The first SetState of Open and of Close.
Begin(d) ==
  LET g == gate[d]  to == Moving(op[d]) IN
  /\ pc[d] = "begin"
  /\ SetState(g, to)
  /\ Goto(d, IF MaySet(g, to) THEN "actuate" ELSE "idle")
  /\ cycles' = [cycles EXCEPT ![g] = IF MaySet(g, to) /\ to = "opening" THEN @ + 1 ELSE @]
  /\ raced' = IF MaySet(g, to) /\ to = "closing" /\ Uncounted(g) # {}
              THEN raced \union {g} ELSE raced
  /\ closings' = [closings EXCEPT ![g] = IF MaySet(g, to) /\ to = "closing" THEN @ + 1 ELSE @]
  /\ UNCHANGED <<faults, totals, gate, op, opens, stolen, missed, closes, lost, exits, raised>>

\* sensor.Open, sensor.Close.
Actuate(d) ==
  /\ pc[d] = "actuate"
  /\ Goto(d, "confirm")
  /\ UNCHANGED <<state, faults, totals, gate, op, history>>

ActuatorFails(d) ==
  /\ ActuatorFaults
  /\ pc[d] = "actuate"
  /\ Goto(d, "fallback")
  /\ UNCHANGED <<state, faults, totals, gate, op, history>>

\* waitConfirmation: confirmed, or openTimeout has passed.
Confirm(d) ==
  /\ pc[d] = "confirm"
  /\ Goto(d, "commit")
  /\ UNCHANGED <<state, faults, totals, gate, op, history>>

Timeout(d) ==
  /\ pc[d] = "confirm"
  /\ Goto(d, "fallback")
  /\ UNCHANGED <<state, faults, totals, gate, op, history>>

\* The second SetState: an error leaves the call, with no recovery and no alarm.
Commit(d) ==
  LET g == gate[d]  to == Settled(op[d]) IN
  /\ pc[d] = "commit"
  /\ SetState(g, to)
  /\ Goto(d, IF ~MaySet(g, to) THEN "idle"
             ELSE IF op[d] = "open" THEN "verify" ELSE "idle")
  /\ opens' = [opens EXCEPT ![g] = IF MaySet(g, to) /\ to = "open" THEN @ + 1 ELSE @]
  /\ closes' = [closes EXCEPT ![g] = IF MaySet(g, to) /\ to = "closed" THEN @ + 1 ELSE @]
  /\ lost' = [lost EXCEPT ![g] = IF MaySet(g, to) THEN @ ELSE @ + 1]
  /\ UNCHANGED <<faults, totals, gate, op, cycles, stolen, missed, raced, closings, exits, raised>>

\* Open looks again: is the gate still open?
Verify(d) ==
  /\ pc[d] = "verify"
  /\ Goto(d, IF state[gate[d]] = "open" THEN "count" ELSE "undo")
  /\ UNCHANGED <<state, faults, totals, gate, op, history>>

\* PassageCounter.Count, which looks once more, and Confirm.
Count(d) ==
  LET g == gate[d] IN
  /\ pc[d] = "count"
  /\ totals' = [totals EXCEPT ![g] = IF state[g] = "open" THEN @ + 1 ELSE @]
  /\ missed' = [missed EXCEPT ![g] = IF state[g] = "open" THEN @ ELSE @ + 1]
  /\ Goto(d, "idle")
  /\ UNCHANGED <<state, faults, gate, op, cycles, opens, stolen, raced, tally>>

\* Faulty: takes the overtaken opening back from the count, which it never got into.
UndoTakingBack(d) ==
  /\ pc[d] = "undo"
  /\ RecoverToClosed(gate[d])
  /\ totals' = [totals EXCEPT ![gate[d]] = @ - 1]
  /\ Goto(d, "idle")
  /\ UNCHANGED <<faults, gate, op, history>>

\* The gate was not open any more: Open recovers it, whoever is moving it now.
Undo(d) ==
  LET g == gate[d] IN
  /\ pc[d] = "undo"
  /\ RecoverToClosed(g)
  /\ stolen' = IF state[g] \in Transients THEN stolen \union {g} ELSE stolen
  /\ missed' = [missed EXCEPT ![g] = @ + 1]
  /\ Goto(d, "idle")
  /\ UNCHANGED <<faults, totals, gate, op, cycles, opens, raced, tally>>

\* The error path: RecoverToClosed, RecordFault, Raise, three calls.
Fallback(d) ==
  /\ pc[d] = "fallback"
  /\ RecoverToClosed(gate[d])
  /\ Goto(d, "fault")
  /\ UNCHANGED <<faults, totals, gate, op, history>>

\* Faulty: no alarm follows the fault.
FaultSilent(d) ==
  /\ pc[d] = "fault"
  /\ faults' = [faults EXCEPT ![gate[d]] = @ + 1]
  /\ Goto(d, "idle")
  /\ UNCHANGED <<state, totals, gate, op, history>>

Fault(d) ==
  /\ pc[d] = "fault"
  /\ faults' = [faults EXCEPT ![gate[d]] = @ + 1]
  /\ Goto(d, "alarm")
  /\ UNCHANGED <<state, totals, gate, op, history>>

\* The call ends with its error.
RaiseCause(d) ==
  /\ pc[d] = "alarm"
  /\ raised' = [raised EXCEPT ![gate[d]] = @ + 1]
  /\ Goto(d, "idle")
  /\ UNCHANGED <<state, faults, totals, gate, op, cycles, opens, stolen, missed, raced,
                 closings, closes, lost, exits>>

\* HandleExit whose flow has failed, which moves no gate: it raises the alarm
\* first ...
ExitFails(d, g) ==
  /\ pc[d] = "idle"
  /\ exits[g] < MaxExits
  /\ Goto(d, "exitfault")
  /\ gate' = [gate EXCEPT ![d] = g]
  /\ exits' = [exits EXCEPT ![g] = @ + 1]
  /\ raised' = [raised EXCEPT ![g] = @ + 1]
  /\ UNCHANGED <<state, faults, totals, op, cycles, opens, stolen, missed, raced,
                 closings, closes, lost>>

\* ... and then records the fault.
ExitFault(d) ==
  /\ pc[d] = "exitfault"
  /\ faults' = [faults EXCEPT ![gate[d]] = @ + 1]
  /\ Goto(d, "idle")
  /\ UNCHANGED <<state, totals, gate, op, history>>

\* Everything a call of Open or Close does after it has been made, and a failed
\* exit after its alarm.
Proceed(d) ==
  \/ Begin(d)
  \/ Actuate(d)
  \/ ActuatorFails(d)
  \/ Confirm(d)
  \/ Timeout(d)
  \/ Commit(d)
  \/ Verify(d)
  \/ Count(d)
  \/ Undo(d)
  \/ Fallback(d)
  \/ Fault(d)
  \/ RaiseCause(d)
  \/ ExitFault(d)

Next ==
  \/ \E d \in Swipes, g \in Gates : Request(d, g) \/ ExitFails(d, g)
  \/ \E g \in Gates : Tick(g)
  \/ \E d \in Drivers : Proceed(d)

Spec == Init /\ [][Next]_vars

\* A goroutine that can run does run, and the wait for the sensor is bounded by
\* openTimeout.  No request is assumed ever to arrive.
Fairness(d) == WF_vars(Proceed(d))
FairSpec == Spec /\ \A d \in Drivers : Fairness(d)

------------------------------------------------------------------------------
(* Properties. *)

Driving == {"actuate", "confirm", "commit", "fallback"}
Drives(d, g, o) == gate[d] = g /\ op[d] = o /\ pc[d] \in Driving

\* A gate is in a movement only while some call of that movement is still
\* running: no interleaving, timeout or failed SetState abandons it half-way,
\* where no later Open or Close could move it again.
NoOrphanTransient ==
  \A g \in Gates, o \in Ops :
    state[g] = Moving(o) => \E d \in Drivers : Drives(d, g, o)

\* As long as no movement of the gate has been stolen by Undo, a call that has
\* passed its first SetState is alone on the gate and finds it as it left it, so
\* its commit or fallback cannot hit somebody else's movement.
ExclusiveDriver ==
  \A g \in Gates \ stolen : \A d \in Drivers, o \in Ops :
    Drives(d, g, o) =>
      /\ state[g] = Moving(o)
      /\ \A e \in Drivers : gate[e] = g /\ pc[e] \in Driving => e = d

\* No opening is counted twice and none by a call that did not make it; one that
\* is never counted was overtaken by a closing between its commit and its count.
\* A movement is stolen only at that price: where every opening was counted none was.
CountsMatchOpens ==
  \A g \in Gates :
    /\ totals[g] + missed[g] + Cardinality(Uncounted(g)) = opens[g]
    /\ g \in stolen => missed[g] > 0
    /\ missed[g] > 0 => g \in raced

At(g, ls) == {d \in Drivers : gate[d] = g /\ pc[d] \in ls}

\* No movement ends silently and no fault is silent, whatever overlaps.  Every opening
\* and closing begun, and every failed exit, ends in a commit or in a fault, or is
\* still running; only a commit that SetState refuses leaves neither, and those are
\* never more than the openings that ended uncounted.  Each fault of the gate,
\* those of exits included, has its own call of Raise, made before it or after it.
FaultsAccounted ==
  \A g \in Gates :
    /\ cycles[g] + closings[g] + exits[g] =
         opens[g] + closes[g] + lost[g] + faults[g]
           + Cardinality(At(g, Driving \union {"fault", "exitfault"}))
    /\ lost[g] <= missed[g]
    /\ raised[g] + Cardinality(At(g, {"alarm"})) = faults[g] + Cardinality(At(g, {"exitfault"}))

\* The movement ends in the hands of a call that makes it, after the sensor
\* confirmed (commit) or as the fallback of a failure.
EndedByDriver(g) ==
  \A o \in Ops : state[g] = Moving(o) /\ state'[g] # Moving(o) =>
    \E d \in Drivers : gate[d] = g /\ op[d] = o /\ pc[d] \in {"commit", "fallback"} /\ pc'[d] # pc[d]

\* ... which is so on every gate, unless an Open that found its own opening overtaken
\* recovered it: that ends the closing of another call, unconfirmed.
MovementsEndConfirmed == [][\A g \in Gates : g \notin stolen' => EndedByDriver(g)]_vars

\* The gates as the controller's users see them.
Machine == INSTANCE GateMachine WITH state <- state, Gates <- Gates

\* Under every interleaving each gate follows its table of transitions, and no gate
\* stays in a movement for ever.
ImplementsLiveMachine == Machine!LiveSpec

==============================================================================
