------------------------------ MODULE EventLog -------------------------------
(***************************************************************************)
(* EventRecorder.Record on the shared EventFileStore: open the gate's      *)
(* event file and put the handle into the map, append a line, close what   *)
(* the map holds for the gate.  The three calls lock separately, and any   *)
(* two goroutines (swipes, the scheduler) may record for the same gate.    *)
(*                                                                         *)
(* An event is told from another only by its gate.  A handle is the gate   *)
(* and a number; a handle nobody refers to is closed by the Go runtime's   *)
(* finalizer at some time or never.                                        *)
(***************************************************************************)
EXTENDS Naturals, FiniteSets

CONSTANTS
  Gates,        \* the gates
  Recorders,    \* goroutines that record
  MaxHandles    \* bound: no handle is opened once a gate has had this many

ASSUME MaxHandlesAssumption == MaxHandles \in Nat

VARIABLES
  slot,         \* slot[g]: number of the handle in EventFileStore.handles, 0 if none
  open,         \* the handles <<gate, number>> that are open
  opened,       \* opened[g]: handles of g opened so far
  pc,           \* pc[r]: where Record is in goroutine r
  gate,         \* gate[r]: the gate r records for
  handle,       \* handle[r]: number of the handle openForAppend returned to r
  lost,         \* history: gates with an event lost because its handle was closed
  contended,    \* history: gates that had two records in flight at once
  shut          \* history: gates with a record in flight at Close

vars == <<slot, open, opened, pc, gate, handle, lost, contended, shut>>

Locations == {"idle", "append", "close"}

TypeOK ==
  /\ slot \in [Gates -> Nat]
  /\ open \in SUBSET (Gates \X Nat)
  /\ opened \in [Gates -> Nat]
  /\ pc \in [Recorders -> Locations]
  /\ gate \in [Recorders -> Gates]
  /\ handle \in [Recorders -> Nat]
  /\ lost \in SUBSET Gates
  /\ contended \in SUBSET Gates
  /\ shut \in SUBSET Gates

Init ==
  /\ slot = [g \in Gates |-> 0]
  /\ open = {}
  /\ opened = [g \in Gates |-> 0]
  /\ pc = [r \in Recorders |-> "idle"]
  /\ gate \in [Recorders -> Gates]
  /\ handle = [r \in Recorders |-> 0]
  /\ lost = {}
  /\ contended = {}
  /\ shut = {}

Goto(r, l) == pc' = [pc EXCEPT ![r] = l]
InFlight(g) == {r \in Recorders : pc[r] # "idle" /\ gate[r] = g}

\* openForAppend: whatever handle the map had for the gate is overwritten.  When
\* OpenFile fails Record returns, which changes nothing.
OpenForAppend(r, g) ==
  LET n == opened[g] + 1 IN
  /\ pc[r] = "idle"
  /\ opened[g] < MaxHandles
  /\ opened' = [opened EXCEPT ![g] = n]
  /\ open' = open \union {<<g, n>>}
  /\ slot' = [slot EXCEPT ![g] = n]
  /\ gate' = [gate EXCEPT ![r] = g]
  /\ handle' = [handle EXCEPT ![r] = n]
  /\ contended' = IF InFlight(g) = {} THEN contended ELSE contended \union {g}
  /\ Goto(r, "append")
  /\ UNCHANGED <<lost, shut>>

\* appendLine: WriteString on a closed handle is an error and the event is gone.
\* That and every other error leads to the same closeHandle as success.
AppendLine(r) ==
  LET g == gate[r] IN
  /\ pc[r] = "append"
  /\ lost' = IF <<g, handle[r]>> \in open THEN lost ELSE lost \union {g}
  /\ Goto(r, "close")
  /\ UNCHANGED <<slot, open, opened, gate, handle, contended, shut>>

\* Faulty closings: counts the map's entry down; keeps the file open; closes the
\* handles of all gates.
CloseByCount(r) ==
  LET g == gate[r] IN
  /\ pc[r] = "close"
  /\ open' = open \ {<<g, slot[g]>>}
  /\ slot' = [slot EXCEPT ![g] = @ - 1]
  /\ Goto(r, "idle")
  /\ UNCHANGED <<opened, gate, handle, lost, contended, shut>>

CloseKeepingFile(r) ==
  /\ pc[r] = "close"
  /\ slot' = [slot EXCEPT ![gate[r]] = 0]
  /\ Goto(r, "idle")
  /\ UNCHANGED <<open, opened, gate, handle, lost, contended, shut>>

CloseAllGates(r) ==
  /\ pc[r] = "close"
  /\ open' = open \ {<<g, slot[g]>> : g \in Gates}
  /\ slot' = [g \in Gates |-> 0]
  /\ Goto(r, "idle")
  /\ UNCHANGED <<opened, gate, handle, lost, contended, shut>>

\* closeHandle, called after the append whether it failed or not: it closes the
\* handle in the map, which need not be the one this Record opened.
CloseHandle(r) ==
  LET g == gate[r] IN
  /\ pc[r] = "close"
  /\ open' = open \ {<<g, slot[g]>>}
  /\ slot' = [slot EXCEPT ![g] = 0]
  /\ Goto(r, "idle")
  /\ UNCHANGED <<opened, gate, handle, lost, contended, shut>>

\* EventFileStore.Close at Shutdown: it closes what the map holds.  Swipe handlers
\* have returned by then, but nobody has waited for the scheduler's goroutine.
Close ==
  /\ \E g \in Gates : slot[g] # 0
  /\ open' = open \ {<<g, slot[g]>> : g \in Gates}
  /\ slot' = [g \in Gates |-> 0]
  /\ shut' = shut \union {g \in Gates : InFlight(g) # {}}
  /\ UNCHANGED <<opened, pc, gate, handle, lost, contended>>

\* The runtime closes an open handle that neither the map nor a Record refers to.
Finalize(g, n) ==
  /\ <<g, n>> \in open
  /\ slot[g] # n
  /\ \A r \in InFlight(g) : handle[r] # n
  /\ open' = open \ {<<g, n>>}
  /\ UNCHANGED <<slot, opened, pc, gate, handle, lost, contended, shut>>

Next ==
  \/ \E r \in Recorders, g \in Gates : OpenForAppend(r, g)
  \/ \E r \in Recorders : AppendLine(r) \/ CloseHandle(r)
  \/ Close
  \/ \E g \in Gates : \E n \in 1 .. opened[g] : Finalize(g, n)

Spec == Init /\ [][Next]_vars

------------------------------------------------------------------------------
(* Properties. *)

\* The map never keeps a handle of a finished record: what it holds for a gate is
\* open and belongs to a Record that is still running, so that nothing is closed
\* twice and nothing stays in the map.
SlotOwned ==
  \A g \in Gates : slot[g] # 0 =>
    /\ <<g, slot[g]>> \in open
    /\ \E r \in InFlight(g) : handle[r] = slot[g]

\* Only records that overlap on a gate, or a shutdown under a record, can take the
\* file away from an event before it is written.
LostOnlyIfDisturbed == lost \subseteq contended \union shut

\* Without such an overlap the map accounts for every open handle of the gate.
NoLeakUndisturbed ==
  \A h \in open : h[1] \notin contended => slot[h[1]] = h[2]
==============================================================================
