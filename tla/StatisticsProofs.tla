--------------------------- MODULE StatisticsProofs ---------------------------
(***************************************************************************)
(* Theorems about Statistics, for any gates, any finite number of swipes   *)
(* and any bounds.                                                         *)
(***************************************************************************)
EXTENDS Statistics, FiniteSetTheorems, TLAPS

\* Every variable keeps to its type: no count ever falls below zero.
THEOREM TypeCorrect == Spec => []TypeOK
<1>1. Init => TypeOK
  BY DEF Init, TypeOK, Zero
<1>2. TypeOK /\ [Next]_vars => TypeOK'
  <2> SUFFICES ASSUME TypeOK, [Next]_vars
               PROVE  TypeOK'
    OBVIOUS
  <2> USE DEF TypeOK, Goto, ledger, counter, fate, Zero, Added, Flushed, Snapshot, Total
  <2>1. ASSUME NEW d \in Swipes, NEW g \in Gates, NEW w \in BOOLEAN, HandleEntry(d, g, w)
        PROVE  TypeOK'
    BY <2>1 DEF HandleEntry
  <2>2. ASSUME NEW d \in Swipes, NEW c \in BOOLEAN, Open(d, c)
        PROVE  TypeOK'
    BY <2>2 DEF Open, Count
  <2>3. ASSUME NEW d \in Swipes, OpenFails(d) \/ Record(d)
        PROVE  TypeOK'
    BY <2>3 DEF OpenFails, Record
  <2>4. ASSUME NEW g \in Gates, ScheduledOpen(g)
        PROVE  TypeOK'
    BY <2>4 DEF ScheduledOpen, Count
  <2>5. CASE Poll
    BY <2>5, GatesAssumption DEF Poll
  <2>6. CASE Round
    BY <2>6 DEF Round, FlushPending, Save, ResetSession, SnapshotChannels
  <2>7. CASE Restart
    BY <2>7 DEF Restart, Replayed
  <2>8. CASE UNCHANGED vars
    BY <2>8 DEF vars, process
  <2> QED
    BY <2>1, <2>2, <2>3, <2>4, <2>5, <2>6, <2>7, <2>8 DEF Next, Handler
<1> QED
  BY <1>1, <1>2, PTL DEF Spec

------------------------------------------------------------------------------
(* Counting the handlers at work. *)

Busy(g) == Cardinality(InFlight(g))

\* The handlers at work on a gate are finitely many.
LEMMA BusyFinite == \A g : IsFiniteSet(InFlight(g)) /\ Busy(g) \in Nat
BY SwipesAssumption, FS_Subset, FS_CardinalityType DEF InFlight, Busy

\* An idle handler that begins on g is one more there and nowhere else.
LEMMA BusyEnter ==
  ASSUME TypeOK, NEW d \in Swipes, NEW g \in Gates, pc[d] = "idle",
         pc' = [pc EXCEPT ![d] = "open"], gate' = [gate EXCEPT ![d] = g]
  PROVE  \A h \in Gates : Busy(h)' = IF h = g THEN Busy(h) + 1 ELSE Busy(h)
<1> TAKE h \in Gates
<1>1. d \notin InFlight(h)
  BY DEF InFlight
<1>2. CASE h = g
  <2>1. InFlight(h)' = InFlight(h) \union {d}
    BY <1>2 DEF InFlight, TypeOK
  <2> QED
    BY <2>1, <1>1, <1>2, BusyFinite, FS_AddElement DEF Busy
<1>3. CASE h # g
  <2>1. InFlight(h)' = InFlight(h)
    BY <1>3 DEF InFlight, TypeOK
  <2> QED
    BY <2>1, <1>3 DEF Busy
<1> QED
  BY <1>2, <1>3

\* A handler that ends is one less on its gate.
LEMMA BusyLeave ==
  ASSUME TypeOK, NEW d \in Swipes, pc[d] # "idle",
         pc' = [pc EXCEPT ![d] = "idle"], gate' = gate
  PROVE  \A h \in Gates : Busy(h)' = IF h = gate[d] THEN Busy(h) - 1 ELSE Busy(h)
<1> TAKE h \in Gates
<1>1. InFlight(h)' = InFlight(h) \ {d}
  BY DEF InFlight, TypeOK
<1>2. d \in InFlight(h) <=> h = gate[d]
  BY DEF InFlight
<1> QED
  BY <1>1, <1>2, BusyFinite, FS_RemoveElement DEF Busy

\* Nothing changes while no handler begins or ends.
LEMMA BusyStays ==
  ASSUME gate' = gate, \A d \in Swipes : pc'[d] = "idle" <=> pc[d] = "idle"
  PROVE  \A h \in Gates : Busy(h)' = Busy(h)
BY DEF Busy, InFlight

------------------------------------------------------------------------------
(* The inductive invariant: EntriesAccounted needs that nothing of a        *)
(* registered gate is left old, SnapshotsCurrent that a gate with a         *)
(* snapshot is still known when the next round takes them.                  *)

Accounted ==
  \A g \in Gates : totals[g] + pending[g] + Busy(g) + failed[g] + old[g] = events[g] + lost[g]
NoneOld == \A g \in Registered : old[g] = 0
SnappedKnown == snapped \subseteq known

IInv == Accounted /\ NoneOld /\ SessionsAccounted /\ SnapshotsCurrent /\ SnappedKnown

LEMMA IInvInit == Init => IInv
<1> SUFFICES ASSUME Init PROVE IInv
  OBVIOUS
<1>1. \A g \in Gates : Busy(g) = 0
  <2>1. \A g \in Gates : InFlight(g) = {}
    BY DEF InFlight, Init
  <2> QED
    BY <2>1, FS_EmptySet DEF Busy
<1> QED
  BY <1>1, GatesAssumption DEF Init, Zero, IInv, Accounted, NoneOld, SessionsAccounted,
    SnapshotsCurrent, SnappedKnown

LEMMA IInvStep == TypeOK /\ IInv /\ [Next]_vars => IInv'
<1> SUFFICES ASSUME TypeOK, IInv, [Next]_vars
             PROVE  IInv'
  OBVIOUS
<1> USE DEF IInv, ledger, counter, fate, Goto, Added, Flushed, Snapshot, Total
<1>1. ASSUME NEW d \in Swipes, NEW g \in Gates, NEW w \in BOOLEAN, HandleEntry(d, g, w)
      PROVE  IInv'
  <2> USE <1>1 DEF HandleEntry
  <2>1. \A h \in Gates : Busy(h)' = IF h = g THEN Busy(h) + 1 ELSE Busy(h)
    BY BusyEnter
  <2>2. Accounted'
    BY <2>1, BusyFinite DEF Accounted, TypeOK
  <2> QED
    BY <2>2 DEF NoneOld, SessionsAccounted, SnapshotsCurrent, SnappedKnown
<1>2. ASSUME NEW d \in Swipes, NEW c \in BOOLEAN, Open(d, c)
      PROVE  IInv'
  <2> USE <1>2 DEF Open, Count
  <2>1. Accounted'
    BY BusyStays DEF Accounted, TypeOK
  <2>2. SessionsAccounted'
    BY DEF SessionsAccounted, TypeOK
  <2> QED
    BY <2>1, <2>2 DEF NoneOld, SnapshotsCurrent, SnappedKnown
<1>3. ASSUME NEW d \in Swipes, OpenFails(d)
      PROVE  IInv'
  <2> USE <1>3 DEF OpenFails
  <2>1. \A h \in Gates : Busy(h)' = IF h = gate[d] THEN Busy(h) - 1 ELSE Busy(h)
    BY BusyLeave
  <2>2. Accounted'
    BY <2>1, BusyFinite DEF Accounted, TypeOK
  <2> QED
    BY <2>2 DEF NoneOld, SessionsAccounted, SnapshotsCurrent, SnappedKnown
<1>4. ASSUME NEW d \in Swipes, Record(d)
      PROVE  IInv'
  <2> USE <1>4 DEF Record
  <2>1. \A h \in Gates : Busy(h)' = IF h = gate[d] THEN Busy(h) - 1 ELSE Busy(h)
    BY BusyLeave
  <2>2. Accounted'
    BY <2>1, BusyFinite DEF Accounted, TypeOK
  <2> QED
    BY <2>2 DEF NoneOld, SessionsAccounted, SnapshotsCurrent, SnappedKnown
<1>5. ASSUME NEW g \in Gates, ScheduledOpen(g)
      PROVE  IInv'
  <2> USE <1>5 DEF ScheduledOpen, Count
  <2>1. Accounted'
    BY BusyStays DEF Accounted
  <2>2. SessionsAccounted'
    BY DEF SessionsAccounted, TypeOK
  <2> QED
    BY <2>1, <2>2 DEF NoneOld, SnapshotsCurrent, SnappedKnown
<1>6. CASE Poll
  <2>1. Accounted'
    BY <1>6, BusyStays DEF Accounted, Poll
  <2> QED
    BY <1>6, <2>1 DEF Poll, NoneOld, SessionsAccounted, SnapshotsCurrent, SnappedKnown
<1>7. CASE FlushPending
  <2> USE <1>7 DEF FlushPending, Zero
  <2>1. Accounted'
    BY BusyStays, BusyFinite DEF Accounted, TypeOK
  <2>2. SnapshotsCurrent'
    BY DEF SnapshotsCurrent, TypeOK
  <2> QED
    BY <2>1, <2>2 DEF NoneOld, SessionsAccounted, SnappedKnown
<1>8. CASE Save
  <2> USE <1>8 DEF Save, Zero
  <2>1. Accounted'
    BY BusyStays DEF Accounted
  <2>2. SessionsAccounted'
    BY DEF SessionsAccounted, TypeOK
  <2> QED
    BY <2>1, <2>2 DEF NoneOld, SnapshotsCurrent, SnappedKnown
<1>9. CASE ResetSession
  <2> USE <1>9 DEF ResetSession, Zero
  <2>1. Accounted'
    BY BusyStays DEF Accounted
  <2>2. SessionsAccounted'
    BY DEF SessionsAccounted, TypeOK
  <2> QED
    BY <2>1, <2>2 DEF NoneOld, SnapshotsCurrent, SnappedKnown
<1>10. CASE SnapshotChannels
  <2> USE <1>10 DEF SnapshotChannels
  <2>1. Accounted'
    BY BusyStays DEF Accounted
  <2>2. SnapshotsCurrent'
    BY DEF SnapshotsCurrent, SnappedKnown, TypeOK
  <2> QED
    BY <2>1, <2>2 DEF NoneOld, SessionsAccounted, SnappedKnown
<1>11. CASE Restart
  <2> USE <1>11 DEF Restart, Zero
  <2>1. \A g \in Gates : Busy(g)' = 0
    <3>1. \A g \in Gates : InFlight(g)' = {}
      BY DEF InFlight
    <3> QED
      BY <3>1, FS_EmptySet DEF Busy
  <2>2. Accounted'
    BY <2>1 DEF Accounted, Replayed, Replays, TypeOK
  <2>3. NoneOld'
    BY GatesAssumption DEF NoneOld, Replays
  <2> QED
    BY <2>2, <2>3 DEF SessionsAccounted, SnapshotsCurrent, SnappedKnown
<1>12. CASE UNCHANGED vars
  <2> USE <1>12 DEF vars, process
  <2>1. Accounted'
    BY BusyStays DEF Accounted
  <2> QED
    BY <2>1 DEF NoneOld, SessionsAccounted, SnapshotsCurrent, SnappedKnown
<1> QED
  BY <1>1, <1>2, <1>3, <1>4, <1>5, <1>6, <1>7, <1>8, <1>9, <1>10, <1>11, <1>12
    DEF Next, Handler, Round

\* The invariant holds in every state.
LEMMA Inductive == Spec => [](TypeOK /\ IInv)
<1>1. Init => IInv
  BY IInvInit
<1>2. TypeOK /\ TypeOK' /\ IInv /\ [Next]_vars => IInv'
  BY IInvStep
<1> QED
  BY <1>1, <1>2, TypeCorrect, PTL DEF Spec

------------------------------------------------------------------------------
(* The results. *)

\* Every entry of StatsService and of the event files is on one account, over
\* flushes, refused openings, lost events and restarts.
THEOREM Entries == Spec => []EntriesAccounted
<1>1. IInv => EntriesAccounted
  BY DEF IInv, Accounted, Busy, EntriesAccounted
<1> QED
  BY <1>1, Inductive, PTL

\* snapshotLoop's Save and ResetSession lose from the session count only the
\* passages counted between the two calls.
THEOREM Sessions == Spec => []SessionsAccounted
<1>1. IInv => SessionsAccounted
  BY DEF IInv
<1> QED
  BY <1>1, Inductive, PTL

\* ChannelRegistry's snapshots follow the totals.
THEOREM Snapshots == Spec => []SnapshotsCurrent
<1>1. IInv => SnapshotsCurrent
  BY DEF IInv
<1> QED
  BY <1>1, Inductive, PTL

\* The replay of BuildApplication changes a registered total by the entries that
\* never passed and by the events that were not written, by nothing else.
THEOREM Recounts == Spec => RestartRecounts
<1> DEFINE Recount(g) ==
      /\ totals'[g] + lost[g] >= totals[g] + pending[g]
      /\ totals'[g] <= totals[g] + pending[g] + failed[g] + Cardinality(InFlight(g))
<1>1. ASSUME TypeOK, IInv, [Next]_vars, restarts' # restarts, NEW g \in Registered
      PROVE  Recount(g)
  <2>1. CASE Restart
    <3>1. g \in Gates /\ totals'[g] = events[g] /\ old[g] = 0
      BY <2>1, <1>1, GatesAssumption DEF Restart, Replayed, Replays, IInv, NoneOld
    <3>2. totals[g] + pending[g] + Busy(g) + failed[g] = events[g] + lost[g]
      BY <1>1, <3>1, BusyFinite DEF IInv, Accounted, TypeOK
    <3> QED
      BY <1>1, <3>1, <3>2, BusyFinite DEF TypeOK, Busy
  <2>2. ~ Restart => restarts' = restarts
    BY <1>1 DEF Next, vars, process, Handler, HandleEntry, Open, OpenFails, Record,
      ScheduledOpen, Poll, Round, FlushPending, Save, ResetSession, SnapshotChannels
  <2> QED
    BY <2>1, <2>2, <1>1
<1>2. TypeOK /\ IInv /\ [Next]_vars =>
        [restarts' # restarts => \A g \in Registered : Recount(g)]_vars
  BY <1>1
<1> HIDE DEF Recount
<1>3. Spec => [][restarts' # restarts => \A g \in Registered : Recount(g)]_vars
  BY <1>2, Inductive, PTL DEF Spec
<1> QED
  BY <1>3 DEF Recount, RestartRecounts

\* StatsService implements the abstract ledger: flushing, saving and taking
\* snapshots are steps of nobody but themselves.
THEOREM Refinement == Spec => ImplementsLedger
<1> DEFINE Passed == [g \in Gates |-> totals[g] + pending[g]]
<1>1. Init => Ledger!Init
  BY DEF Init, Ledger!Init, Zero
<1>2. TypeOK /\ [Next]_vars => [Ledger!Next]_(Ledger!vars)
  <2> SUFFICES ASSUME TypeOK, [Next]_vars
               PROVE  Ledger!Next \/ UNCHANGED Ledger!vars
    OBVIOUS
  <2> USE DEF TypeOK, ledger, counter, fate, Ledger!vars
  <2>1. ASSUME NEW d \in Swipes, NEW g \in Gates, NEW w \in BOOLEAN, HandleEntry(d, g, w)
        PROVE  Ledger!Note(g) \/ UNCHANGED Ledger!vars
    BY <2>1 DEF HandleEntry, Ledger!Note
  <2>2. ASSUME NEW d \in Swipes, NEW g \in Gates, g = gate[d], Record(d)
        PROVE  Ledger!Pass(g)
    <3>1. Passed' = [Passed EXCEPT ![g] = @ + 1]
      <4>1. totals' = totals /\ pending' = [pending EXCEPT ![g] = @ + 1]
        BY <2>2 DEF Record, Added
      <4>2. totals'[g] + pending'[g] = (totals[g] + pending[g]) + 1
        BY <4>1
      <4>3. \A h \in Gates \ {g} : totals'[h] + pending'[h] = totals[h] + pending[h]
        BY <4>1
      <4> QED
        BY <4>2, <4>3, Zenon
    <3> QED
      BY <3>1, <2>2 DEF Record, Ledger!Pass
  <2>3. CASE FlushPending
    <3>1. Passed' = Passed
      BY <2>3 DEF FlushPending, Flushed, Zero
    <3> QED
      BY <3>1, <2>3 DEF FlushPending
  <2>4. CASE Restart
    <3>1. Passed' = [g \in Gates |-> IF g \in Registered THEN events[g] ELSE 0]
      BY <2>4 DEF Restart, Zero, Replayed, Replays
    <3> QED
      BY <3>1, <2>4 DEF Restart, Ledger!Restart, Ledger!Next
  <2>5. ASSUME UNCHANGED <<events, totals, pending>>
        PROVE  UNCHANGED Ledger!vars
    BY <2>5
  <2>6. ASSUME NEW d \in Swipes, NEW c \in BOOLEAN, Open(d, c)
        PROVE  UNCHANGED <<events, totals, pending>>
    BY <2>6 DEF Open
  <2>7. ASSUME NEW d \in Swipes, OpenFails(d)
        PROVE  UNCHANGED <<events, totals, pending>>
    BY <2>7 DEF OpenFails
  <2>8. ASSUME NEW g \in Gates, ScheduledOpen(g)
        PROVE  UNCHANGED <<events, totals, pending>>
    BY <2>8 DEF ScheduledOpen
  <2>9. CASE Poll \/ Save \/ ResetSession \/ SnapshotChannels \/ UNCHANGED vars
    BY <2>5, <2>9 DEF Poll, Save, ResetSession, SnapshotChannels, vars
  <2>10. ASSUME NEW d \in Swipes, Handler(d)
         PROVE  Ledger!Next \/ UNCHANGED Ledger!vars
    <3>1. CASE \E g \in Gates, w \in BOOLEAN : HandleEntry(d, g, w)
      BY <3>1, <2>1 DEF Ledger!Next
    <3>2. CASE Record(d)
      <4>1. PICK g \in Gates : g = gate[d]
        OBVIOUS
      <4> QED
        BY <4>1, <3>2, <2>2 DEF Ledger!Next
    <3>3. CASE (\E c \in BOOLEAN : Open(d, c)) \/ OpenFails(d)
      BY <3>3, <2>5, <2>6, <2>7
    <3> QED
      BY <3>1, <3>2, <3>3, <2>10 DEF Handler
  <2> QED
    BY <2>3, <2>4, <2>5, <2>8, <2>9, <2>10 DEF Next, Round, Ledger!Next
<1> QED
  BY <1>1, <1>2, TypeCorrect, PTL DEF Spec, ImplementsLedger, Ledger!Spec
==============================================================================
