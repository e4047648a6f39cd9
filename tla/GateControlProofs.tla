-------------------------- MODULE GateControlProofs --------------------------
(***************************************************************************)
(* Theorems about GateControl, for any set of gates, any set of swipe      *)
(* handlers and any bound on the cycles.                                   *)
(***************************************************************************)
EXTENDS GateControl, FiniteSetTheorems, TLAPS

LEMMA OpFacts ==
  \A o \in Ops : Moving(o) \in Transients /\ Settled(o) \in GateStates \ Transients
BY DEF Ops, Moving, Settled, Transients, GateStates

\* A goroutine that is idle begins: a swipe, an exit that fails, a tick.
Arrives(d, g) == Request(d, g) \/ ExitFails(d, g) \/ (d = Scheduler /\ Tick(g))

LEMMA NextSplits ==
  ASSUME [Next]_vars
  PROVE  \/ \E d \in Drivers, g \in Gates : Arrives(d, g)
         \/ \E d \in Drivers : Proceed(d)
         \/ UNCHANGED vars
BY DEF Next, Arrives, Drivers

\* Every variable keeps to its type: no count goes below zero, and no call leads to a
\* place the code does not have.
THEOREM TypeCorrect == Spec => []TypeOK
<1>1. Init => TypeOK
  BY DEF Init, TypeOK, GateStates, Locations, Ops
<1>2. TypeOK /\ [Next]_vars => TypeOK'
  <2> SUFFICES ASSUME TypeOK, [Next]_vars
               PROVE  TypeOK'
    OBVIOUS
  <2> USE DEF Goto, history, tally
  <2>1. ASSUME NEW d \in Drivers, NEW g \in Gates, Request(d, g) \/ (d = Scheduler /\ Tick(g))
        PROVE  TypeOK'
    BY <2>1 DEF Request, Tick, TypeOK, Ops, Locations
  <2>2. ASSUME NEW d \in Drivers, NEW g \in Gates, ExitFails(d, g)
        PROVE  TypeOK'
    BY <2>2 DEF ExitFails, TypeOK, Locations
  <2>3. ASSUME NEW d \in Drivers, Proceed(d)
        PROVE  TypeOK'
    <3> gate[d] \in Gates /\ op[d] \in Ops
      BY DEF TypeOK
    <3> USE OpFacts
    <3>1. CASE Begin(d)
      BY <3>1 DEF Begin, TypeOK, SetState, MaySet, Transients, GateStates, Locations
    <3>2. CASE Actuate(d) \/ Confirm(d)
      BY <3>2 DEF Actuate, Confirm, TypeOK, Locations
    <3>3. CASE ActuatorFails(d) \/ Timeout(d)
      BY <3>3 DEF ActuatorFails, Timeout, TypeOK, Locations
    <3>4. CASE Commit(d)
      BY <3>4 DEF Commit, TypeOK, SetState, MaySet, Transients, GateStates, Locations
    <3>5. CASE Verify(d)
      BY <3>5 DEF Verify, TypeOK, Locations
    <3>6. CASE Count(d)
      BY <3>6 DEF Count, TypeOK, Locations
    <3>7. CASE Undo(d)
      BY <3>7 DEF Undo, TypeOK, RecoverToClosed, GateStates, Locations
    <3>8. CASE Fallback(d)
      BY <3>8 DEF Fallback, TypeOK, RecoverToClosed, GateStates, Locations
    <3>9. CASE Fault(d)
      BY <3>9 DEF Fault, TypeOK, Locations
    <3>10. CASE RaiseCause(d)
      BY <3>10 DEF RaiseCause, TypeOK, Locations
    <3>11. CASE ExitFault(d)
      BY <3>11 DEF ExitFault, TypeOK, Locations
    <3> QED
      BY <2>3, <3>1, <3>2, <3>3, <3>4, <3>5, <3>6, <3>7, <3>8, <3>9, <3>10, <3>11
         DEF Proceed
  <2>4. CASE UNCHANGED vars
    BY <2>4 DEF vars, TypeOK
  <2> QED
    BY <2>1, <2>2, <2>3, <2>4, NextSplits DEF Arrives
<1> QED
  BY <1>1, <1>2, PTL DEF Spec

\* A step of one goroutine leaves the others where they are, and no call changes
\* its gate or its operation on the way.
LEMMA ProceedFrame ==
  ASSUME TypeOK, NEW d \in Drivers, Proceed(d)
  PROVE  /\ gate' = gate /\ op' = op
         /\ \A e \in Drivers \ {d} : pc'[e] = pc[e]
BY DEF Proceed, Begin, Actuate, ActuatorFails, Confirm, Timeout, Commit, Verify, Count,
       Undo, Fallback, Fault, RaiseCause, ExitFault, Goto, history, tally, TypeOK

\* One that begins drove nothing, and drives nothing yet.
LEMMA ArrivalFrame ==
  ASSUME TypeOK, NEW d \in Drivers, NEW g \in Gates, Arrives(d, g)
  PROVE  /\ state' = state /\ faults' = faults /\ stolen' = stolen
         /\ pc[d] = "idle" /\ pc'[d] \in {"begin", "exitfault"}
         /\ \A e \in Drivers \ {d} : pc'[e] = pc[e] /\ gate'[e] = gate[e] /\ op'[e] = op[e]
BY DEF Arrives, Request, ExitFails, Tick, Goto, history, tally, TypeOK

\* What one step of goroutine d can do to the gate it works on.
LEMMA ProceedStates ==
  ASSUME TypeOK, NEW d \in Drivers, Proceed(d)
  PROVE  LET g == gate[d]  m == Moving(op[d]) IN
         \/ /\ Begin(d) /\ MaySet(g, m) /\ pc'[d] = "actuate" /\ stolen' = stolen
            /\ state' = [state EXCEPT ![g] = m]
         \/ /\ pc[d] \in Driving /\ pc'[d] \in Driving
            /\ state' = state /\ stolen' = stolen
         \/ /\ pc[d] \in {"commit", "fallback"} /\ pc'[d] \notin Driving /\ stolen' = stolen
            /\ \/ /\ pc[d] = "commit" /\ MaySet(g, Settled(op[d]))
                  /\ state' = [state EXCEPT ![g] = Settled(op[d])]
               \/ pc[d] = "commit" /\ ~MaySet(g, Settled(op[d])) /\ state' = state
               \/ /\ pc[d] = "fallback" /\ state[g] \in Transients
                  /\ state' = [state EXCEPT ![g] = "closed"]
               \/ pc[d] = "fallback" /\ state[g] \notin Transients /\ state' = state
         \/ /\ pc[d] \notin Driving /\ pc'[d] \notin Driving
            /\ state' = state /\ stolen' = stolen
         \/ /\ Undo(d) /\ pc[d] \notin Driving /\ pc'[d] \notin Driving
            /\ state[g] \in Transients /\ stolen' = stolen \union {g}
            /\ state' = [state EXCEPT ![g] = "closed"]
<1> gate[d] \in Gates /\ op[d] \in Ops
  BY DEF TypeOK
<1> USE OpFacts DEF Goto, history, tally, Driving
<1>1. CASE Begin(d)
  BY <1>1 DEF Begin, SetState, TypeOK
<1>2. CASE Actuate(d) \/ ActuatorFails(d) \/ Confirm(d) \/ Timeout(d)
  BY <1>2 DEF Actuate, ActuatorFails, Confirm, Timeout, TypeOK
<1>3. CASE Commit(d)
  BY <1>3 DEF Commit, SetState, TypeOK
<1>4. CASE Verify(d) \/ Count(d) \/ Fault(d) \/ RaiseCause(d) \/ ExitFault(d)
  BY <1>4 DEF Verify, Count, Fault, RaiseCause, ExitFault, TypeOK
<1>5. CASE Undo(d)
  BY <1>5 DEF Undo, RecoverToClosed, TypeOK
<1>6. CASE Fallback(d)
  BY <1>6 DEF Fallback, RecoverToClosed, TypeOK
<1> QED
  BY <1>1, <1>2, <1>3, <1>4, <1>5, <1>6 DEF Proceed

\* The table, movement by movement.
LEMMA TableFacts ==
  ASSUME NEW g \in Gates, NEW o \in Ops
  PROVE  /\ MaySet(g, Moving(o)) => state[g] \notin Transients
         /\ MaySet(g, Settled(o)) <=> state[g] = Moving(o)
BY DEF MaySet, allowedTransitions, Moving, Settled, Transients, Ops

\* The movement in progress has a goroutine behind it, whatever the others do.
THEOREM NoOrphans == Spec => []NoOrphanTransient
<1>1. Init => NoOrphanTransient
  BY DEF Init, NoOrphanTransient, Moving
<1>2. TypeOK /\ NoOrphanTransient /\ [Next]_vars => NoOrphanTransient'
  <2> SUFFICES ASSUME TypeOK, NoOrphanTransient, [Next]_vars,
                      NEW h \in Gates, NEW o \in Ops, state'[h] = Moving(o)
               PROVE  \E e \in Drivers : Drives(e, h, o)'
    BY DEF NoOrphanTransient, Moving, Ops
  <2>1. ASSUME NEW d \in Drivers, NEW g \in Gates, Arrives(d, g)
        PROVE  \E e \in Drivers : Drives(e, h, o)'
    <3>1. PICK e \in Drivers : Drives(e, h, o)
      BY <2>1, ArrivalFrame DEF NoOrphanTransient
    <3>2. e # d
      BY <2>1, <3>1, ArrivalFrame DEF Drives, Driving
    <3> QED
      BY <2>1, <3>1, <3>2, ArrivalFrame DEF Drives
  <2>2. ASSUME NEW d \in Drivers, Proceed(d)
        PROVE  \E e \in Drivers : Drives(e, h, o)'
    <3> gate[d] \in Gates /\ op[d] \in Ops
      BY DEF TypeOK
    <3>1. CASE state[h] = Moving(o)
      <4>1. PICK e \in Drivers : Drives(e, h, o)
        BY <3>1 DEF NoOrphanTransient
      <4>2. CASE e # d
        BY <2>2, <4>1, <4>2, ProceedFrame DEF Drives
      <4>3. CASE e = d
        <5>1. gate[d] = h /\ op[d] = o /\ pc[d] \in Driving
          BY <4>1, <4>3 DEF Drives
        <5>2. pc'[d] \in Driving
          BY <2>2, <3>1, <5>1, ProceedStates, TableFacts, OpFacts
             DEF TypeOK, Begin, Undo, Driving, Transients
        <5> QED
          BY <2>2, <5>1, <5>2, ProceedFrame DEF Drives
      <4> QED
        BY <4>2, <4>3
    <3>2. CASE state[h] # Moving(o)
      <4>1. state'[h] # state[h]
        BY <3>2
      <4>2. gate[d] = h /\ state'[h] = Moving(op[d]) /\ pc'[d] = "actuate"
        BY <2>2, <4>1, ProceedStates, OpFacts DEF TypeOK, Transients, Moving, Ops
      <4>3. op[d] = o
        BY <4>2 DEF Moving, Ops
      <4> QED
        BY <2>2, <4>2, <4>3, ProceedFrame DEF Drives, Driving
    <3> QED
      BY <3>1, <3>2
  <2>3. CASE UNCHANGED vars
    BY <2>3 DEF vars, NoOrphanTransient, Drives, Drivers
  <2> QED
    BY <2>1, <2>2, <2>3, NextSplits
<1> QED
  BY <1>1, <1>2, TypeCorrect, PTL DEF Spec

\* A gate of which nothing was stolen has at most one goroutine driving it, and
\* that one finds the gate as it left it.
LEMMA ExclusiveStep ==
  TypeOK /\ ExclusiveDriver /\ [Next]_vars => ExclusiveDriver'
<1> SUFFICES ASSUME TypeOK, ExclusiveDriver, [Next]_vars,
                    NEW h \in Gates, h \notin stolen',
                    NEW c \in Drivers, NEW o \in Ops, Drives(c, h, o)'
             PROVE  /\ state'[h] = Moving(o)
                    /\ \A e \in Drivers : gate'[e] = h /\ pc'[e] \in Driving => e = c
  BY DEF ExclusiveDriver
<1>1. ASSUME NEW d \in Drivers, NEW g \in Gates, Arrives(d, g)
      PROVE  /\ state'[h] = Moving(o)
             /\ \A e \in Drivers : gate'[e] = h /\ pc'[e] \in Driving => e = c
  BY <1>1, ArrivalFrame DEF ExclusiveDriver, Drives, Driving
<1>2. ASSUME NEW d \in Drivers, Proceed(d)
      PROVE  /\ state'[h] = Moving(o)
             /\ \A e \in Drivers : gate'[e] = h /\ pc'[e] \in Driving => e = c
  <2> gate[d] \in Gates /\ op[d] \in Ops
    BY DEF TypeOK
  <2>0. h \notin stolen
    BY <1>2, ProceedStates
  <2>1. CASE gate[d] # h
    <3>1. Drives(c, h, o) /\ c # d
      BY <1>2, <2>1, ProceedFrame DEF Drives
    <3>2. state'[h] = state[h]
      BY <1>2, <2>1, ProceedStates DEF TypeOK
    <3> QED
      BY <1>2, <2>0, <2>1, <3>1, <3>2, ProceedFrame DEF ExclusiveDriver
  <2>2. CASE gate[d] = h /\ pc[d] \in Driving
    <3>1. state[h] = Moving(op[d]) /\ \A e \in Drivers : gate[e] = h /\ pc[e] \in Driving => e = d
      BY <2>0, <2>2 DEF ExclusiveDriver, Drives
    <3>2. c = d
      BY <1>2, <3>1, ProceedFrame DEF Drives
    <3>3. op[d] = o /\ pc'[d] \in Driving
      BY <1>2, <3>2, ProceedFrame DEF Drives
    <3>4. state' = state
      BY <1>2, <2>2, <3>3, ProceedStates DEF Driving, Begin, Undo
    <3> QED
      BY <1>2, <3>1, <3>2, <3>3, <3>4, ProceedFrame
  <2>3. CASE gate[d] = h /\ pc[d] \notin Driving
    <3>1. CASE pc'[d] \notin Driving
      <4>1. Drives(c, h, o) /\ c # d
        BY <1>2, <3>1, ProceedFrame DEF Drives
      <4>2. state' = state
        BY <1>2, <2>3, <3>1, ProceedStates DEF Driving
      <4> QED
        BY <1>2, <2>0, <2>3, <3>1, <4>1, <4>2, ProceedFrame DEF ExclusiveDriver
    <3>2. CASE pc'[d] \in Driving
      <4>1. state[h] \notin Transients /\ state'[h] = Moving(op[d])
        BY <1>2, <2>3, <3>2, ProceedStates, TableFacts DEF TypeOK, Driving
      <4>2. \A e \in Drivers : ~(gate[e] = h /\ pc[e] \in Driving)
        BY <2>0, <4>1, OpFacts DEF ExclusiveDriver, Drives, TypeOK
      <4>3. \A e \in Drivers : gate'[e] = h /\ pc'[e] \in Driving => e = d
        BY <1>2, <4>2, ProceedFrame
      <4>4. c = d /\ op[d] = o
        BY <1>2, <4>3, ProceedFrame DEF Drives
      <4> QED
        BY <4>1, <4>3, <4>4
    <3> QED
      BY <3>1, <3>2
  <2> QED
    BY <2>1, <2>2, <2>3
<1>3. CASE UNCHANGED vars
  BY <1>3 DEF vars, history, ExclusiveDriver, Drives
<1> QED
  BY <1>1, <1>2, <1>3, NextSplits

THEOREM Exclusive == Spec => []ExclusiveDriver
<1>1. Init => ExclusiveDriver
  BY DEF Init, ExclusiveDriver, Drives, Driving
<1> QED
  BY <1>1, ExclusiveStep, TypeCorrect, PTL DEF Spec

\* Hence a movement is ended only by the call that makes it, after the sensor has
\* confirmed or as the fallback of a failure.
THEOREM EndConfirmed == Spec => MovementsEndConfirmed
<1>1. TypeOK /\ ExclusiveDriver /\ [Next]_vars
        => [\A g \in Gates : g \notin stolen' => EndedByDriver(g)]_vars
  <2> SUFFICES ASSUME TypeOK, ExclusiveDriver, [Next]_vars, ~UNCHANGED vars,
                      NEW h \in Gates, h \notin stolen',
                      NEW o \in Ops, state[h] = Moving(o), state'[h] # Moving(o)
               PROVE  \E d \in Drivers : /\ gate[d] = h /\ op[d] = o
                                         /\ pc[d] \in {"commit", "fallback"} /\ pc'[d] # pc[d]
    BY DEF EndedByDriver
  <2>1. ASSUME NEW d \in Drivers, NEW g \in Gates, Arrives(d, g)
        PROVE  FALSE
    BY <2>1, ArrivalFrame
  <2>2. PICK d \in Drivers : Proceed(d)
    BY <2>1, NextSplits
  <2> gate[d] \in Gates /\ op[d] \in Ops
    BY DEF TypeOK
  <2>3. h \notin stolen /\ gate[d] = h
    BY <2>2, ProceedStates DEF TypeOK
  <2>4. pc[d] \in {"commit", "fallback"} /\ pc'[d] # pc[d]
    BY <2>2, <2>3, ProceedStates, TableFacts, OpFacts DEF TypeOK, Driving, Begin
  <2>5. state[h] = Moving(op[d])
    BY <2>3, <2>4 DEF ExclusiveDriver, Drives, Driving
  <2>6. op[d] = o
    BY <2>5 DEF Moving, Ops
  <2> QED
    BY <2>3, <2>4, <2>6
<1> QED
  BY <1>1, TypeCorrect, Exclusive, PTL DEF Spec, MovementsEndConfirmed

\* Seen from outside every gate follows its table: the safety part of the gate
\* machine.
LEMMA FollowsMachine == Spec => Machine!Spec
<1>1. Init => Machine!Init
  BY DEF Init, Machine!Init
<1>2. TypeOK /\ [Next]_vars => [Machine!Next]_state
  <2> SUFFICES ASSUME TypeOK, [Next]_vars, state' # state
               PROVE  Machine!Next
    OBVIOUS
  <2>1. ASSUME NEW d \in Drivers, NEW g \in Gates, Arrives(d, g)
        PROVE  FALSE
    BY <2>1, ArrivalFrame
  <2>2. PICK d \in Drivers : Proceed(d)
    BY <2>1, NextSplits DEF vars
  <2> DEFINE g == gate[d]
  <2>3. g \in Gates /\ op[d] \in Ops
    BY DEF TypeOK
  <2>4. \/ \E to \in GateStates : MaySet(g, to) /\ state' = [state EXCEPT ![g] = to]
        \/ state[g] \in Transients /\ state' = [state EXCEPT ![g] = "closed"]
    BY <2>2, <2>3, ProceedStates, OpFacts DEF Transients, GateStates
  <2>5. Machine!Step(g) \/ Machine!Fallback(g)
    BY <2>4 DEF Machine!Step, Machine!Fallback, Machine!Move, Machine!Allowed, Machine!GateStates,
               MaySet, allowedTransitions, GateStates, Transients
  <2> QED
    BY <2>3, <2>5 DEF Machine!Next
<1> QED
  BY <1>1, <1>2, TypeCorrect, PTL DEF Spec, Machine!Spec

------------------------------------------------------------------------------
(* Openings and passages.  An Open that will not count its opening has been *)
(* overtaken by a closing, which found it uncounted.                        *)

Owed(g) == Cardinality(Uncounted(g))

Overtaken(d) ==
  \/ pc[d] = "undo"
  \/ pc[d] \in {"verify", "count"} /\ state[gate[d]] # "open"

Balanced(g) == totals[g] + missed[g] + Owed(g) = opens[g]

CountInv ==
  /\ \A d \in Drivers : pc[d] \in {"verify", "count", "undo"} => op[d] = "open"
  /\ \A d \in Drivers : Overtaken(d) => gate[d] \in raced
  /\ \A g \in Gates : missed[g] > 0 => g \in raced
  /\ \A g \in Gates : Balanced(g)

LEMMA OwedFinite == \A g : IsFiniteSet(Uncounted(g)) /\ Owed(g) \in Nat
<1>1. IsFiniteSet(Drivers)
  BY SwipesAssumption, FS_AddElement DEF Drivers
<1> QED
  BY <1>1, FS_Subset, FS_CardinalityType DEF Uncounted, Owed

\* A goroutine that comes to the check after its commit is one more on its gate ...
LEMMA OwedEnter ==
  ASSUME TypeOK, NEW d \in Drivers, gate' = gate, op' = op, op[d] = "open",
         pc[d] = "commit", pc' = [pc EXCEPT ![d] = "verify"]
  PROVE  \A h \in Gates : Owed(h)' = IF h = gate[d] THEN Owed(h) + 1 ELSE Owed(h)
<1> TAKE h \in Gates
<1>1. d \notin Uncounted(h)
  BY DEF Uncounted
<1>2. CASE h = gate[d]
  <2>1. Uncounted(h)' = Uncounted(h) \union {d}
    BY <1>2 DEF Uncounted, TypeOK
  <2> QED
    BY <2>1, <1>1, <1>2, OwedFinite, FS_AddElement DEF Owed
<1>3. CASE h # gate[d]
  <2>1. Uncounted(h)' = Uncounted(h)
    BY <1>3 DEF Uncounted, TypeOK
  <2> QED
    BY <2>1, <1>3 DEF Owed
<1> QED
  BY <1>2, <1>3

\* ... one that has counted, or given up, is one less ...
LEMMA OwedLeave ==
  ASSUME TypeOK, NEW d \in Drivers, gate' = gate, op' = op, op[d] = "open",
         pc[d] \in {"count", "undo"}, pc' = [pc EXCEPT ![d] = "idle"]
  PROVE  \A h \in Gates : Owed(h)' = IF h = gate[d] THEN Owed(h) - 1 ELSE Owed(h)
<1> TAKE h \in Gates
<1>1. Uncounted(h)' = Uncounted(h) \ {d}
  BY DEF Uncounted, TypeOK
<1>2. d \in Uncounted(h) <=> h = gate[d]
  BY DEF Uncounted
<1>3. CASE h = gate[d]
  BY <1>1, <1>2, <1>3, OwedFinite, FS_RemoveElement DEF Owed
<1>4. CASE h # gate[d]
  <2>1. Uncounted(h)' = Uncounted(h)
    BY <1>1, <1>2, <1>4
  <2> QED
    BY <2>1, <1>4 DEF Owed
<1> QED
  BY <1>3, <1>4

\* ... and nobody else's step changes the number.
LEMMA OwedStays ==
  ASSUME NEW d \in Drivers,
         \A e \in Drivers \ {d} : pc'[e] = pc[e] /\ gate'[e] = gate[e] /\ op'[e] = op[e],
         \/ pc[d] \notin {"verify", "count", "undo"} /\ pc'[d] \notin {"verify", "count", "undo"}
         \/ /\ pc[d] \in {"verify", "count", "undo"} /\ pc'[d] \in {"verify", "count", "undo"}
            /\ gate'[d] = gate[d] /\ op'[d] = op[d]
  PROVE  \A h \in Gates : Owed(h)' = Owed(h)
<1> TAKE h \in Gates
<1>1. Uncounted(h)' = Uncounted(h)
  BY DEF Uncounted
<1> QED
  BY <1>1 DEF Owed

LEMMA CountStep == TypeOK /\ CountInv /\ [Next]_vars => CountInv'
<1> SUFFICES ASSUME TypeOK, CountInv, [Next]_vars
             PROVE  CountInv'
  OBVIOUS
<1>1. ASSUME NEW d \in Drivers, NEW g \in Gates, Arrives(d, g)
      PROVE  CountInv'
  <2>1. UNCHANGED <<state, totals, missed, opens, raced>>
    BY <1>1 DEF Arrives, Request, ExitFails, Tick, history, tally
  <2>2. \A h \in Gates : Owed(h)' = Owed(h)
    BY <1>1, ArrivalFrame, OwedStays
  <2> QED
    BY <1>1, <2>1, <2>2, ArrivalFrame DEF CountInv, Overtaken, Balanced
<1>2. ASSUME NEW d \in Drivers, Proceed(d)
      PROVE  CountInv'
  <2> gate[d] \in Gates /\ op[d] \in Ops
    BY DEF TypeOK
  <2>0. /\ gate' = gate /\ op' = op
        /\ \A e \in Drivers \ {d} : pc'[e] = pc[e]
    BY <1>2, ProceedFrame
  <2>1. CASE Commit(d) /\ MaySet(gate[d], Settled(op[d])) /\ op[d] = "open"
    <3>1. /\ pc[d] = "commit" /\ pc' = [pc EXCEPT ![d] = "verify"]
          /\ state' = [state EXCEPT ![gate[d]] = "open"]
          /\ opens' = [opens EXCEPT ![gate[d]] = @ + 1]
          /\ UNCHANGED <<totals, missed, raced>>
      BY <2>1 DEF Commit, SetState, Settled, Goto
    <3>2. \A h \in Gates : Owed(h)' = IF h = gate[d] THEN Owed(h) + 1 ELSE Owed(h)
      BY <2>0, <2>1, <3>1, OwedEnter
    <3>3. \A h \in Gates : Balanced(h)'
      <4> SUFFICES ASSUME NEW h \in Gates
                   PROVE  Balanced(h)'
        OBVIOUS
      <4>1. Balanced(h) /\ Owed(h) \in Nat
        BY OwedFinite DEF CountInv
      <4>2. opens'[h] = IF h = gate[d] THEN opens[h] + 1 ELSE opens[h]
        BY <3>1 DEF TypeOK
      <4> QED
        BY <3>1, <3>2, <4>1, <4>2 DEF Balanced, TypeOK
    <3>4. \A e \in Drivers : pc'[e] \in {"verify", "count", "undo"} => op'[e] = "open"
      BY <2>0, <2>1, <3>1 DEF CountInv, TypeOK
    <3>5. \A e \in Drivers : Overtaken(e)' => gate'[e] \in raced'
      BY <2>0, <3>1 DEF CountInv, Overtaken, TypeOK
    <3>6. \A h \in Gates : missed'[h] > 0 => h \in raced'
      BY <3>1 DEF CountInv
    <3> QED
      BY <3>3, <3>4, <3>5, <3>6 DEF CountInv
  <2>2. CASE Count(d) \/ Undo(d)
    <3> DEFINE g == gate[d]
    <3>1. op[d] = "open" /\ pc[d] \in {"count", "undo"}
      BY <2>2 DEF CountInv, Count, Undo
    <3>2. pc' = [pc EXCEPT ![d] = "idle"]
      BY <2>2 DEF Count, Undo, Goto
    <3>3. \A h \in Gates : Owed(h)' = IF h = g THEN Owed(h) - 1 ELSE Owed(h)
      BY <2>0, <3>1, <3>2, OwedLeave
    <3>4. /\ UNCHANGED <<opens, raced>>
          /\ \/ /\ pc[d] = "count" /\ state[g] = "open" /\ UNCHANGED <<state, missed>>
                /\ totals' = [totals EXCEPT ![g] = @ + 1]
             \/ /\ Overtaken(d) /\ UNCHANGED totals
                /\ missed' = [missed EXCEPT ![g] = @ + 1]
                /\ state' = state \/ (state[g] # "open" /\ state' = [state EXCEPT ![g] = "closed"])
      BY <2>2 DEF Count, Undo, RecoverToClosed, Overtaken, Transients, TypeOK
    <3>5. \A h \in Gates : Balanced(h)'
      <4>1. Owed(g) \in Nat /\ \A h \in Gates : Balanced(h) /\ Owed(h) \in Nat
        BY OwedFinite DEF CountInv
      <4> QED
        BY <3>3, <3>4, <4>1 DEF Balanced, TypeOK
    <3>6. \A e \in Drivers : pc'[e] \in {"verify", "count", "undo"} => op'[e] = "open"
      BY <2>0, <3>2 DEF CountInv, TypeOK
    <3>7. \A e \in Drivers : Overtaken(e)' => gate'[e] \in raced'
      BY <2>0, <3>2, <3>4 DEF CountInv, Overtaken, TypeOK
    <3>8. \A h \in Gates : missed'[h] > 0 => h \in raced'
      BY <3>4 DEF CountInv, TypeOK
    <3> QED
      BY <3>5, <3>6, <3>7, <3>8 DEF CountInv
  <2>3. CASE /\ ~(Commit(d) /\ MaySet(gate[d], Settled(op[d])) /\ op[d] = "open")
             /\ ~Count(d) /\ ~Undo(d)
    <3>1. /\ UNCHANGED <<totals, missed>>
          /\ \/ pc[d] \notin {"verify", "count", "undo"} /\ pc'[d] \notin {"verify", "count", "undo"}
             \/ Verify(d)
      <4>1. CASE Begin(d) \/ Actuate(d) \/ ActuatorFails(d) \/ Confirm(d) \/ Timeout(d)
        BY <4>1 DEF Begin, Actuate, ActuatorFails, Confirm, Timeout, Goto, history, tally, TypeOK
      <4>2. CASE Commit(d)
        BY <2>3, <4>2 DEF Commit, Goto, TypeOK
      <4>3. CASE Verify(d)
        BY <4>3 DEF Verify, history, tally
      <4>4. CASE Fallback(d) \/ Fault(d) \/ RaiseCause(d) \/ ExitFault(d)
        BY <4>4 DEF Fallback, Fault, RaiseCause, ExitFault, Goto, history, tally, TypeOK
      <4> QED
        BY <1>2, <2>3, <4>1, <4>2, <4>3, <4>4 DEF Proceed
    <3>2. opens' = opens
      <4>1. CASE Commit(d)
        <5>1. Settled(op[d]) = "open" /\ MaySet(gate[d], Settled(op[d])) => FALSE
          BY <2>3, <4>1 DEF Settled, Ops
        <5> QED
          BY <4>1, <5>1 DEF Commit, TypeOK
      <4>2. CASE ~Commit(d)
        BY <1>2, <2>3, <4>2 DEF Proceed, Begin, Actuate, ActuatorFails, Confirm, Timeout,
             Verify, Fallback, Fault, RaiseCause, ExitFault, history, tally
      <4> QED
        BY <4>1, <4>2
    <3>3. Verify(d) => /\ pc[d] = "verify" /\ UNCHANGED <<state, raced>>
                       /\ pc' = [pc EXCEPT ![d] = IF state[gate[d]] = "open" THEN "count" ELSE "undo"]
      BY DEF Verify, Goto, history, tally
    <3>4. \A h \in Gates : Owed(h)' = Owed(h)
      BY <2>0, <3>1, <3>3, OwedStays DEF TypeOK
    <3>5. /\ raced \subseteq raced'
          /\ \A h \in Gates : state[h] = "open" /\ state'[h] # "open" =>
               Uncounted(h) = {} \/ h \in raced'
      <4>1. CASE Begin(d)
        BY <4>1 DEF Begin, SetState, MaySet, allowedTransitions, Moving, TypeOK, Ops
      <4>2. CASE Commit(d)
        BY <4>2 DEF Commit, SetState, MaySet, allowedTransitions, Settled, TypeOK, Ops
      <4>3. CASE Fallback(d)
        BY <4>3 DEF Fallback, RecoverToClosed, Transients, TypeOK, history, tally
      <4>4. CASE ~Begin(d) /\ ~Commit(d) /\ ~Fallback(d)
        BY <1>2, <2>3, <4>4 DEF Proceed, Actuate, ActuatorFails, Confirm, Timeout,
             Verify, Fault, RaiseCause, ExitFault, history, tally
      <4> QED
        BY <4>1, <4>2, <4>3, <4>4
    <3>6. \A h \in Gates : Balanced(h)'
      BY <3>1, <3>2, <3>4 DEF CountInv, Balanced
    <3>7. \A e \in Drivers : pc'[e] \in {"verify", "count", "undo"} => op'[e] = "open"
      BY <2>0, <3>1, <3>3 DEF CountInv
    <3>8. \A e \in Drivers : Overtaken(e)' => gate'[e] \in raced'
      <4> SUFFICES ASSUME NEW e \in Drivers, Overtaken(e)'
                   PROVE  gate[e] \in raced'
        BY <2>0
      <4>1. CASE e = d
        <5>1. Verify(d) /\ pc[d] = "verify" /\ state' = state /\ raced' = raced
          BY <2>0, <3>1, <3>3, <4>1 DEF Overtaken
        <5>2. Overtaken(d)
          BY <2>0, <3>3, <4>1, <5>1 DEF Overtaken, TypeOK
        <5> QED
          BY <4>1, <5>1, <5>2 DEF CountInv
      <4>2. CASE e # d /\ Overtaken(e)
        BY <3>5, <4>2 DEF CountInv
      <4>3. CASE e # d /\ ~Overtaken(e)
        <5>1. e \in Uncounted(gate[e]) /\ state[gate[e]] = "open" /\ state'[gate[e]] # "open"
          BY <2>0, <4>3 DEF CountInv, Overtaken, Uncounted
        <5> QED
          BY <3>5, <5>1 DEF TypeOK
      <4> QED
        BY <4>1, <4>2, <4>3
    <3>9. \A h \in Gates : missed'[h] > 0 => h \in raced'
      BY <3>1, <3>5 DEF CountInv
    <3> QED
      BY <3>6, <3>7, <3>8, <3>9 DEF CountInv
  <2> QED
    BY <2>1, <2>2, <2>3
<1>3. CASE UNCHANGED vars
  <2>1. \A h \in Gates : Owed(h)' = Owed(h)
    BY <1>3 DEF vars, Owed, Uncounted
  <2> QED
    BY <1>3, <2>1 DEF vars, history, CountInv, Overtaken, Balanced
<1> QED
  BY <1>1, <1>2, <1>3, NextSplits

\* Undo, which alone steals a movement, drops its own opening.
StealsDropped == \A g \in stolen : missed[g] > 0

LEMMA StealStep == TypeOK /\ StealsDropped /\ [Next]_vars => StealsDropped'
<1> SUFFICES ASSUME TypeOK, StealsDropped, [Next]_vars
             PROVE  StealsDropped'
  OBVIOUS
<1> USE DEF TypeOK, StealsDropped
<1>1. ASSUME NEW d \in Drivers, Undo(d)
      PROVE  StealsDropped'
  BY <1>1 DEF Undo
<1>2. ASSUME NEW d \in Drivers, Count(d)
      PROVE  StealsDropped'
  BY <1>2 DEF Count
<1>3. UNCHANGED <<stolen, missed>> \/ \E d \in Drivers : Undo(d) \/ Count(d)
  BY NextSplits DEF Arrives, Request, ExitFails, Tick, Proceed, Begin, Actuate, ActuatorFails, Confirm, Timeout,
         Commit, Verify, Fallback, Fault, RaiseCause, ExitFault, SetState, history, tally, vars
<1> QED
  BY <1>1, <1>2, <1>3

\* Every opening is counted once, by the call that made it, or was overtaken by a
\* closing, for any number of gates and goroutines.
THEOREM CountsExact == Spec => []CountsMatchOpens
<1>1. Init => CountInv
  <2> SUFFICES ASSUME Init PROVE CountInv
    OBVIOUS
  <2>1. \A g \in Gates : Owed(g) = 0
    <3>1. \A g \in Gates : Uncounted(g) = {}
      BY DEF Init, Uncounted
    <3> QED
      BY <3>1, FS_EmptySet DEF Owed
  <2> QED
    BY <2>1 DEF Init, CountInv, Overtaken, Balanced
<1>2. Init => StealsDropped
  BY DEF Init, StealsDropped
<1>3. CountInv /\ StealsDropped => CountsMatchOpens
  BY DEF CountInv, Balanced, Owed, StealsDropped, CountsMatchOpens
<1> HIDE DEF CountInv, StealsDropped
<1> QED
  BY <1>1, <1>2, <1>3, CountStep, StealStep, TypeCorrect, PTL DEF Spec

------------------------------------------------------------------------------
(* Movements, faults and alarms.                                            *)

N(g, ls) == Cardinality(At(g, ls))
Busy == Driving \union {"fault", "exitfault"}

Ended(g) == cycles[g] + closings[g] + exits[g]
              = opens[g] + closes[g] + lost[g] + faults[g] + N(g, Busy)
Voiced(g) == raised[g] + N(g, {"alarm"}) = faults[g] + N(g, {"exitfault"})

\* A gate in a movement has one goroutine to end it, a gate at rest none: whoever is
\* driving beyond that, or has found its commit refused, was robbed of its movement,
\* and for each of them an opening was given up.
Spared(g) == lost[g] + N(g, Driving) <= missed[g] + (IF state[g] \in Transients THEN 1 ELSE 0)

Accounts == \A g \in Gates : Ended(g) /\ Voiced(g) /\ Spared(g)

\* A step of d alone moves only d.
LEMMA AtMoves ==
  ASSUME NEW d \in Drivers, NEW h \in Gates, NEW CONSTANT ls,
         \A e \in Drivers \ {d} : pc'[e] = pc[e] /\ gate'[e] = gate[e]
  PROVE  LET was == gate[d] = h /\ pc[d] \in ls
             now == gate'[d] = h /\ pc'[d] \in ls
         IN  /\ N(h, ls) \in Nat /\ N(h, ls)' \in Nat
             /\ (was <=> now) => N(h, ls)' = N(h, ls)
             /\ ~was /\ now => N(h, ls)' = N(h, ls) + 1
             /\ was /\ ~now => N(h, ls)' = N(h, ls) - 1
<1> DEFINE was == gate[d] = h /\ pc[d] \in ls
           now == gate'[d] = h /\ pc'[d] \in ls
<1>1. IsFiniteSet(Drivers)
  BY SwipesAssumption, FS_AddElement DEF Drivers
<1>2. IsFiniteSet(At(h, ls)) /\ IsFiniteSet(At(h, ls)')
  <2>1. At(h, ls) \subseteq Drivers /\ At(h, ls)' \subseteq Drivers
    BY DEF At
  <2> QED
    BY <1>1, <2>1, FS_Subset
<1>3. N(h, ls) \in Nat /\ N(h, ls)' \in Nat
  BY <1>2, FS_CardinalityType DEF N
<1>4. d \in At(h, ls) <=> was
  BY DEF At
<1>5. CASE was <=> now
  <2>1. At(h, ls)' = At(h, ls)
    BY <1>5 DEF At
  <2> QED
    BY <1>3, <1>5, <2>1 DEF N
<1>6. CASE ~was /\ now
  <2>1. At(h, ls)' = At(h, ls) \union {d}
    BY <1>6 DEF At
  <2> QED
    BY <1>2, <1>3, <1>4, <1>6, <2>1, FS_AddElement DEF N
<1>7. CASE was /\ ~now
  <2>1. At(h, ls)' = At(h, ls) \ {d}
    BY <1>7 DEF At
  <2> QED
    BY <1>2, <1>3, <1>4, <1>7, <2>1, FS_RemoveElement DEF N
<1> QED
  BY <1>5, <1>6, <1>7

LEMMA AccountStep == TypeOK /\ Accounts /\ [Next]_vars => Accounts'
<1> SUFFICES ASSUME TypeOK, Accounts, [Next]_vars, NEW h \in Gates
             PROVE  Ended(h)' /\ Voiced(h)' /\ Spared(h)'
  BY DEF Accounts
<1>0. Ended(h) /\ Voiced(h) /\ Spared(h)
  BY DEF Accounts
<1>1. ASSUME NEW d \in Drivers, NEW g \in Gates, Arrives(d, g)
      PROVE  Ended(h)' /\ Voiced(h)' /\ Spared(h)'
  <2>0. /\ pc[d] = "idle" /\ state' = state
        /\ \A e \in Drivers \ {d} : pc'[e] = pc[e] /\ gate'[e] = gate[e]
    BY <1>1, ArrivalFrame
  <2>1. N(h, Driving)' = N(h, Driving) /\ N(h, {"alarm"})' = N(h, {"alarm"})
    BY <1>1, <2>0, ArrivalFrame, AtMoves DEF Driving
  <2>2. /\ N(h, Busy) \in Nat /\ N(h, {"exitfault"}) \in Nat
        /\ N(h, Driving) \in Nat /\ N(h, {"alarm"}) \in Nat
    BY <2>0, AtMoves
  <2>3. CASE pc'[d] = "exitfault" /\ gate'[d] = h
    <3>1. N(h, Busy)' = N(h, Busy) + 1 /\ N(h, {"exitfault"})' = N(h, {"exitfault"}) + 1
      BY <2>0, <2>3, AtMoves DEF Busy, Driving
    <3>2. /\ exits'[h] = exits[h] + 1 /\ raised'[h] = raised[h] + 1
          /\ UNCHANGED <<cycles, closings, opens, closes, lost, faults, missed>>
      BY <1>1, <2>3 DEF Arrives, Request, ExitFails, Tick, Goto, TypeOK
    <3> QED
      BY <1>0, <2>0, <2>1, <2>2, <3>1, <3>2 DEF Ended, Voiced, Spared, TypeOK
  <2>4. CASE ~(pc'[d] = "exitfault" /\ gate'[d] = h)
    <3>1. N(h, Busy)' = N(h, Busy) /\ N(h, {"exitfault"})' = N(h, {"exitfault"})
      BY <1>1, <2>0, <2>4, ArrivalFrame, AtMoves DEF Busy, Driving
    <3>2. /\ exits'[h] = exits[h] /\ raised'[h] = raised[h]
          /\ UNCHANGED <<cycles, closings, opens, closes, lost, faults, missed>>
      BY <1>1, <2>4 DEF Arrives, Request, ExitFails, Tick, Goto, history, tally, TypeOK
    <3> QED
      BY <1>0, <2>0, <2>1, <3>1, <3>2 DEF Ended, Voiced, Spared
  <2> QED
    BY <2>3, <2>4
<1>2. ASSUME NEW d \in Drivers, Proceed(d)
      PROVE  Ended(h)' /\ Voiced(h)' /\ Spared(h)'
  <2> gate[d] \in Gates /\ op[d] \in Ops
    BY DEF TypeOK
  <2>0. /\ gate' = gate /\ op' = op
        /\ \A e \in Drivers \ {d} : pc'[e] = pc[e] /\ gate'[e] = gate[e]
    BY <1>2, ProceedFrame
  <2>n. /\ N(h, Busy) \in Nat /\ N(h, {"exitfault"}) \in Nat
        /\ N(h, Driving) \in Nat /\ N(h, {"alarm"}) \in Nat
    BY <2>0, AtMoves
  <2> USE DEF Goto, history, tally
  <2>1. CASE gate[d] # h
    <3>1. /\ N(h, Busy)' = N(h, Busy) /\ N(h, {"exitfault"})' = N(h, {"exitfault"})
          /\ N(h, Driving)' = N(h, Driving) /\ N(h, {"alarm"})' = N(h, {"alarm"})
      BY <2>0, <2>1, AtMoves
    <3>2. /\ cycles'[h] = cycles[h] /\ closings'[h] = closings[h] /\ exits'[h] = exits[h]
          /\ opens'[h] = opens[h] /\ closes'[h] = closes[h] /\ lost'[h] = lost[h]
          /\ faults'[h] = faults[h] /\ raised'[h] = raised[h] /\ missed'[h] = missed[h]
      BY <1>2, <2>1 DEF Proceed, Begin, Actuate, ActuatorFails, Confirm, Timeout, Commit, Verify,
           Count, Undo, Fallback, Fault, RaiseCause, ExitFault, TypeOK
    <3>3. state'[h] = state[h]
      BY <1>2, <2>1, ProceedStates DEF TypeOK
    <3> QED
      BY <1>0, <3>1, <3>2, <3>3 DEF Ended, Voiced, Spared
  <2>2. CASE gate[d] = h
    <3>1. ASSUME NEW CONSTANT ls
          PROVE  /\ (pc[d] \in ls <=> pc'[d] \in ls) => N(h, ls)' = N(h, ls)
                 /\ pc[d] \notin ls /\ pc'[d] \in ls => N(h, ls)' = N(h, ls) + 1
                 /\ pc[d] \in ls /\ pc'[d] \notin ls => N(h, ls)' = N(h, ls) - 1
      BY <2>0, <2>2, AtMoves
    <3>2. ASSUME \/ pc[d] \notin Busy \union {"alarm"} /\ pc'[d] \notin Busy \union {"alarm"}
                 \/ pc[d] \in Driving /\ pc'[d] \in Driving
          PROVE  UNCHANGED <<N(h, Busy), N(h, Driving), N(h, {"alarm"}), N(h, {"exitfault"})>>
      BY <3>1, <3>2 DEF Busy, Driving
    <3>3. CASE Begin(d)
      <4>1. CASE ~MaySet(h, Moving(op[d]))
        BY <1>0, <2>2, <3>2, <3>3, <4>1
           DEF Begin, SetState, TypeOK, Ended, Voiced, Spared, Busy, Driving
      <4>2. CASE MaySet(h, Moving(op[d]))
        <5>1. pc[d] = "begin" /\ pc'[d] = "actuate"
          BY <2>2, <3>3, <4>2 DEF Begin, TypeOK
        <5>2. /\ N(h, Busy)' = N(h, Busy) + 1 /\ N(h, Driving)' = N(h, Driving) + 1
              /\ N(h, {"alarm"})' = N(h, {"alarm"}) /\ N(h, {"exitfault"})' = N(h, {"exitfault"})
          BY <3>1, <5>1 DEF Busy, Driving
        <5>3. state[h] \notin Transients /\ state'[h] \in Transients
          BY <2>2, <3>3, <4>2, TableFacts, OpFacts DEF Begin, SetState, TypeOK
        <5>4. /\ cycles'[h] + closings'[h] = cycles[h] + closings[h] + 1
              /\ UNCHANGED <<exits, opens, closes, lost, faults, raised, missed>>
          BY <2>2, <3>3, <4>2 DEF Begin, Moving, Ops, TypeOK
        <5>5. cycles'[h] \in Nat /\ closings'[h] \in Nat
          BY <3>3 DEF Begin, TypeOK
        <5> QED
          BY <1>0, <2>n, <5>2, <5>3, <5>4, <5>5 DEF Ended, Voiced, Spared, TypeOK
      <4> QED
        BY <4>1, <4>2
    <3>4. CASE \/ Actuate(d) \/ ActuatorFails(d) \/ Confirm(d) \/ Timeout(d) \/ Verify(d)
      <4>1. UNCHANGED <<N(h, Busy), N(h, Driving), N(h, {"alarm"}), N(h, {"exitfault"})>>
        BY <3>2, <3>4 DEF Actuate, ActuatorFails, Confirm, Timeout, Verify, Busy, Driving, TypeOK
      <4>2. UNCHANGED <<state, faults, history>>
        BY <3>4 DEF Actuate, ActuatorFails, Confirm, Timeout, Verify
      <4> QED
        BY <1>0, <4>1, <4>2 DEF Ended, Voiced, Spared
    <3>5. CASE Commit(d)
      <4>1. pc[d] = "commit" /\ pc'[d] \in {"idle", "verify"}
        BY <3>5 DEF Commit, TypeOK
      <4>2. /\ N(h, Busy)' = N(h, Busy) - 1 /\ N(h, Driving)' = N(h, Driving) - 1
            /\ N(h, {"alarm"})' = N(h, {"alarm"}) /\ N(h, {"exitfault"})' = N(h, {"exitfault"})
        BY <3>1, <4>1 DEF Busy, Driving
      <4>3. UNCHANGED <<cycles, closings, exits, faults, raised, missed>>
        BY <3>5 DEF Commit
      <4>4. /\ opens'[h] \in Nat /\ closes'[h] \in Nat /\ lost'[h] \in Nat
            /\ opens'[h] + closes'[h] + lost'[h] = opens[h] + closes[h] + lost[h] + 1
        <5> DEFINE fits == MaySet(h, Settled(op[d]))
        <5> HIDE DEF fits
        <5>1. /\ opens' = [opens EXCEPT ![h] = IF fits /\ op[d] = "open" THEN @ + 1 ELSE @]
              /\ closes' = [closes EXCEPT ![h] = IF fits /\ op[d] # "open" THEN @ + 1 ELSE @]
              /\ lost' = [lost EXCEPT ![h] = IF fits THEN @ ELSE @ + 1]
          BY <2>2, <3>5 DEF fits, Commit, Settled
        <5> QED
          BY <5>1 DEF TypeOK
      <4>5. \/ lost'[h] = lost[h] + 1 /\ state' = state
            \/ lost'[h] = lost[h] /\ state[h] \in Transients /\ state'[h] \notin Transients
        BY <2>2, <3>5, TableFacts, OpFacts DEF Commit, SetState, TypeOK
      <4> QED
        BY <1>0, <2>n, <4>2, <4>3, <4>4, <4>5 DEF Ended, Voiced, Spared, TypeOK
    <3>6. CASE Count(d) \/ Undo(d)
      <4>1. UNCHANGED <<N(h, Busy), N(h, Driving), N(h, {"alarm"}), N(h, {"exitfault"})>>
        BY <3>2, <3>6 DEF Count, Undo, Busy, Driving, TypeOK
      <4>2. UNCHANGED <<faults, cycles, opens, tally>>
        BY <3>6 DEF Count, Undo
      <4>3. \/ missed'[h] = missed[h] + 1
            \/ missed'[h] = missed[h] /\ state' = state
        BY <2>2, <3>6 DEF Count, Undo, TypeOK
      <4> QED
        BY <1>0, <2>n, <4>1, <4>2, <4>3 DEF Ended, Voiced, Spared, TypeOK
    <3>7. CASE Fallback(d)
      <4>1. pc[d] = "fallback" /\ pc'[d] = "fault"
        BY <3>7 DEF Fallback, TypeOK
      <4>2. /\ N(h, Busy)' = N(h, Busy) /\ N(h, Driving)' = N(h, Driving) - 1
            /\ N(h, {"alarm"})' = N(h, {"alarm"}) /\ N(h, {"exitfault"})' = N(h, {"exitfault"})
        BY <3>1, <4>1 DEF Busy, Driving
      <4>3. UNCHANGED <<faults, history>>
        BY <3>7 DEF Fallback
      <4> QED
        BY <1>0, <2>n, <4>2, <4>3 DEF Ended, Voiced, Spared, TypeOK
    <3>8. CASE Fault(d)
      <4>1. pc[d] = "fault" /\ pc'[d] = "alarm"
        BY <3>8 DEF Fault, TypeOK
      <4>2. /\ N(h, Busy)' = N(h, Busy) - 1 /\ N(h, Driving)' = N(h, Driving)
            /\ N(h, {"alarm"})' = N(h, {"alarm"}) + 1 /\ N(h, {"exitfault"})' = N(h, {"exitfault"})
        BY <3>1, <4>1 DEF Busy, Driving
      <4>3. faults'[h] = faults[h] + 1 /\ UNCHANGED <<state, history>>
        BY <2>2, <3>8 DEF Fault, TypeOK
      <4> QED
        BY <1>0, <2>n, <4>2, <4>3 DEF Ended, Voiced, Spared, TypeOK
    <3>9. CASE RaiseCause(d)
      <4>1. pc[d] = "alarm" /\ pc'[d] = "idle"
        BY <3>9 DEF RaiseCause, TypeOK
      <4>2. /\ N(h, Busy)' = N(h, Busy) /\ N(h, Driving)' = N(h, Driving)
            /\ N(h, {"alarm"})' = N(h, {"alarm"}) - 1 /\ N(h, {"exitfault"})' = N(h, {"exitfault"})
        BY <3>1, <4>1 DEF Busy, Driving
      <4>3. /\ raised'[h] = raised[h] + 1
            /\ UNCHANGED <<state, faults, cycles, opens, missed, closings, closes, lost, exits>>
        BY <2>2, <3>9 DEF RaiseCause, TypeOK
      <4> QED
        BY <1>0, <2>n, <4>2, <4>3 DEF Ended, Voiced, Spared, TypeOK
    <3>10. CASE ExitFault(d)
      <4>1. pc[d] = "exitfault" /\ pc'[d] = "idle"
        BY <3>10 DEF ExitFault, TypeOK
      <4>2. /\ N(h, Busy)' = N(h, Busy) - 1 /\ N(h, Driving)' = N(h, Driving)
            /\ N(h, {"alarm"})' = N(h, {"alarm"}) /\ N(h, {"exitfault"})' = N(h, {"exitfault"}) - 1
        BY <3>1, <4>1 DEF Busy, Driving
      <4>3. faults'[h] = faults[h] + 1 /\ UNCHANGED <<state, history>>
        BY <2>2, <3>10 DEF ExitFault, TypeOK
      <4> QED
        BY <1>0, <2>n, <4>2, <4>3 DEF Ended, Voiced, Spared, TypeOK
    <3> QED
      BY <1>2, <3>3, <3>4, <3>5, <3>6, <3>7, <3>8, <3>9, <3>10 DEF Proceed
  <2> QED
    BY <2>1, <2>2
<1>3. CASE UNCHANGED vars
  BY <1>0, <1>3 DEF vars, history, tally, Ended, Voiced, Spared, N, At
<1> QED
  BY <1>1, <1>2, <1>3, NextSplits

\* No movement and no fault is silent, for any number of gates and goroutines: each
\* movement and each failed exit leaves a commit, a fault or a refused commit, the
\* refused are no more than the openings given up, and each fault has its alarm.
THEOREM FaultsCounted == Spec => []FaultsAccounted
<1>1. Init => Accounts
  <2> SUFFICES ASSUME Init, NEW g \in Gates
               PROVE  Ended(g) /\ Voiced(g) /\ Spared(g)
    BY DEF Accounts
  <2>1. \A ls \in {Busy, Driving, {"alarm"}, {"exitfault"}} : At(g, ls) = {}
    BY DEF Init, At, Busy, Driving
  <2>2. /\ N(g, Busy) = 0 /\ N(g, Driving) = 0
        /\ N(g, {"alarm"}) = 0 /\ N(g, {"exitfault"}) = 0
    BY <2>1, FS_EmptySet DEF N
  <2> QED
    BY <2>2 DEF Init, Ended, Voiced, Spared
<1>2. TypeOK /\ NoOrphanTransient /\ Accounts => FaultsAccounted
  <2> SUFFICES ASSUME TypeOK, NoOrphanTransient, Accounts, NEW g \in Gates
               PROVE  Ended(g) /\ lost[g] <= missed[g] /\ Voiced(g)
    BY DEF FaultsAccounted, Ended, Voiced, N, Busy
  <2>1. Ended(g) /\ Voiced(g) /\ Spared(g)
    BY DEF Accounts
  <2>2. IsFiniteSet(At(g, Driving)) /\ N(g, Driving) \in Nat
    <3>1. IsFiniteSet(Drivers) /\ At(g, Driving) \subseteq Drivers
      BY SwipesAssumption, FS_AddElement DEF Drivers, At
    <3> QED
      BY <3>1, FS_Subset, FS_CardinalityType DEF N
  <2>3. state[g] \in Transients => N(g, Driving) > 0
    <3> SUFFICES ASSUME state[g] \in Transients
                 PROVE  N(g, Driving) # 0
      BY <2>2
    <3>1. PICK d \in Drivers : d \in At(g, Driving)
      BY DEF NoOrphanTransient, Drives, At, Transients, Moving, Ops
    <3> QED
      BY <2>2, <3>1, FS_EmptySet DEF N
  <2> QED
    BY <2>1, <2>2, <2>3 DEF Spared, TypeOK
<1> HIDE DEF Accounts
<1> QED
  BY <1>1, <1>2, AccountStep, TypeCorrect, NoOrphans, PTL DEF Spec

------------------------------------------------------------------------------
(* Movements end.  Weak fairness speaks of ENABLED, which these provers do  *)
(* not have.  Every disjunct of Proceed(d) is guarded by one value of pc[d] *)
(* (ActuatorFails by the constant too, beside Actuate), and every value but *)
(* "idle" has one: so Proceed(d) is possible exactly when d is in a call,   *)
(* and weak fairness of it is                                               *)

Progress(d) == []<>(pc[d] = "idle") \/ []<><<Proceed(d)>>_vars

InCall(d) == pc[d] # "idle"
NeverBlocked == \A d \in Drivers : InCall(d) => ENABLED <<Proceed(d)>>_vars

\* Which is what the fairness of the specification comes to.
LEMMA FairProgress ==
  ASSUME NEW d \in Drivers
  PROVE  FairSpec /\ []NeverBlocked => Spec /\ Progress(d)
<1>1. FairSpec => Spec /\ Fairness(d)
  BY DEF FairSpec
<1>2. NeverBlocked => (pc[d] = "idle" \/ ENABLED <<Proceed(d)>>_vars)
  BY DEF NeverBlocked, InCall
<1> QED
  BY <1>1, <1>2, PTL DEF Fairness, Progress

\* Goroutine d is at l of the movement gate g is in.
Makes(d, g, l) == gate[d] = g /\ pc[d] = l /\ state[g] = Moving(op[d])
AtRest(g) == state[g] \notin Transients

\* A movement goes on or ends: nobody turns it into another one.
LEMMA MovementStays ==
  ASSUME TypeOK, [Next]_vars, NEW g \in Gates, ~AtRest(g)
  PROVE  state'[g] = state[g] \/ AtRest(g)'
<1>1. ASSUME NEW d \in Drivers, NEW h \in Gates, Arrives(d, h)
      PROVE  state'[g] = state[g]
  BY <1>1, ArrivalFrame
<1>2. ASSUME NEW d \in Drivers, Proceed(d)
      PROVE  state'[g] = state[g] \/ AtRest(g)'
  <2>1. gate[d] \in Gates /\ op[d] \in Ops
    BY DEF TypeOK
  <2> QED
    BY <1>2, <2>1, ProceedStates, TableFacts, OpFacts DEF TypeOK, AtRest, Transients
<1> QED
  BY <1>1, <1>2, NextSplits DEF vars

\* A call that makes a movement makes it at the next place of the call too, unless
\* the movement has ended: its own last step ends it.
LEMMA MakesStep ==
  ASSUME TypeOK, NEW d \in Drivers, NEW g \in Gates, NEW l \in Driving,
         Makes(d, g, l), Proceed(d)
  PROVE  \/ AtRest(g)'
         \/ l = "actuate" /\ Makes(d, g, "confirm")'
         \/ l = "confirm" /\ Makes(d, g, "commit")'
         \/ l \in {"actuate", "confirm"} /\ Makes(d, g, "fallback")'
<1>1. gate[d] = g /\ op[d] \in Ops /\ gate' = gate /\ op' = op
  BY ProceedFrame DEF TypeOK, Makes
<1>2. CASE l = "actuate"
  <2>1. Actuate(d) \/ ActuatorFails(d)
    BY <1>2 DEF Makes, Proceed, Begin, Confirm, Timeout, Commit, Verify, Count, Undo,
         Fallback, Fault, RaiseCause, ExitFault
  <2> QED
    BY <1>1, <1>2, <2>1 DEF Makes, Actuate, ActuatorFails, Goto, TypeOK
<1>3. CASE l = "confirm"
  <2>1. Confirm(d) \/ Timeout(d)
    BY <1>3 DEF Makes, Proceed, Begin, Actuate, ActuatorFails, Commit, Verify, Count, Undo,
         Fallback, Fault, RaiseCause, ExitFault
  <2> QED
    BY <1>1, <1>3, <2>1 DEF Makes, Confirm, Timeout, Goto, TypeOK
<1>4. CASE l = "commit"
  <2>1. Commit(d)
    BY <1>4 DEF Makes, Proceed, Begin, Actuate, ActuatorFails, Confirm, Timeout, Verify, Count,
         Undo, Fallback, Fault, RaiseCause, ExitFault
  <2> QED
    BY <1>1, <1>4, <2>1, TableFacts, OpFacts DEF Makes, Commit, SetState, AtRest, TypeOK
<1>5. CASE l = "fallback"
  <2>1. Fallback(d)
    BY <1>5 DEF Makes, Proceed, Begin, Actuate, ActuatorFails, Confirm, Timeout, Commit, Verify,
         Count, Undo, Fault, RaiseCause, ExitFault
  <2> QED
    BY <1>1, <1>5, <2>1, OpFacts DEF Makes, Fallback, RecoverToClosed, AtRest, TypeOK, Transients
<1> QED
  BY <1>2, <1>3, <1>4, <1>5 DEF Driving

\* The others leave the call where it is, and the movement with it, or end it.
LEMMA MakesKept ==
  ASSUME TypeOK, NEW d \in Drivers, NEW g \in Gates, NEW l \in Driving,
         Makes(d, g, l), [Next]_vars, ~Proceed(d)
  PROVE  AtRest(g)' \/ Makes(d, g, l)'
<1>1. pc'[d] = pc[d] /\ gate'[d] = gate[d] /\ op'[d] = op[d]
  <2>1. ASSUME NEW e \in Drivers, NEW h \in Gates, Arrives(e, h)
        PROVE  pc'[d] = pc[d] /\ gate'[d] = gate[d] /\ op'[d] = op[d]
    BY <2>1, ArrivalFrame DEF Makes, Driving
  <2>2. ASSUME NEW e \in Drivers, Proceed(e)
        PROVE  pc'[d] = pc[d] /\ gate'[d] = gate[d] /\ op'[d] = op[d]
    BY <2>2, ProceedFrame
  <2> QED
    BY <2>1, <2>2, NextSplits DEF vars
<1>2. ~AtRest(g)
  BY OpFacts DEF Makes, AtRest, TypeOK
<1> QED
  BY <1>1, <1>2, MovementStays DEF Makes

\* So whoever makes a movement, the gate comes to rest.
LEMMA MakerRests ==
  ASSUME NEW d \in Drivers, NEW g \in Gates
  PROVE  Spec /\ Progress(d) =>
           []((\E l \in Driving : Makes(d, g, l)) => <>AtRest(g))
<1> DEFINE A == Makes(d, g, "actuate")
           C == Makes(d, g, "confirm")
           M == Makes(d, g, "commit")
           F == Makes(d, g, "fallback")
           R == AtRest(g)
<1>1. TypeOK /\ [Next]_vars =>
        /\ A => R' \/ A' \/ C' \/ F'
        /\ C => R' \/ C' \/ M' \/ F'
        /\ M => R' \/ M'
        /\ F => R' \/ F'
  BY MakesStep, MakesKept DEF Driving
<1>2. TypeOK /\ <<Proceed(d)>>_vars =>
        /\ A => R' \/ C' \/ F'
        /\ C => R' \/ M' \/ F'
        /\ M => R'
        /\ F => R'
  BY MakesStep DEF Driving
<1>3. A \/ C \/ M \/ F => ~(pc[d] = "idle")
  BY DEF Makes
<1>4. (\E l \in Driving : Makes(d, g, l)) => A \/ C \/ M \/ F
  BY DEF Driving
<1> QED
  BY <1>1, <1>2, <1>3, <1>4, TypeCorrect, PTL DEF Spec, Progress

\* No gate stays in a movement for ever: somebody makes it (NoOrphans), and he ends
\* it whatever the others do.  With the refinement, the gate machine with its
\* liveness.
THEOREM MovementsEnd ==
  Spec /\ (\A d \in Drivers : Progress(d)) => ImplementsLiveMachine
<1>1. ASSUME NEW g \in Gates
      PROVE  Spec /\ (\A d \in Drivers : Progress(d)) => []<>AtRest(g)
  <2> DEFINE Rests(d) == (\E l \in Driving : Makes(d, g, l)) => <>AtRest(g)
  <2>1. ASSUME NEW d \in Drivers
        PROVE  Spec /\ (\A e \in Drivers : Progress(e)) => []Rests(d)
    <3>1. (\A e \in Drivers : Progress(e)) => Progress(d)
      OBVIOUS
    <3> QED
      BY <3>1, MakerRests, PTL
  <2>2. Spec /\ (\A d \in Drivers : Progress(d)) => \A d \in Drivers : []Rests(d)
    BY <2>1
  <2>3. (\A d \in Drivers : []Rests(d)) => [](\A d \in Drivers : Rests(d))
    OBVIOUS
  <2>4. TypeOK /\ NoOrphanTransient =>
          AtRest(g) \/ \E d \in Drivers : \E l \in Driving : Makes(d, g, l)
    BY DEF TypeOK, NoOrphanTransient, AtRest, Drives, Makes, Moving, Ops, Transients
  <2>5. /\ AtRest(g) \/ \E d \in Drivers : \E l \in Driving : Makes(d, g, l)
        /\ \A d \in Drivers : Rests(d)
        => AtRest(g) \/ <>AtRest(g)
    OBVIOUS
  <2> QED
    BY <2>2, <2>3, <2>4, <2>5, TypeCorrect, NoOrphans, PTL
<1>2. (\A g \in Gates : []<>AtRest(g)) => \A g \in Gates : []<>(state[g] \notin {"opening", "closing"})
  BY DEF AtRest, Transients
<1> QED
  BY <1>1, <1>2, FollowsMachine DEF ImplementsLiveMachine, Machine!LiveSpec

==============================================================================
