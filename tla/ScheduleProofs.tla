---------------------------- MODULE ScheduleProofs ----------------------------
(* Theorems about Schedule, for any gates and any bounds. *)
EXTENDS Schedule, TLAPS

\* Every variable keeps to its type.
THEOREM TypeCorrect == Spec => []TypeOK
<1> USE MaxTimeAssumption, MaxAddsAssumption DEF Times, Entry, NoEntry
<1>1. Init => TypeOK
  BY DEF Init, TypeOK
<1>2. TypeOK /\ [Next]_vars => TypeOK'
  <2> SUFFICES ASSUME TypeOK, [Next]_vars
               PROVE  TypeOK'
    OBVIOUS
  <2> USE DEF TypeOK, run
  <2>1. CASE Pass
    BY <2>1 DEF Pass
  <2>2. ASSUME NEW g \in Gates, NEW e \in Entry, Add(g, e)
        PROVE  TypeOK'
    BY <2>2 DEF Add
  <2>3. ASSUME NEW g \in Gates, SwipeOpens(g)
        PROVE  TypeOK'
    BY <2>3 DEF SwipeOpens
  <2>4. ASSUME NEW g \in Gates, Look(g)
        PROVE  TypeOK'
    BY <2>4 DEF Look, Decision
  <2>5. CASE StartRun \/ EndRun
    BY <2>5 DEF StartRun, EndRun
  <2>6. CASE Open \/ OpenFails \/ Close
    BY <2>6 DEF Open, OpenFails, Close
  <2>7. CASE UNCHANGED vars
    BY <2>7 DEF vars
  <2> QED
    BY <2>1, <2>2, <2>3, <2>4, <2>5, <2>6, <2>7 DEF Next, RunOnce
<1> QED
  BY <1>1, <1>2, PTL DEF Spec

------------------------------------------------------------------------------
(* The inductive invariant: the tick's time has passed, the copy is still   *)
(* the table but for replaced entries, and what was decided is due.         *)

CopyCurrent == pc # "idle" => \A g \in Gates \ replaced : copy[g] = entries[g]
DecidedDue ==
  /\ pc = "open" => Due(copy[current].openAt)
  /\ pc = "close" => Due(copy[current].closeAt)

IInv == stamp <= now /\ CopyCurrent /\ DecidedDue

LEMMA IInvStep == TypeOK /\ IInv /\ [Next]_vars => IInv'
<1> SUFFICES ASSUME TypeOK, IInv, [Next]_vars
             PROVE  IInv'
  OBVIOUS
<1> USE MaxTimeAssumption DEF TypeOK, IInv, CopyCurrent, DecidedDue, Due, Times, run
<1>1. CASE Pass
  BY <1>1 DEF Pass
<1>2. ASSUME NEW g \in Gates, NEW e \in Entry, Add(g, e)
      PROVE  IInv'
  BY <1>2 DEF Add
<1>3. ASSUME NEW g \in Gates, SwipeOpens(g)
      PROVE  IInv'
  BY <1>3 DEF SwipeOpens
<1>4. CASE StartRun
  BY <1>4 DEF StartRun
<1>5. ASSUME NEW g \in Gates, Look(g)
      PROVE  IInv'
  BY <1>5 DEF Look, Decision
<1>6. CASE Open \/ OpenFails \/ Close \/ EndRun
  BY <1>6 DEF Open, OpenFails, Close, EndRun
<1>7. CASE UNCHANGED vars
  BY <1>7 DEF vars
<1> QED
  BY <1>1, <1>2, <1>3, <1>4, <1>5, <1>6, <1>7 DEF Next, RunOnce

LEMMA Inductive == Spec => [](TypeOK /\ IInv)
<1>1. Init => IInv
  BY MaxTimeAssumption DEF Init, IInv, CopyCurrent, DecidedDue, Times
<1>2. TypeOK /\ TypeOK' /\ IInv /\ [Next]_vars => IInv'
  BY IInvStep
<1> QED
  BY <1>1, <1>2, TypeCorrect, PTL DEF Spec

\* RunOnce, for all the replaced entries and opened gates between its copy, its
\* read of a state and its call, moves a gate only when it is due.
THEOREM MovesDue == Spec => MovesWhenDue
<1> DEFINE Timely(g) ==
      pc \in {"open", "close"} /\ state'[g] # state[g] /\ pc' # pc =>
        /\ g = current
        /\ g \in replaced \/ LET due == IF state'[g] = "open" THEN entries[g].openAt
                                                           ELSE entries[g].closeAt
                             IN  0 < due /\ due <= now
<1>1. ASSUME TypeOK, IInv, [Next]_vars, NEW g \in Gates, pc \in {"open", "close"},
             state'[g] # state[g], pc' # pc
      PROVE  /\ g = current
             /\ g \in replaced \/ LET due == IF state'[g] = "open" THEN entries[g].openAt
                                                                ELSE entries[g].closeAt
                                  IN  0 < due /\ due <= now
  <2>1. Open \/ Close
    BY <1>1 DEF Next, RunOnce, Pass, Add, SwipeOpens, StartRun, Look, OpenFails, EndRun, vars, run
  <2>2. g = current
    BY <1>1, <2>1 DEF Open, Close, TypeOK
  <2>3. CASE g \in replaced
    BY <2>2, <2>3
  <2>4. CASE g \notin replaced
    <3>1. copy[g] = entries[g] /\ entries[g].openAt \in Nat /\ entries[g].closeAt \in Nat
      BY <1>1, <2>4 DEF IInv, CopyCurrent, TypeOK, Entry, Times
    <3>2. stamp \in Nat /\ now \in Nat /\ stamp <= now
      BY <1>1, MaxTimeAssumption DEF IInv, TypeOK, Times
    <3>3. CASE Open
      BY <1>1, <2>2, <3>1, <3>2, <3>3 DEF Open, IInv, DecidedDue, Due, TypeOK
    <3>4. CASE Close
      BY <1>1, <2>2, <3>1, <3>2, <3>4 DEF Close, IInv, DecidedDue, Due, TypeOK
    <3> QED
      BY <2>1, <3>3, <3>4
  <2> QED
    BY <2>3, <2>4
<1>2. TypeOK /\ IInv /\ [Next]_vars => [\A g \in Gates : Timely(g)]_vars
  BY <1>1
<1> HIDE DEF Timely
<1>3. Spec => [][\A g \in Gates : Timely(g)]_vars
  BY <1>2, Inductive, PTL DEF Spec
<1> QED
  BY <1>3 DEF Timely, MovesWhenDue

------------------------------------------------------------------------------
(* Liveness.  Run calls RunOnce at every tick, and RunOnce looks at every   *)
(* gate: that much is assumed here of the loops, whose variant, the number  *)
(* of gates left, calls for an induction.  An opening tried again and again *)
(* succeeds at some time; this is the specification's strong fairness, with *)
(* the guard of Open for its ENABLED.                                       *)

LooksAt(g) == []<><<Look(g)>>_vars
OpensAtLast(g) == <>[]~(pc = "open" /\ current = g) \/ []<><<current = g /\ Open>>_vars

Left(g) == g \in todo
Closing(g) == pc = "close" /\ current = g
Opening(g) == pc = "open" /\ current = g
IsOpen(g) == state[g] = "open"
IsClosed(g) == state[g] = "closed"
CloseDueByCopy(g) == Due(copy[g].closeAt)
OpenDueByCopy(g) == Due(copy[g].openAt)
NeverCloses(g) == entries[g].closeAt = 0
NeverClosesByCopy(g) == copy[g].closeAt = 0

\* A gate looked at is looked at again only by another copy, and what holds of the
\* table from some time on holds of such a copy.
LEMMA CopyRenewed ==
  ASSUME TypeOK, [Next]_vars, NEW g \in Gates
  PROVE  /\ CloseDue(g) => \/ CloseDueByCopy(g)'
                           \/ ~CloseDueByCopy(g) /\ (Left(g)' => Left(g))
         /\ OpenDue(g) => \/ OpenDueByCopy(g)'
                          \/ ~OpenDueByCopy(g) /\ (Left(g)' => Left(g))
         /\ NeverCloses(g) => \/ NeverClosesByCopy(g)'
                              \/ ~NeverClosesByCopy(g) /\ (Left(g)' => Left(g))
<1> USE DEF CloseDue, OpenDue, CloseDueByCopy, OpenDueByCopy, NeverCloses, NeverClosesByCopy,
            Left, Due
<1>1. CASE StartRun
  BY <1>1 DEF StartRun
<1>2. CASE UNCHANGED <<copy, stamp>> /\ todo' \subseteq todo
  BY <1>2
<1>3. ~StartRun => UNCHANGED <<copy, stamp>> /\ todo' \subseteq todo
  BY DEF Next, RunOnce, Pass, Add, SwipeOpens, Look, Open, OpenFails, Close, EndRun, vars, run
<1> QED
  BY <1>1, <1>2, <1>3

\* Looking at a gate strikes it off, and decides by the copy.
LEMMA LookDecides ==
  ASSUME TypeOK, NEW g \in Gates, Look(g)
  PROVE  /\ Left(g) /\ ~Left(g)' /\ ~Closing(g)
         /\ CloseDueByCopy(g) /\ ~IsClosed(g) => Closing(g)'
         /\ OpenDueByCopy(g) /\ ~IsOpen(g) => Opening(g)'
BY DEF Look, Decision, Left, Closing, Opening, IsClosed, IsOpen, CloseDueByCopy, OpenDueByCopy,
       Due, TypeOK

\* What has been decided is done before anything else is looked at; nothing but the
\* scheduler closes a gate, and it does so only if the copy says when.
LEMMA DecidedDone ==
  ASSUME TypeOK, [Next]_vars, NEW g \in Gates
  PROVE  /\ Closing(g) => Closing(g)' \/ IsClosed(g)'
         /\ IsOpen(g) /\ ~Closing(g) => IsOpen(g)'
         /\ NeverClosesByCopy(g) /\ ~Closing(g) => ~Closing(g)'
<1> USE DEF TypeOK, Closing, IsClosed, IsOpen, NeverClosesByCopy, run
<1>1. CASE Pass \/ StartRun \/ EndRun \/ UNCHANGED vars
  BY <1>1 DEF Pass, StartRun, EndRun, vars
<1>2. ASSUME NEW h \in Gates, NEW e \in Entry, Add(h, e)
      PROVE  UNCHANGED <<pc, current, state>>
  BY <1>2 DEF Add
<1>3. ASSUME NEW h \in Gates, SwipeOpens(h)
      PROVE  UNCHANGED <<pc, current>> /\ (state[g] = "open" => state'[g] = "open")
  BY <1>3 DEF SwipeOpens
<1>4. ASSUME NEW h \in Gates, Look(h)
      PROVE  /\ pc = "look" /\ state' = state
             /\ copy[g].closeAt = 0 => ~(pc' = "close" /\ current' = g)
  BY <1>4 DEF Look, Decision, Due
<1>5. CASE Open \/ OpenFails \/ Close
  BY <1>5 DEF Open, OpenFails, Close
<1> QED
  BY <1>1, <1>2, <1>3, <1>4, <1>5 DEF Next, RunOnce

\* A gate due to be closed is closed again and again, however many entries are
\* added and swipes open it between the scheduler's looks.
THEOREM DueCloses == Spec /\ (\A g \in Gates : LooksAt(g)) => DueGateCloses
<1> SUFFICES ASSUME NEW g \in Gates
             PROVE  Spec /\ (\A h \in Gates : LooksAt(h)) =>
                      (<>[]CloseDue(g) => []<>IsClosed(g))
  BY DEF DueGateCloses, IsClosed
<1>1. (\A h \in Gates : LooksAt(h)) => LooksAt(g)
  OBVIOUS
<1>2. TypeOK /\ [Next]_vars /\ CloseDue(g) =>
        \/ CloseDueByCopy(g)'
        \/ ~CloseDueByCopy(g) /\ (Left(g)' => Left(g))
  BY CopyRenewed
<1>3. TypeOK /\ <<Look(g)>>_vars =>
        /\ Left(g) /\ ~Left(g)' /\ ~Closing(g)
        /\ CloseDueByCopy(g) /\ ~IsClosed(g) => Closing(g)'
  BY LookDecides
<1>4. TypeOK /\ [Next]_vars => (Closing(g) => Closing(g)' \/ IsClosed(g)')
  BY DecidedDone
<1> QED
  BY <1>1, <1>2, <1>3, <1>4, TypeCorrect, PTL DEF Spec, LooksAt

\* A gate due to be opened is opened again and again, and stays open if it is never
\* to be closed, provided an opening tried again and again succeeds at some time.
THEOREM DueOpens ==
  Spec /\ (\A g \in Gates : LooksAt(g) /\ OpensAtLast(g)) => DueGateOpens
<1> SUFFICES ASSUME NEW g \in Gates
             PROVE  Spec /\ (\A h \in Gates : LooksAt(h) /\ OpensAtLast(h)) =>
                      (<>[]OpenDue(g) => /\ []<>IsOpen(g)
                                         /\ <>[]NeverCloses(g) => <>[]IsOpen(g))
  BY DEF DueGateOpens, IsOpen, NeverCloses
<1>1. (\A h \in Gates : LooksAt(h) /\ OpensAtLast(h)) => LooksAt(g) /\ OpensAtLast(g)
  OBVIOUS
<1>2. TypeOK /\ [Next]_vars =>
        /\ OpenDue(g) => \/ OpenDueByCopy(g)'
                         \/ ~OpenDueByCopy(g) /\ (Left(g)' => Left(g))
        /\ NeverCloses(g) => \/ NeverClosesByCopy(g)'
                             \/ ~NeverClosesByCopy(g) /\ (Left(g)' => Left(g))
  BY CopyRenewed
<1>3. TypeOK /\ <<Look(g)>>_vars =>
        /\ Left(g) /\ ~Left(g)' /\ ~Closing(g)
        /\ OpenDueByCopy(g) /\ ~IsOpen(g) => Opening(g)'
  BY LookDecides
<1>4. TypeOK /\ <<current = g /\ Open>>_vars => IsOpen(g)'
  BY DEF Open, IsOpen, TypeOK
<1>5. Opening(g) => pc = "open" /\ current = g
  BY DEF Opening
<1>6. TypeOK /\ [Next]_vars =>
        /\ IsOpen(g) /\ ~Closing(g) => IsOpen(g)'
        /\ NeverClosesByCopy(g) /\ ~Closing(g) => ~Closing(g)'
  BY DecidedDone
<1>7. Spec /\ LooksAt(g) /\ OpensAtLast(g) => (<>[]OpenDue(g) => []<>IsOpen(g))
  BY <1>2, <1>3, <1>4, <1>5, TypeCorrect, PTL DEF Spec, LooksAt, OpensAtLast
<1>8. Spec /\ LooksAt(g) => (<>[]NeverCloses(g) => <>[](NeverClosesByCopy(g) /\ ~Closing(g)))
  BY <1>2, <1>3, <1>6, TypeCorrect, PTL DEF Spec, LooksAt
<1>9. Spec => ([]<>IsOpen(g) /\ <>[](NeverClosesByCopy(g) /\ ~Closing(g)) => <>[]IsOpen(g))
  BY <1>6, TypeCorrect, PTL DEF Spec
<1> QED
  BY <1>1, <1>7, <1>8, <1>9, PTL
==============================================================================
