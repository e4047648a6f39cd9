--------------------------- MODULE TicketingProofs ---------------------------
(***************************************************************************)
(* Theorems about Ticketing, for any tickets, any seeded ones among them   *)
(* and any number of concurrent swipes.                                    *)
(***************************************************************************)
EXTENDS Ticketing, TLAPS

LEMMA WriteFacts ==
  ASSUME TypeOK, NEW t \in Tickets, NEW s \in Statuses, NEW ok \in BOOLEAN, WriteRecord(t, s, ok)
  PROVE  /\ records' \in [Tickets -> Stored] /\ disk' \in [Tickets -> Stored]
         /\ spoiled' \in SUBSET Tickets /\ spoiled \subseteq spoiled'
         /\ records'[t] = s /\ (t \notin spoiled' => disk'[t] = s)
         /\ ~ok => t \in spoiled'
         /\ \A u \in Tickets \ {t} : /\ records'[u] = records[u] /\ disk'[u] = disk[u]
                                     /\ u \in spoiled' <=> u \in spoiled
BY DEF WriteRecord, TypeOK, Stored

\* Every variable keeps to its type; above all no handler works on the copy of a
\* ticket that does not exist.
THEOREM TypeCorrect == Spec => []TypeOK
<1>1. Init => TypeOK
  <2>1. Init => up \in BOOLEAN
    BY Zenon DEF Init
  <2> QED
    BY <2>1 DEF Init, TypeOK, Stored, Statuses, Locations, Holders
<1>2. TypeOK /\ [Next]_vars => TypeOK'
  <2> SUFFICES ASSUME TypeOK, [Next]_vars
               PROVE  TypeOK'
    OBVIOUS
  <2> USE DEF Goto, histories
  <2>1. ASSUME NEW d \in Swipers, NEW t \in Tickets, NEW next \in {"check", "leave"},
               Lookup(d, t, next)
        PROVE  TypeOK'
    BY <2>1 DEF Lookup, InStore, TypeOK, Stored, Locations
  <2>2. ASSUME NEW d \in Swipers, Swipe(d)
        PROVE  TypeOK'
    <3> card[d] \in Tickets
      BY DEF TypeOK
    <3>1. CASE Check(d)
      BY <3>1 DEF Check, TypeOK, Locations
    <3>2. CASE Mark(d)
      <4>1. PICK ok \in BOOLEAN : /\ WriteRecord(card[d], "entered", ok)
                                  /\ pc' = [pc EXCEPT ![d] = IF ok THEN "remember" ELSE "idle"]
        BY <3>2 DEF Mark
      <4>2. /\ records' \in [Tickets -> Stored] /\ disk' \in [Tickets -> Stored]
            /\ spoiled' \in SUBSET Tickets
        BY <4>1, WriteFacts DEF Statuses
      <4> QED
        BY <3>2, <4>1, <4>2 DEF Mark, TypeOK, Locations
    <3>3. CASE Remember(d)
      BY <3>3 DEF Remember, TypeOK, Locations
    <3>o. CASE Open(d)
      BY <3>o DEF Open, TypeOK, Locations, Holders
    <3>4. CASE Leave(d) /\ copy[d] # "entered"
      BY <3>4 DEF Leave, TypeOK, Locations
    <3>5. CASE Leave(d) /\ copy[d] = "entered"
      <4>1. PICK ok \in BOOLEAN : /\ WriteRecord(card[d], "exited", ok)
                                  /\ pc' = [pc EXCEPT ![d] = IF ok THEN "confirm" ELSE "forget"]
        BY <3>5 DEF Leave
      <4>2. /\ records' \in [Tickets -> Stored] /\ disk' \in [Tickets -> Stored]
            /\ spoiled' \in SUBSET Tickets
        BY <4>1, WriteFacts DEF Statuses
      <4> QED
        BY <3>5, <4>1, <4>2 DEF Leave, TypeOK, Locations
    <3>6. CASE Confirm(d)
      BY <3>6 DEF Confirm, TypeOK, Locations, Holders
    <3>7. CASE Clear(d)
      BY <3>7 DEF Clear, TypeOK, Locations
    <3>8. CASE Reset(d)
      <4>1. PICK ok \in BOOLEAN : WriteRecord(card[d], "unused", ok)
        BY <3>8 DEF Reset
      <4>2. /\ records' \in [Tickets -> Stored] /\ disk' \in [Tickets -> Stored]
            /\ spoiled' \in SUBSET Tickets
        BY <4>1, WriteFacts DEF Statuses
      <4> QED
        BY <3>8, <4>2 DEF Reset, TypeOK, Locations
    <3> QED
      BY <2>2, <3>1, <3>2, <3>3, <3>o, <3>4, <3>5, <3>6, <3>7, <3>8 DEF Swipe, HandleEntry, HandleExit
  <2>3. ASSUME NEW t \in Tickets, Expire(t)
        PROVE  TypeOK'
    BY <2>3 DEF Expire, TypeOK
  <2>4. CASE Sweep
    BY <2>4 DEF Sweep, TypeOK
  <2>5. CASE Stop
    BY <2>5 DEF Stop, TypeOK, Stored, Locations
  <2>6. CASE Start
    BY <2>6, SeedsAssumption DEF Start, TypeOK, Stored, Statuses
  <2>7. CASE UNCHANGED vars
    BY <2>7 DEF vars, TypeOK
  <2> QED
    BY <2>1, <2>2, <2>3, <2>4, <2>5, <2>6, <2>7 DEF Next
<1> QED
  BY <1>1, <1>2, PTL DEF Spec

------------------------------------------------------------------------------
(* The inductive invariant. *)

\* Swipes that do not overlap are alone on their ticket.
Alone ==
  \A d, e \in Swipers :
    pc[d] # "idle" /\ pc[e] # "idle" /\ card[d] = card[e] /\ card[d] \notin overlapped => d = e

\* A process that does not run has no memory.
Down ==
  ~up => /\ \A d \in Swipers : pc[d] = "idle"
         /\ \A t \in Tickets : records[t] = "absent" /\ dedup[t] = "none"

\* What a handler alone on its ticket knows at each of its places: its copy is
\* still the record, and an unused ticket is not blocked.
Phase(d) ==
  LET t == card[d]
      unblocked == records[t] = "unused" => dedup[t] # "live"
  IN
  /\ pc[d] \in {"check", "leave"} => copy[d] = records[t] /\ unblocked
  /\ pc[d] = "mark" => records[t] = "unused" /\ unblocked
  /\ pc[d] \in {"remember", "open"} => records[t] = "entered"
  /\ pc[d] = "confirm" => records[t] = "exited"
  /\ pc[d] = "reset" => dedup[t] = "none"

Phases == \A d \in Swipers : card[d] \notin overlapped => Phase(d)

\* Where the holder of an undisturbed ticket is at each of them.
Book(d) ==
  LET t == card[d] IN
  /\ pc[d] \in {"check", "mark", "leave"} => (holder[t] # "outside" <=> records[t] = "entered")
  /\ pc[d] \in {"remember", "open", "clear", "reset"} => holder[t] = "outside"
  /\ pc[d] = "confirm" => holder[t] # "outside"
  /\ pc[d] \in {"clear", "reset"} => records[t] \in {"unused", "exited"}
  /\ pc[d] # "forget"

Books == \A d \in Swipers : card[d] \in Undisturbed => Book(d)

IInv == /\ Alone /\ Down /\ Phases /\ Books
        /\ Durable /\ NoLockout /\ LedgerMatchesHolders /\ OneHolder

LEMMA IInvInit == Init => IInv
<1> SUFFICES ASSUME Init
             PROVE  IInv
  OBVIOUS
<1>1. ~up
  BY Zenon DEF Init
<1>2. Alone /\ Down /\ Durable /\ NoLockout /\ OneHolder
  BY <1>1 DEF Init, Alone, Down, Durable, NoLockout, OneHolder
<1>3. Phases /\ Books
  BY DEF Init, Phases, Phase, Books, Book
<1>4. LedgerMatchesHolders
  <2>1. \A t \in Tickets : Known(t) = disk[t]
    BY Zenon, <1>1 DEF Known
  <2> QED
    BY <2>1 DEF Init, LedgerMatchesHolders, Undisturbed
<1> QED
  BY <1>2, <1>3, <1>4 DEF IInv

\* A step of handler d touches its own ticket only.
Frame(d) ==
  LET t == card[d] IN
  /\ pc[d] # "idle" /\ up' = up /\ card' = card /\ copy' = copy /\ overlapped' = overlapped
  /\ \A e \in Swipers \ {d} : pc'[e] = pc[e]
  /\ spoiled \subseteq spoiled'
  /\ \A u \in Tickets \ {t} :
       /\ records'[u] = records[u] /\ disk'[u] = disk[u] /\ dedup'[u] = dedup[u]
       /\ holder'[u] = holder[u]
       /\ u \in doubled' <=> u \in doubled
       /\ u \in spoiled' <=> u \in spoiled

\* ... so that what it has to keep is about that ticket.
LEMMA Local ==
  ASSUME TypeOK, TypeOK', IInv, NEW d \in Swipers, Frame(d),
         card[d] \notin spoiled' => disk'[card[d]] = records'[card[d]],
         card[d] \notin overlapped => Phase(d)',
         card[d] \notin overlapped \union spoiled' => Book(d)',
         pc'[d] = "idle" /\ card[d] \notin overlapped /\ records'[card[d]] = "unused"
           => dedup'[card[d]] # "live",
         pc'[d] = "idle" /\ card[d] \notin overlapped \union spoiled'
           => (holder'[card[d]] # "outside" <=> records'[card[d]] = "entered"),
         card[d] \in doubled' => card[d] \in overlapped \union spoiled'
  PROVE  IInv'
<1> DEFINE t == card[d]
<1> USE DEF IInv
<1>1. t \in Tickets /\ up
  BY DEF TypeOK, Down, Frame
<1>2. up'
  BY <1>1 DEF Frame
<1>3. Alone'
  BY DEF Alone, Frame
<1>4. Down'
  BY <1>2 DEF Down
<1>5. Durable'
  <2> SUFFICES ASSUME NEW u \in Tickets, u \notin spoiled'
               PROVE  disk'[u] = records'[u]
    BY DEF Durable
  <2> QED
    BY <1>1 DEF Durable, Frame
<1>6. Phases'
  <2> SUFFICES ASSUME NEW e \in Swipers, card[e] \notin overlapped
               PROVE  Phase(e)'
    BY DEF Phases, Frame
  <2>1. CASE pc[e] = "idle" /\ e # d
    BY <2>1 DEF Phase, Frame
  <2>2. CASE pc[e] # "idle" /\ e # d
    <3>1. card[e] # t /\ card[e] \in Tickets
      BY <2>2 DEF Alone, Frame, TypeOK
    <3> QED
      BY <2>2, <3>1 DEF Phases, Phase, Frame
  <2> QED
    BY <2>1, <2>2
<1>7. Books'
  <2> SUFFICES ASSUME NEW e \in Swipers, card[e] \notin overlapped \union spoiled'
               PROVE  Book(e)'
    BY DEF Books, Frame, Undisturbed
  <2>1. CASE pc[e] = "idle" /\ e # d
    BY <2>1 DEF Book, Frame
  <2>2. CASE pc[e] # "idle" /\ e # d
    <3>1. card[e] # t /\ card[e] \in Undisturbed
      BY <2>2 DEF Alone, Frame, TypeOK, Undisturbed
    <3> QED
      BY <2>2, <3>1 DEF Books, Book, Frame, Undisturbed
  <2> QED
    BY <2>1, <2>2
<1>8. \A u \in Tickets : Quiet(u)' /\ u # t => Quiet(u)
  BY DEF Quiet, InFlight, Frame
<1>9. \A u \in Tickets : Quiet(u)' /\ u = t => pc'[d] = "idle"
  BY <1>1 DEF Quiet, InFlight, Frame
<1>10. NoLockout'
  BY <1>8, <1>9 DEF NoLockout, Frame
<1>11. LedgerMatchesHolders'
  <2>0. \A u \in Tickets : Known(u) = records[u] /\ Known(u)' = records'[u]
    BY Zenon, <1>1, <1>2 DEF Known
  <2> SUFFICES ASSUME NEW u \in Tickets, u \notin overlapped \union spoiled', Quiet(u)'
               PROVE  holder'[u] # "outside" <=> records'[u] = "entered"
    BY <2>0 DEF LedgerMatchesHolders, Undisturbed, Frame
  <2>1. CASE u = t
    BY <1>9, <2>1
  <2>2. CASE u # t
    BY <1>8, <2>0, <2>2 DEF LedgerMatchesHolders, Undisturbed, Frame
  <2> QED
    BY <2>1, <2>2
<1>12. OneHolder'
  BY DEF OneHolder, Frame, TypeOK
<1> QED
  BY <1>3, <1>4, <1>5, <1>6, <1>7, <1>10, <1>11, <1>12

\* The steps of a swipe, one by one.
LEMMA SwipeStep ==
  ASSUME TypeOK, TypeOK', IInv, NEW d \in Swipers, Swipe(d)
  PROVE  IInv'
<1> DEFINE t == card[d]
<1>1. /\ t \in Tickets /\ up' = up /\ card' = card /\ copy' = copy /\ overlapped' = overlapped
      /\ pc[d] # "idle" /\ \A e \in Swipers \ {d} : pc'[e] = pc[e]
  BY DEF Swipe, HandleEntry, HandleExit, Check, Mark, Remember, Open, Leave, Confirm, Clear, Reset, Goto,
         histories, TypeOK
<1>2. up
  BY <1>1 DEF IInv, Down
<1>3. \A u \in Tickets \ spoiled : disk[u] = records[u]
  BY <1>2 DEF IInv, Durable
<1>4. /\ t \notin overlapped => Phase(d)
      /\ t \notin overlapped \union spoiled => Book(d)
      /\ doubled \subseteq overlapped \union spoiled
  BY <1>1 DEF IInv, Phases, Books, OneHolder, Undisturbed
<1> USE DEF Goto, histories
<1>5. CASE Check(d)
  <2>1. Frame(d)
    BY <1>1, <1>5 DEF Check, Frame, TypeOK
  <2>2. t \notin overlapped => Phase(d)'
    BY <1>1, <1>4, <1>5 DEF Check, Phase, TypeOK
  <2>3. t \notin overlapped \union spoiled' => Book(d)'
    BY <1>1, <1>4, <1>5 DEF Check, Book, TypeOK
  <2>4. t \notin overlapped /\ records'[t] = "unused" => dedup'[t] # "live"
    BY <1>1, <1>4, <1>5 DEF Check, Phase, TypeOK
  <2>5. t \notin overlapped \union spoiled' => (holder'[t] # "outside" <=> records'[t] = "entered")
    BY <1>1, <1>4, <1>5 DEF Check, Book, TypeOK
  <2> QED
    BY <1>1, <1>3, <1>4, <1>5, <2>1, <2>2, <2>3, <2>4, <2>5, Local DEF Check
<1>6. CASE Mark(d)
  <2>1. PICK ok \in BOOLEAN : /\ WriteRecord(t, "entered", ok)
                              /\ pc' = [pc EXCEPT ![d] = IF ok THEN "remember" ELSE "idle"]
    BY <1>6 DEF Mark
  <2>2. pc[d] = "mark" /\ dedup' = dedup /\ holder' = holder /\ doubled' = doubled
    BY <1>6 DEF Mark
  <2>3. /\ spoiled \subseteq spoiled' /\ records'[t] = "entered"
        /\ t \notin spoiled' => disk'[t] = "entered"
        /\ ~ok => t \in spoiled'
        /\ \A u \in Tickets \ {t} : /\ records'[u] = records[u] /\ disk'[u] = disk[u]
                                    /\ u \in spoiled' <=> u \in spoiled
    BY <1>1, <2>1, WriteFacts DEF Statuses
  <2>4. Frame(d)
    BY <1>1, <2>2, <2>3 DEF Frame
  <2>5. Phase(d)'
    BY <1>1, <2>1, <2>3 DEF Phase, TypeOK
  <2>6. t \notin overlapped \union spoiled' => ok /\ holder[t] = "outside"
    BY <1>4, <2>2, <2>3 DEF Book, Phase
  <2>7. t \notin overlapped \union spoiled' => Book(d)'
    BY <1>1, <2>1, <2>2, <2>6 DEF Book, TypeOK
  <2>8. t \notin overlapped \union spoiled' => pc'[d] # "idle"
    BY <2>1, <2>6 DEF TypeOK
  <2> QED
    BY <1>1, <1>4, <2>2, <2>3, <2>4, <2>5, <2>7, <2>8, Local
<1>7. CASE Remember(d)
  <2>1. /\ pc[d] = "remember" /\ pc'[d] = "open" /\ \A u \in Tickets \ {t} : dedup'[u] = dedup[u]
        /\ UNCHANGED <<records, disk, spoiled, holder, doubled>>
    BY <1>1, <1>7 DEF Remember, TypeOK
  <2>2. Frame(d)
    BY <1>1, <2>1 DEF Frame
  <2>3. t \notin overlapped => Phase(d)'
    BY <1>1, <1>4, <2>1 DEF Phase
  <2>4. t \notin overlapped \union spoiled' => Book(d)'
    BY <1>1, <1>4, <2>1 DEF Book
  <2> QED
    BY <1>1, <1>3, <1>4, <2>1, <2>2, <2>3, <2>4, Local
<1>o. CASE Open(d)
  <2>1. /\ pc[d] = "open" /\ pc'[d] = "idle" /\ UNCHANGED <<records, disk, dedup, spoiled>>
        /\ holder'[t] # "outside" /\ \A u \in Tickets \ {t} : holder'[u] = holder[u]
        /\ doubled' = doubled \/ (holder[t] = "inside" /\ doubled' = doubled \union {t})
    BY <1>1, <1>o DEF Open, TypeOK
  <2>2. Frame(d)
    BY <1>1, <2>1 DEF Frame
  <2>3. Phase(d)' /\ Book(d)'
    BY <2>1 DEF Phase, Book
  <2>4. t \notin overlapped => records[t] = "entered"
    BY <1>4, <2>1 DEF Phase
  <2>5. t \in doubled' => t \in overlapped \union spoiled'
    BY <1>1, <1>4, <2>1 DEF Book
  <2> QED
    BY <1>1, <1>3, <2>1, <2>2, <2>3, <2>4, <2>5, Local
<1>8. CASE Leave(d) /\ copy[d] # "entered"
  <2>1. /\ pc[d] = "leave" /\ pc'[d] = "clear"
        /\ UNCHANGED <<records, disk, dedup, holder, doubled, spoiled>>
    BY <1>8 DEF Leave, TypeOK
  <2>2. Frame(d)
    BY <1>1, <2>1 DEF Frame
  <2>3. Phase(d)'
    BY <2>1 DEF Phase
  <2>4. t \notin overlapped \union spoiled' => Book(d)'
    <3>1. copy[d] \in Statuses
      BY DEF TypeOK
    <3> QED
      BY <1>1, <1>4, <1>8, <2>1, <3>1 DEF Phase, Book, Statuses
  <2> QED
    BY <1>1, <1>3, <1>4, <2>1, <2>2, <2>3, <2>4, Local
<1>9. CASE Leave(d) /\ copy[d] = "entered"
  <2>1. PICK ok \in BOOLEAN : /\ WriteRecord(t, "exited", ok)
                              /\ pc' = [pc EXCEPT ![d] = IF ok THEN "confirm" ELSE "forget"]
    BY <1>9 DEF Leave
  <2>2. pc[d] = "leave" /\ dedup' = dedup /\ holder' = holder /\ doubled' = doubled
    BY <1>9 DEF Leave
  <2>3. /\ spoiled \subseteq spoiled' /\ records'[t] = "exited"
        /\ t \notin spoiled' => disk'[t] = "exited"
        /\ ~ok => t \in spoiled'
        /\ \A u \in Tickets \ {t} : /\ records'[u] = records[u] /\ disk'[u] = disk[u]
                                    /\ u \in spoiled' <=> u \in spoiled
    BY <1>1, <2>1, WriteFacts DEF Statuses
  <2>4. Frame(d)
    BY <1>1, <2>2, <2>3 DEF Frame
  <2>5. Phase(d)' /\ pc'[d] # "idle"
    BY <1>1, <2>1, <2>3 DEF Phase, TypeOK
  <2>6. t \notin overlapped \union spoiled' => ok /\ holder[t] # "outside"
    BY <1>4, <1>9, <2>2, <2>3 DEF Book, Phase
  <2>7. t \notin overlapped \union spoiled' => Book(d)'
    BY <1>1, <2>1, <2>2, <2>6 DEF Book, TypeOK
  <2> QED
    BY <1>1, <1>4, <2>2, <2>3, <2>4, <2>5, <2>7, Local
<1>10. CASE Confirm(d)
  <2>1. /\ pc[d] = "confirm" /\ UNCHANGED <<records, disk, dedup, doubled, spoiled>>
        /\ pc'[d] = IF records[t] = "exited" THEN "idle" ELSE "forget"
        /\ holder' = [holder EXCEPT ![t] = IF records[t] = "exited" THEN "outside" ELSE @]
    BY <1>10 DEF Confirm, TypeOK
  <2>2. Frame(d)
    BY <1>1, <2>1 DEF Frame, TypeOK
  <2>3. Phase(d)'
    BY <2>1 DEF Phase
  <2>4. t \notin overlapped => records[t] = "exited" /\ holder'[t] = "outside"
    BY <1>1, <1>4, <2>1 DEF Phase, TypeOK
  <2>5. t \notin overlapped \union spoiled' => Book(d)'
    BY <1>1, <2>1, <2>4 DEF Book
  <2> QED
    BY <1>1, <1>3, <1>4, <2>1, <2>2, <2>3, <2>4, <2>5, Local
<1>11. CASE Clear(d)
  <2>1. /\ pc[d] \in {"forget", "clear"} /\ UNCHANGED <<records, disk, holder, doubled, spoiled>>
        /\ pc'[d] = IF pc[d] = "forget" THEN "clear" ELSE "reset"
        /\ dedup'[t] = "none" /\ \A u \in Tickets \ {t} : dedup'[u] = dedup[u]
    BY <1>1, <1>11 DEF Clear, TypeOK
  <2>2. Frame(d)
    BY <1>1, <2>1 DEF Frame
  <2>3. Phase(d)'
    BY <1>1, <2>1 DEF Phase
  <2>4. t \notin overlapped \union spoiled' => Book(d)'
    BY <1>1, <1>4, <2>1 DEF Book
  <2> QED
    BY <1>1, <1>3, <1>4, <2>1, <2>2, <2>3, <2>4, Local
<1>12. CASE Reset(d)
  <2>1. PICK ok \in BOOLEAN : WriteRecord(t, "unused", ok)
    BY <1>12 DEF Reset
  <2>2. /\ pc[d] = "reset" /\ pc'[d] = "idle" /\ dedup' = dedup /\ holder' = holder
        /\ doubled' = doubled
    BY <1>12 DEF Reset, TypeOK
  <2>3. /\ spoiled \subseteq spoiled' /\ records'[t] = "unused"
        /\ t \notin spoiled' => disk'[t] = "unused"
        /\ \A u \in Tickets \ {t} : /\ records'[u] = records[u] /\ disk'[u] = disk[u]
                                    /\ u \in spoiled' <=> u \in spoiled
    BY <1>1, <2>1, WriteFacts DEF Statuses
  <2>4. Frame(d)
    BY <1>1, <2>2, <2>3 DEF Frame
  <2>5. Phase(d)' /\ Book(d)'
    BY <2>2 DEF Phase, Book
  <2>6. t \notin overlapped => dedup[t] = "none"
    BY <1>4, <2>2 DEF Phase
  <2>7. t \notin overlapped \union spoiled' => holder[t] = "outside"
    BY <1>4, <2>2, <2>3 DEF Book
  <2> QED
    BY <1>1, <1>4, <2>2, <2>3, <2>4, <2>5, <2>6, <2>7, Local
<1> QED
  BY <1>5, <1>6, <1>7, <1>o, <1>8, <1>9, <1>10, <1>11, <1>12 DEF Swipe, HandleEntry, HandleExit

\* A new swipe: alone on its ticket it finds the books in order.
LEMMA LookupStep ==
  ASSUME TypeOK, IInv, NEW d \in Swipers, NEW t \in Tickets, NEW next \in {"check", "leave"},
         Lookup(d, t, next)
  PROVE  IInv'
<1> USE DEF IInv
<1>1. /\ up /\ up' = up /\ UNCHANGED <<records, disk, dedup, holder, doubled, spoiled>>
      /\ pc[d] = "idle" /\ pc'[d] = next /\ card'[d] = t /\ copy'[d] = records[t]
      /\ \A e \in Swipers \ {d} : pc'[e] = pc[e] /\ card'[e] = card[e] /\ copy'[e] = copy[e]
  BY DEF Lookup, InStore, Goto, TypeOK
<1>2. /\ overlapped \subseteq overlapped'
      /\ t \notin overlapped' => \A e \in Swipers : pc[e] # "idle" => card[e] # t
  BY DEF Lookup, InStore, Quiet, InFlight
<1>3. t \notin overlapped' => Quiet(t)
  BY <1>2 DEF Quiet, InFlight
<1>4. Known(t) = records[t]
  BY Zenon, <1>1 DEF Known
<1>5. t \notin overlapped' => (records[t] = "unused" => dedup[t] # "live")
  BY <1>2, <1>3 DEF NoLockout
<1>6. t \notin overlapped' \union spoiled => (holder[t] # "outside" <=> records[t] = "entered")
  BY <1>2, <1>3, <1>4 DEF LedgerMatchesHolders, Undisturbed
<1>7. Alone'
  BY <1>1, <1>2 DEF Alone
<1>8. Down' /\ Durable'
  BY <1>1 DEF Down, Durable
<1>9. Phases'
  <2> SUFFICES ASSUME NEW e \in Swipers, card'[e] \notin overlapped'
               PROVE  Phase(e)'
    BY DEF Phases
  <2>1. CASE e = d
    BY <1>1, <1>5, <2>1 DEF Phase
  <2>2. CASE e # d
    BY <1>1, <1>2, <2>2 DEF Phase, Phases
  <2> QED
    BY <2>1, <2>2
<1>10. Books'
  <2> SUFFICES ASSUME NEW e \in Swipers, card'[e] \in Tickets, card'[e] \notin overlapped' \union spoiled
               PROVE  Book(e)'
    BY <1>1 DEF Books, Undisturbed
  <2>1. CASE e = d
    BY <1>1, <1>6, <2>1 DEF Book
  <2>2. CASE e # d
    BY <1>1, <1>2, <2>2 DEF Book, Books, Undisturbed
  <2> QED
    BY <2>1, <2>2
<1>11. \A u \in Tickets : Quiet(u)' => Quiet(u)
  BY <1>1 DEF Quiet, InFlight
<1>12. NoLockout' /\ OneHolder'
  BY <1>1, <1>2, <1>11 DEF NoLockout, OneHolder
<1>13. \A u \in Tickets : Known(u)' = Known(u)
  BY Zenon, <1>1 DEF Known
<1>14. LedgerMatchesHolders'
  BY <1>1, <1>2, <1>11, <1>13 DEF LedgerMatchesHolders, Undisturbed
<1> QED
  BY <1>7, <1>8, <1>9, <1>10, <1>12, <1>14

\* Time and the sweeper only ever unblock a ticket.
LEMMA DedupStep ==
  ASSUME TypeOK, IInv, (\E t \in Tickets : Expire(t)) \/ Sweep
  PROVE  IInv'
<1> USE DEF IInv
<1>1. /\ up' = up /\ UNCHANGED <<records, disk, pc, card, copy, holder, doubled, overlapped, spoiled>>
      /\ up /\ \A u \in Tickets : /\ dedup'[u] = "live" => dedup[u] = "live"
                                  /\ dedup[u] = "none" => dedup'[u] = "none"
  BY DEF Expire, Sweep, histories, TypeOK
<1>2. Alone' /\ Down' /\ Durable' /\ OneHolder'
  BY <1>1 DEF Alone, Down, Durable, OneHolder
<1>3. Phases'
  BY <1>1 DEF Phases, Phase, TypeOK
<1>4. Books'
  BY <1>1 DEF Books, Book, Undisturbed
<1>5. NoLockout'
  BY <1>1 DEF NoLockout, Quiet, InFlight
<1>6. \A u \in Tickets : Known(u)' = Known(u)
  BY Zenon, <1>1 DEF Known
<1>7. LedgerMatchesHolders'
  BY <1>1, <1>6 DEF LedgerMatchesHolders, Undisturbed, Quiet, InFlight
<1> QED
  BY <1>2, <1>3, <1>4, <1>5, <1>7

\* What the process leaves behind ...
LEMMA StopStep == ASSUME TypeOK, IInv, Stop PROVE IInv'
<1> USE DEF IInv
<1>1. /\ up /\ ~up' /\ UNCHANGED <<disk, card, copy, holder, doubled, overlapped>>
      /\ \A d \in Swipers : pc'[d] = "idle"
      /\ \A t \in Tickets : records'[t] = "absent" /\ dedup'[t] = "none"
      /\ spoiled \subseteq spoiled' /\ \A t \in Tickets \ spoiled' : Quiet(t)
  BY DEF Stop
<1>2. Alone' /\ Down' /\ Durable' /\ NoLockout' /\ OneHolder'
  BY <1>1 DEF Alone, Down, Durable, NoLockout, OneHolder
<1>3. Phases' /\ Books'
  <2>1. \A d \in Swipers : Phase(d)'
    BY <1>1 DEF Phase
  <2>2. \A d \in Swipers : Book(d)'
    BY <1>1 DEF Book
  <2> QED
    BY <2>1, <2>2 DEF Phases, Books
<1>4. \A t \in Tickets : Known(t) = records[t] /\ Known(t)' = disk[t]
  BY Zenon, <1>1 DEF Known
<1>5. LedgerMatchesHolders'
  BY <1>1, <1>4 DEF LedgerMatchesHolders, Undisturbed, Durable
<1> QED
  BY <1>2, <1>3, <1>5

\* ... is what the next one starts from.
LEMMA StartStep == ASSUME TypeOK, IInv, Start PROVE IInv'
<1> USE DEF IInv
<1>1. PICK failed \in SUBSET Seeds :
        /\ ~up /\ up' = TRUE
        /\ records' = [t \in Tickets |-> IF t \in Seeds THEN "unused" ELSE disk[t]]
        /\ disk' = [t \in Tickets |-> IF t \in Seeds \ failed THEN "unused" ELSE disk[t]]
        /\ spoiled' = spoiled \union failed \union {t \in Seeds : disk[t] \in {"entered", "exited"}}
        /\ UNCHANGED <<dedup, pc, card, copy, holder, doubled, overlapped>>
  BY DEF Start
<1>2. up'
  BY Zenon, <1>1
<1>3. \A d \in Swipers : pc[d] = "idle"
  BY <1>1 DEF Down
<1>4. \A t \in Tickets : dedup[t] = "none"
  BY <1>1 DEF Down
<1>5. Alone' /\ Down' /\ OneHolder'
  BY <1>1, <1>2, <1>3 DEF Alone, Down, OneHolder
<1>6. Durable'
  BY <1>1 DEF Durable
<1>7. NoLockout'
  BY <1>1, <1>4 DEF NoLockout
<1>8. Phases' /\ Books'
  <2>1. \A d \in Swipers : Phase(d)'
    BY <1>1, <1>3 DEF Phase
  <2>2. \A d \in Swipers : Book(d)'
    BY <1>1, <1>3 DEF Book
  <2> QED
    BY <2>1, <2>2 DEF Phases, Books
<1>9. \A t \in Tickets : Known(t) = disk[t] /\ Known(t)' = records'[t]
  BY Zenon, <1>1, <1>2 DEF Known
<1>10. LedgerMatchesHolders'
  <2> SUFFICES ASSUME NEW t \in Tickets, t \notin overlapped \union spoiled'
               PROVE  holder[t] # "outside" <=> records'[t] = "entered"
    BY <1>1, <1>9 DEF LedgerMatchesHolders, Undisturbed
  <2>1. holder[t] # "outside" <=> disk[t] = "entered"
    BY <1>1, <1>3, <1>9 DEF LedgerMatchesHolders, Undisturbed, Quiet, InFlight
  <2> QED
    BY <1>1, <2>1
<1> QED
  BY <1>5, <1>6, <1>7, <1>8, <1>10

LEMMA IInvHolds == Spec => []IInv
<1>1. TypeOK /\ TypeOK' /\ IInv /\ [Next]_vars => IInv'
  <2>1. TypeOK /\ IInv /\ UNCHANGED vars => IInv'
    BY DEF vars, IInv, Alone, Down, Phases, Phase, Books, Book, Durable, NoLockout,
           LedgerMatchesHolders, OneHolder, Known, Undisturbed, Quiet, InFlight
  <2> QED
    BY <2>1, LookupStep, SwipeStep, DedupStep, StopStep, StartStep DEF Next
<1> QED
  BY <1>1, IInvInit, TypeCorrect, PTL DEF Spec

------------------------------------------------------------------------------

\* Between swipes, whatever has expired, failed or restarted before, an undisturbed
\* ticket is recorded as entered iff its holder is inside, or was turned away by the
\* gate after his ticket had been taken.
THEOREM Ledger == Spec => []LedgerMatchesHolders
BY IInvHolds, PTL DEF IInv

\* Nobody is let in twice on an undisturbed ticket.
THEOREM SingleHolder == Spec => []OneHolder
BY IInvHolds, PTL DEF IInv

\* An unused ticket is not blocked as a duplicate, failed exits included.
THEOREM NeverLockedOut == Spec => []NoLockout
BY IInvHolds, PTL DEF IInv

\* Memory and files agree unless a write failed.
THEOREM FilesFollow == Spec => []Durable
BY IInvHolds, PTL DEF IInv

\* A used ticket is never admitted on the strength of a stale copy.
THEOREM NoStaleEntry == Spec => NoEntryFromExited
<1>1. TypeOK /\ IInv /\ [Next]_vars
        => [\A t \in Tickets \ overlapped' : records[t] = "exited" => records'[t] # "entered"]_vars
  <2> SUFFICES ASSUME TypeOK, IInv, [Next]_vars, NEW t \in Tickets, t \notin overlapped',
                      records[t] = "exited", records'[t] = "entered"
               PROVE  FALSE
    OBVIOUS
  <2> USE DEF IInv
  <2>1. ASSUME NEW d \in Swipers, Mark(d)
        PROVE  FALSE
    <3>1. PICK ok \in BOOLEAN : WriteRecord(card[d], "entered", ok)
      BY <2>1 DEF Mark
    <3>2. t = card[d]
      BY <3>1 DEF WriteRecord, TypeOK
    <3>3. records[t] = "unused"
      BY <2>1, <3>2 DEF Mark, Phases, Phase
    <3> QED
      BY <3>3
  <2>2. ASSUME NEW d \in Swipers, Leave(d) \/ Reset(d)
        PROVE  FALSE
    BY <2>2 DEF Leave, Reset, WriteRecord, TypeOK
  <2>3. CASE Stop \/ Start
    BY <2>3 DEF Stop, Start, Down
  <2>4. CASE UNCHANGED records
    BY <2>4
  <2> QED
    BY <2>1, <2>2, <2>3, <2>4 DEF Next, vars, Swipe, HandleEntry, HandleExit, Lookup, InStore, Check, Remember, Open,
         Confirm, Clear, Expire, Sweep
<1> QED
  BY <1>1, IInvHolds, TypeCorrect, PTL DEF Spec, NoEntryFromExited

------------------------------------------------------------------------------
(* The cycle of TicketLife. *)

Cycle(t) ==
  \/ Life!Stay(t) \/ Life!Put(t)
  \/ Life!MarkEntered(t) \/ Life!LetIn(t) \/ Life!TurnAway(t)
  \/ Life!MarkExited(t) \/ Life!LetOut(t) \/ Life!ResetEntry(t)

\* A step that leaves record, file and holder of a ticket alone is none of its life.
LEMMA LifeStays ==
  ASSUME NEW t \in Tickets, Known(t)' = Known(t), holder'[t] = holder[t]
  PROVE  Cycle(t)
BY DEF Cycle, Life!Stay, Life!Same

\* A step of a swipe, alone on its ticket, is the next one of the ticket's life.
LEMMA SwipeLives ==
  ASSUME TypeOK, IInv, NEW d \in Swipers, Swipe(d),
         NEW t \in Tickets, t \notin overlapped' \union spoiled'
  PROVE  Cycle(t)
<1> USE DEF Goto, histories
<1>1. /\ card[d] \in Tickets /\ up' = up /\ overlapped' = overlapped /\ pc[d] # "idle"
  BY DEF Swipe, HandleEntry, HandleExit, Check, Mark, Remember, Open, Leave, Confirm, Clear, Reset, TypeOK
<1>2. Known(t) = records[t] /\ Known(t)' = records'[t]
  <2>1. up
    BY <1>1 DEF IInv, Down
  <2> QED
    BY <1>1, <2>1, Zenon DEF Known
<1>3. spoiled \subseteq spoiled'
  BY DEF Swipe, HandleEntry, HandleExit, Check, Mark, Remember, Open, Leave, Confirm, Clear, Reset, WriteRecord
<1>4. t = card[d] => Phase(d) /\ Book(d)
  BY <1>1, <1>3 DEF IInv, Phases, Books, Undisturbed
<1>5. CASE t # card[d]
  <2>1. records'[t] = records[t] /\ holder'[t] = holder[t]
    BY <1>5 DEF Swipe, HandleEntry, HandleExit, Check, Mark, Remember, Open, Leave, Confirm, Clear, Reset,
                WriteRecord, TypeOK
  <2> QED
    BY <1>2, <2>1, LifeStays
<1>6. CASE t = card[d] /\ (Check(d) \/ Remember(d) \/ Clear(d) \/ (Leave(d) /\ copy[d] # "entered"))
  BY <1>2, <1>6, LifeStays DEF Check, Remember, Clear, Leave
<1>7. CASE t = card[d] /\ Mark(d)
  <2>1. records[t] = "unused" /\ holder[t] = "outside" /\ records'[t] = "entered" /\ holder' = holder
    BY <1>4, <1>7 DEF Mark, WriteRecord, Phase, Book, TypeOK
  <2> QED
    BY <1>2, <2>1 DEF Cycle, Life!MarkEntered, Life!Recorded, Life!Out, Life!Moved
<1>8. CASE t = card[d] /\ Open(d)
  <2>1. records[t] = "entered" /\ holder[t] = "outside" /\ records' = records
    BY <1>4, <1>8 DEF Open, Phase, Book
  <2>2. holder'[t] \in {"inside", "refused"}
    BY <1>8, <2>1 DEF Open, TypeOK
  <2> QED
    BY <1>2, <2>1, <2>2 DEF Cycle, Life!LetIn, Life!TurnAway, Life!Recorded, Life!Moved
<1>9. CASE t = card[d] /\ Leave(d) /\ copy[d] = "entered"
  <2>1. records[t] = "entered" /\ holder[t] # "outside" /\ records'[t] = "exited" /\ holder' = holder
    BY <1>4, <1>9 DEF Leave, WriteRecord, Phase, Book, TypeOK
  <2> QED
    BY <1>2, <2>1 DEF Cycle, Life!MarkExited, Life!Recorded, Life!Same
<1>10. CASE t = card[d] /\ Confirm(d)
  <2>1. /\ records[t] = "exited" /\ records' = records
        /\ holder[t] \in {"inside", "refused"} /\ holder'[t] = "outside"
    BY <1>4, <1>10 DEF Confirm, Phase, Book, TypeOK, Holders
  <2> QED
    BY <1>2, <2>1 DEF Cycle, Life!LetOut, Life!Recorded, Life!Moved
<1>11. CASE t = card[d] /\ Reset(d)
  <2>1. holder[t] = "outside" /\ holder' = holder /\ records'[t] = "unused"
    BY <1>4, <1>11 DEF Reset, WriteRecord, Book, TypeOK
  <2>2. records[t] \in {"unused", "exited"}
    BY <1>4, <1>11 DEF Reset, Book
  <2> QED
    BY <1>2, <2>1, <2>2, LifeStays DEF Cycle, Life!ResetEntry, Life!Recorded, Life!Out, Life!Moved
<1> QED
  BY <1>5, <1>6, <1>7, <1>8, <1>9, <1>10, <1>11 DEF Swipe, HandleEntry, HandleExit

\* A record in memory when a process stops is what the next one reads from its
\* file, a seeded ticket's excepted; what cannot be so is disturbed.
LEMMA RestartLives ==
  ASSUME TypeOK, IInv, Stop \/ Start, NEW t \in Tickets, t \notin overlapped' \union spoiled'
  PROVE  Cycle(t)
<1>1. CASE Stop
  <2>1. up /\ ~up' /\ disk' = disk /\ holder' = holder /\ spoiled \subseteq spoiled'
    BY <1>1, Zenon DEF Stop
  <2>2. Known(t) = records[t] /\ Known(t)' = disk'[t]
    BY <2>1, Zenon DEF Known
  <2>3. disk[t] = records[t]
    BY <2>1 DEF IInv, Durable
  <2> QED
    BY <2>1, <2>2, <2>3, LifeStays
<1>2. CASE Start
  <2>1. PICK failed \in SUBSET Seeds :
          /\ ~up /\ up' = TRUE
          /\ records' = [u \in Tickets |-> IF u \in Seeds THEN "unused" ELSE disk[u]]
          /\ spoiled' = spoiled \union failed \union {u \in Seeds : disk[u] \in {"entered", "exited"}}
          /\ holder' = holder /\ overlapped' = overlapped
    BY <1>2, Zenon DEF Start
  <2>2. up'
    BY <2>1, Zenon
  <2>3. Known(t) = disk[t] /\ Known(t)' = records'[t]
    BY <2>1, <2>2, Zenon DEF Known
  <2>4. CASE t \notin Seeds \/ disk[t] = "unused"
    BY <2>1, <2>3, <2>4, LifeStays
  <2>5. CASE t \in Seeds /\ disk[t] # "unused"
    <3>1. disk[t] = "absent"
      BY <2>1, <2>5 DEF TypeOK, Stored, Statuses
    <3>2. holder[t] = "outside"
      <4>1. Quiet(t)
        BY <2>1 DEF IInv, Down, Quiet, InFlight
      <4> QED
        BY <2>1, <2>3, <3>1, <4>1 DEF IInv, LedgerMatchesHolders, Undisturbed
    <3> QED
      BY <2>1, <2>3, <2>5, <3>1, <3>2 DEF Cycle, Life!Put, Life!Recorded, Life!Out, Life!Moved
  <2> QED
    BY <2>4, <2>5
<1> QED
  BY <1>1, <1>2

\* Every ticket goes round its cycle, and its holder with it, whether the gate lets
\* him in or turns him away, unless swipes of it
\* overlapped, one was cut short, a write failed or a used ticket was seeded anew.
THEOREM LivesInOrder == Spec => ImplementsLife
<1>1. Init => Life!Init
  <2> SUFFICES ASSUME Init
               PROVE  Life!Init
    OBVIOUS
  <2>1. \A t \in Tickets : Known(t) = disk[t]
    BY Zenon DEF Init, Known
  <2>2. /\ disk \in [Tickets -> Stored] /\ overlapped = {} /\ spoiled = {}
        /\ holder \in [Tickets -> Holders]
        /\ \A t \in Tickets : holder[t] # "outside" <=> disk[t] = "entered"
    BY Zenon DEF Init
  <2> QED
    BY <2>1, <2>2 DEF Life!Init, Life!Statuses, Life!Holders, Holders, Stored, Statuses
<1>2. TypeOK /\ IInv /\ [Next]_vars => [Life!Next]_Life!vars
  <2> SUFFICES ASSUME TypeOK, IInv, [Next]_vars
               PROVE  Life!Next \/ UNCHANGED Life!vars
    OBVIOUS
  <2>1. overlapped \union spoiled \subseteq overlapped' \union spoiled'
    BY DEF Next, Lookup, InStore, Swipe, HandleEntry, HandleExit, Check, Mark, Remember, Open, Leave, Confirm,
           Clear, Reset, Expire, Sweep, Stop, Start, WriteRecord, histories, vars
  <2>2. ASSUME NEW t \in Tickets, t \notin overlapped' \union spoiled'
        PROVE  Cycle(t)
    <3>1. ASSUME NEW d \in Swipers, Swipe(d)
          PROVE  Cycle(t)
      BY <2>2, <3>1, SwipeLives
    <3>2. CASE Stop \/ Start
      BY <2>2, <3>2, RestartLives
    <3>3. CASE UNCHANGED <<up, records, disk, holder>>
      <4>1. Known(t)' = Known(t)
        BY <3>3, Zenon DEF Known
      <4> QED
        BY <3>3, <4>1, LifeStays
    <3> QED
      BY <3>1, <3>2, <3>3 DEF Next, Lookup, InStore, Expire, Sweep, histories, vars
  <2> QED
    BY <2>1, <2>2 DEF Life!Next, Cycle
<1> QED
  BY <1>1, <1>2, IInvHolds, TypeCorrect, PTL DEF Spec, ImplementsLife, Life!Spec
==============================================================================
