------------------------------ MODULE Ticketing ------------------------------
(***************************************************************************)
(* A ticket's way through the gates: Controller.HandleEntry and HandleExit *)
(* with Validator, TicketStore and DedupManager, run by concurrent swipe   *)
(* handlers, and the restarts between which only the ticket files survive. *)
(*                                                                         *)
(* TicketStore and DedupManager lock per call, so each step is one call.   *)
(* A handler works on the copy that Lookup gave it.  Opening the gate is   *)
(* one step here, with its two outcomes; GateControl has its own steps,    *)
(* and Station what an error of it leaves behind.  Left out: stations      *)
(* and times of a record, the rule itself (allowed or denied is free), and *)
(* TicketStore.closed, which Shutdown sets only when the last handler has  *)
(* returned.                                                               *)
(***************************************************************************)
EXTENDS FiniteSets

CONSTANTS
  Tickets,       \* ticket numbers
  Seeds,         \* the tickets seedTickets puts at every start
  Swipers,       \* goroutines serving swipes, each reused for later swipes
  WriteFaults    \* may persist fail?

ASSUME SeedsAssumption == Seeds \subseteq Tickets
ASSUME WriteFaultsAssumption == WriteFaults \in BOOLEAN

VARIABLES
  up,           \* is the process running?
  records,      \* records[t]: status in TicketStore.records
  disk,         \* disk[t]: status in the file of t
  dedup,        \* dedup[t]: the entry of t's swipe key in DedupManager.items
  pc,           \* pc[d]: where swipe handler d is
  card,         \* card[d]: the ticket d works on
  copy,         \* copy[d]: status in the copy Lookup returned
  holder,       \* history: holder[t]: is somebody inside on t, or t taken and he refused?
  doubled,      \* history: tickets let in while their holder was inside
  overlapped,   \* history: tickets that had two swipes in flight at once
  spoiled       \* history: tickets hit by a failed write, a killed swipe or seedTickets

vars == <<up, records, disk, dedup, pc, card, copy, holder, doubled, overlapped, spoiled>>

Statuses == {"unused", "entered", "exited"}
\* "refused": his ticket was taken and the gate did not open for him.
Holders == {"outside", "inside", "refused"}
Stored == Statuses \union {"absent"}
Locations == {"idle", "check", "mark", "remember", "open",
              "leave", "confirm", "forget", "clear", "reset"}

TypeOK ==
  /\ up \in BOOLEAN
  /\ records \in [Tickets -> Stored]
  /\ disk \in [Tickets -> Stored]
  /\ dedup \in [Tickets -> {"none", "live", "expired"}]
  /\ pc \in [Swipers -> Locations]
  /\ card \in [Swipers -> Tickets]
  /\ copy \in [Swipers -> Statuses]
  /\ holder \in [Tickets -> Holders]
  /\ doubled \in SUBSET Tickets
  /\ overlapped \in SUBSET Tickets
  /\ spoiled \in SUBSET Tickets

\* Before a start: any set of ticket files.
Init ==
  /\ up = FALSE
  /\ records = [t \in Tickets |-> "absent"]
  /\ disk \in [Tickets -> Stored]
  /\ dedup = [t \in Tickets |-> "none"]
  /\ pc = [d \in Swipers |-> "idle"]
  /\ card \in [Swipers -> Tickets]
  /\ copy = [d \in Swipers |-> "unused"]
  /\ holder \in [Tickets -> Holders]
  /\ \A t \in Tickets : holder[t] # "outside" <=> disk[t] = "entered"
  /\ doubled = {}
  /\ overlapped = {}
  /\ spoiled = {}

Goto(d, l) == pc' = [pc EXCEPT ![d] = l]

histories == <<holder, doubled, overlapped, spoiled>>

InFlight(t) == {d \in Swipers : pc[d] # "idle" /\ card[d] = t}
Quiet(t) == InFlight(t) = {}

\* Faulty: the result ok of Lookup is not looked at.
StoredOrNot(t) == TRUE
InStore(t) == records[t] # "absent"

\* TicketStore.Lookup at the head of HandleEntry (next = "check") and of
\* HandleExit (next = "leave"): an unknown ticket ends the call.
Lookup(d, t, next) ==
  /\ up
  /\ pc[d] = "idle"
  /\ InStore(t)
  /\ Goto(d, next)
  /\ card' = [card EXCEPT ![d] = t]
  /\ copy' = [copy EXCEPT ![d] = records[t]]
  /\ overlapped' = IF Quiet(t) THEN overlapped ELSE overlapped \union {t}
  /\ UNCHANGED <<up, records, disk, dedup, holder, doubled, spoiled>>

\* Faulty: a duplicate is told by the dedup entry alone.
CheckAnyStatus(d) ==
  LET t == card[d] IN
  /\ pc[d] = "check"
  /\ \E allowed \in BOOLEAN : Goto(d, IF dedup[t] # "live" /\ allowed THEN "mark" ELSE "idle")
  /\ dedup' = [dedup EXCEPT ![t] = IF @ = "expired" THEN "none" ELSE @]
  /\ UNCHANGED <<up, records, disk, card, copy, histories>>

\* validateEntry up to the rule: the status of the copy, DedupManager.Check (which
\* deletes an expired entry), then allowed or not by the rule.
Check(d) ==
  LET t == card[d]
      fresh == copy[d] = "unused"
      admissible == fresh /\ dedup[t] # "live"
  IN
  /\ pc[d] = "check"
  /\ \E allowed \in BOOLEAN : Goto(d, IF admissible /\ allowed THEN "mark" ELSE "idle")
  /\ dedup' = [dedup EXCEPT ![t] = IF fresh /\ @ = "expired" THEN "none" ELSE @]
  /\ UNCHANGED <<up, records, disk, card, copy, histories>>

\* Faulty: the record is not persisted.
WriteMemoryOnly(t, status, ok) ==
  /\ ok
  /\ records' = [records EXCEPT ![t] = status]
  /\ UNCHANGED <<disk, spoiled>>

\* Change the record, then persist it: a failed write leaves the change in memory.
WriteRecord(t, status, ok) ==
  /\ ok \/ WriteFaults
  /\ records' = [records EXCEPT ![t] = status]
  /\ disk' = IF ok THEN [disk EXCEPT ![t] = status] ELSE disk
  /\ spoiled' = IF ok THEN spoiled ELSE spoiled \union {t}

\* MarkEntered.
Mark(d) ==
  /\ pc[d] = "mark"
  /\ \E ok \in BOOLEAN :
       /\ WriteRecord(card[d], "entered", ok)
       /\ Goto(d, IF ok THEN "remember" ELSE "idle")
  /\ UNCHANGED <<up, dedup, card, copy, holder, doubled, overlapped>>

\* DedupManager.Set, and validateEntry returns: the swipe is allowed.
Remember(d) ==
  /\ pc[d] = "remember"
  /\ dedup' = [dedup EXCEPT ![card[d]] = "live"]
  /\ Goto(d, "open")
  /\ UNCHANGED <<up, records, disk, card, copy, histories>>

\* The handler calls Controller.Open: only then is the holder let in, or the gate
\* refuses or fails and he is turned away, with his ticket taken.
Open(d) ==
  LET t == card[d] IN
  /\ pc[d] = "open"
  /\ \E opened \in BOOLEAN :
       /\ holder' = [holder EXCEPT ![t] = IF opened \/ @ = "inside" THEN "inside" ELSE "refused"]
       /\ doubled' = IF opened /\ holder[t] = "inside" THEN doubled \union {t} ELSE doubled
  /\ Goto(d, "idle")
  /\ UNCHANGED <<up, records, disk, dedup, card, copy, overlapped, spoiled>>

\* Faulty: the ticket is not marked as exited.
LeaveUnmarked(d) ==
  /\ pc[d] = "leave"
  /\ Goto(d, IF copy[d] # "entered" THEN "clear" ELSE "confirm")
  /\ UNCHANGED <<up, records, disk, dedup, card, copy, histories>>

\* validateExit: the status of the copy, then MarkExited.
Leave(d) ==
  /\ pc[d] = "leave"
  /\ IF copy[d] # "entered"
     THEN Goto(d, "clear") /\ UNCHANGED <<records, disk, spoiled>>
     ELSE \E ok \in BOOLEAN :
            /\ WriteRecord(card[d], "exited", ok)
            /\ Goto(d, IF ok THEN "confirm" ELSE "forget")
  /\ UNCHANGED <<up, dedup, card, copy, holder, doubled, overlapped>>

\* The second Lookup of validateExit; confirmed, the holder is out.
Confirm(d) ==
  LET t == card[d]
      exited == records[t] = "exited"
  IN
  /\ pc[d] = "confirm"
  /\ Goto(d, IF exited THEN "idle" ELSE "forget")
  /\ holder' = [holder EXCEPT ![t] = IF exited THEN "outside" ELSE @]
  /\ UNCHANGED <<up, records, disk, dedup, card, copy, doubled, overlapped, spoiled>>

\* Faulty: the dedup entry of a failed exit is kept.
ClearNothing(d) ==
  /\ pc[d] \in {"forget", "clear"}
  /\ Goto(d, IF pc[d] = "forget" THEN "clear" ELSE "reset")
  /\ UNCHANGED <<up, records, disk, dedup, card, copy, histories>>

\* DedupManager.Clear, by validateExit ("forget") and by HandleExit ("clear").
Clear(d) ==
  /\ pc[d] \in {"forget", "clear"}
  /\ dedup' = [dedup EXCEPT ![card[d]] = "none"]
  /\ Goto(d, IF pc[d] = "forget" THEN "clear" ELSE "reset")
  /\ UNCHANGED <<up, records, disk, card, copy, histories>>

\* ResetEntry, after every exit that failed; its error is dropped.
Reset(d) ==
  /\ pc[d] = "reset"
  /\ \E ok \in BOOLEAN : WriteRecord(card[d], "unused", ok)
  /\ Goto(d, "idle")
  /\ UNCHANGED <<up, dedup, card, copy, holder, doubled, overlapped>>

\* The time to live of an entry of DedupManager passes.
Expire(t) ==
  /\ up
  /\ dedup[t] = "live"
  /\ dedup' = [dedup EXCEPT ![t] = "expired"]
  /\ UNCHANGED <<up, records, disk, pc, card, copy, histories>>

\* dedupSweep.
Sweep ==
  /\ up
  /\ \E t \in Tickets : dedup[t] = "expired"
  /\ dedup' = [t \in Tickets |-> IF dedup[t] = "expired" THEN "none" ELSE dedup[t]]
  /\ UNCHANGED <<up, records, disk, pc, card, copy, histories>>

\* The process ends: killed, or main returns while handlers still run (it waits
\* for ListenAndServe only).  A ticket with a swipe in flight is left half-way.
Stop ==
  /\ up
  /\ up' = FALSE
  /\ records' = [t \in Tickets |-> "absent"]
  /\ dedup' = [t \in Tickets |-> "none"]
  /\ pc' = [d \in Swipers |-> "idle"]
  /\ spoiled' = spoiled \union {t \in Tickets : ~Quiet(t)}
  /\ UNCHANGED <<disk, card, copy, holder, doubled, overlapped>>

\* BuildApplication: loadAll, then seedTickets puts its tickets as unused whatever
\* their files said; an error of Put is dropped.
Start ==
  \E failed \in SUBSET Seeds :
    /\ ~up
    /\ WriteFaults \/ failed = {}
    /\ up' = TRUE
    /\ records' = [t \in Tickets |-> IF t \in Seeds THEN "unused" ELSE disk[t]]
    /\ disk' = [t \in Tickets |-> IF t \in Seeds \ failed THEN "unused" ELSE disk[t]]
    /\ spoiled' = spoiled \union failed \union {t \in Seeds : disk[t] \in {"entered", "exited"}}
    /\ UNCHANGED <<dedup, pc, card, copy, holder, doubled, overlapped>>

HandleEntry(d) == Check(d) \/ Mark(d) \/ Remember(d)
HandleExit(d) == Leave(d) \/ Confirm(d) \/ Clear(d) \/ Reset(d)
Swipe(d) == HandleEntry(d) \/ Open(d) \/ HandleExit(d)

Next ==
  \/ \E d \in Swipers, t \in Tickets, next \in {"check", "leave"} : Lookup(d, t, next)
  \/ \E d \in Swipers : Swipe(d)
  \/ \E t \in Tickets : Expire(t)
  \/ Sweep
  \/ Stop
  \/ Start

Spec == Init /\ [][Next]_vars

------------------------------------------------------------------------------
(* Properties. *)

\* What is known of a ticket: the store's record, or its file while nothing runs.
Known(t) == IF up THEN records[t] ELSE disk[t]

\* Tickets whose swipes came one after the other and were never cut short.
Undisturbed == Tickets \ (overlapped \union spoiled)

\* Between swipes the ledger says whose ticket is in use: through dedup expiry, failed
\* exits and restarts, a ticket is recorded as entered iff its holder is inside, or
\* stands outside a gate that did not open after his ticket had been taken.
LedgerMatchesHolders ==
  \A t \in Undisturbed : Quiet(t) => (holder[t] # "outside" <=> Known(t) = "entered")

\* A ticket lets its holder in again only after letting him out.
OneHolder == doubled \subseteq overlapped \union spoiled

\* A ticket that may be used is not refused as a duplicate: a failed exit that
\* makes a ticket unused has cleared its dedup entry too.
NoLockout ==
  \A t \in Tickets \ overlapped :
    Quiet(t) /\ records[t] = "unused" => dedup[t] # "live"

\* The files follow the memory: unless a write failed, a restart finds every
\* ticket as the last swipe left it.
Durable == up => \A t \in Tickets \ spoiled : disk[t] = records[t]

\* No entry is granted on a stale copy: a ticket recorded as exited does not
\* become entered, although the status is read long before it is written.
NoEntryFromExited ==
  [][\A t \in Tickets \ overlapped' : records[t] = "exited" => records'[t] # "entered"]_vars

\* Whatever expires, fails or restarts, an undisturbed ticket goes round one cycle,
\* and its holder with it: recorded as entered, then let in or turned away, recorded as
\* exited, then out, and only then, if at all, unused again.
Life == INSTANCE TicketLife WITH life <- [t \in Tickets |-> Known(t)],
                                 disturbed <- overlapped \union spoiled
ImplementsLife == Life!Spec

\* ticket.go: ErrTicketUsed, "ticket already used".  A used ticket stays used while
\* the process runs.
UsedStaysUsed ==
  [][\A t \in Tickets : up /\ records[t] = "exited" => records'[t] # "unused"]_vars
==============================================================================
