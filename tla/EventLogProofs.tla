---------------------------- MODULE EventLogProofs ---------------------------
(***************************************************************************)
(* Theorems about EventLog, for any gates, any number of concurrent        *)
(* records and any bound on the handles.                                   *)
(***************************************************************************)
EXTENDS EventLog, TLAPS

\* Every variable keeps to its type: no closing takes the map out of its range.
THEOREM TypeCorrect == Spec => []TypeOK
<1>1. Init => TypeOK
  BY DEF Init, TypeOK, Locations
<1>2. TypeOK /\ [Next]_vars => TypeOK'
  <2> SUFFICES ASSUME TypeOK, [Next]_vars
               PROVE  TypeOK'
    OBVIOUS
  <2> USE DEF TypeOK, Goto, Locations
  <2>1. ASSUME NEW r \in Recorders, NEW g \in Gates, OpenForAppend(r, g)
        PROVE  TypeOK'
    BY <2>1 DEF OpenForAppend
  <2>2. ASSUME NEW r \in Recorders, AppendLine(r)
        PROVE  TypeOK'
    BY <2>2 DEF AppendLine
  <2>3. ASSUME NEW r \in Recorders, CloseHandle(r)
        PROVE  TypeOK'
    BY <2>3 DEF CloseHandle
  <2>4. CASE Close
    BY <2>4 DEF Close
  <2>5. ASSUME NEW g \in Gates, NEW n \in 1 .. opened[g], Finalize(g, n)
        PROVE  TypeOK'
    BY <2>5 DEF Finalize
  <2>6. CASE UNCHANGED vars
    BY <2>6 DEF vars
  <2> QED
    BY <2>1, <2>2, <2>3, <2>4, <2>5, <2>6 DEF Next
<1> QED
  BY <1>1, <1>2, PTL DEF Spec

------------------------------------------------------------------------------
(* The inductive invariant. *)

\* Records that do not overlap are alone on their gate ...
Alone ==
  \A r, s \in Recorders :
    pc[r] # "idle" /\ pc[s] # "idle" /\ gate[r] = gate[s] /\ gate[r] \notin contended
      => r = s

\* ... and find their handle in the map, unless a shutdown took it.
Held ==
  \A r \in Recorders :
    pc[r] # "idle" /\ gate[r] \notin contended \union shut => slot[gate[r]] = handle[r]

\* A new number is new.
Numbered == \A h \in open : h[2] \in 1 .. opened[h[1]]
HandlesPositive == \A r \in Recorders : pc[r] # "idle" => handle[r] # 0

IInv == /\ Alone /\ Held /\ Numbered /\ HandlesPositive
        /\ SlotOwned /\ NoLeakUndisturbed /\ LostOnlyIfDisturbed

LEMMA IInvInit == Init => IInv
BY DEF Init, IInv, Alone, Held, Numbered, HandlesPositive, SlotOwned, NoLeakUndisturbed,
       LostOnlyIfDisturbed

LEMMA OpenStep ==
  ASSUME TypeOK, IInv, NEW r \in Recorders, NEW g \in Gates, OpenForAppend(r, g)
  PROVE  IInv'
<1> DEFINE n == opened[g] + 1
<1> USE DEF TypeOK, Goto, IInv, InFlight
<1>1. n \in Nat \ {0} /\ slot'[g] = n /\ handle'[r] = n /\ gate'[r] = g /\ pc'[r] = "append"
  BY DEF OpenForAppend
<1>2. \A h \in Gates \ {g} : slot'[h] = slot[h] /\ opened'[h] = opened[h]
  BY DEF OpenForAppend
<1>3. \A s \in Recorders \ {r} : pc'[s] = pc[s] /\ gate'[s] = gate[s] /\ handle'[s] = handle[s]
  BY DEF OpenForAppend
<1>4. open' = open \union {<<g, n>>} /\ opened'[g] = n /\ lost' = lost /\ shut' = shut /\ pc[r] = "idle"
  BY DEF OpenForAppend
<1>5. /\ contended \subseteq contended' /\ contended' \subseteq contended \union {g}
      /\ g \notin contended' => \A s \in Recorders : pc[s] # "idle" => gate[s] # g
  BY DEF OpenForAppend
<1>6. Alone'
  BY <1>1, <1>3, <1>5 DEF Alone
<1>7. Held'
  <2> SUFFICES ASSUME NEW s \in Recorders, pc'[s] # "idle", gate'[s] \notin contended' \union shut'
               PROVE  slot'[gate'[s]] = handle'[s]
    BY DEF Held
  <2>1. CASE s = r
    BY <1>1, <2>1
  <2>2. CASE s # r
    <3>1. gate[s] # g /\ gate[s] \in Gates /\ slot[gate[s]] = handle[s]
      BY <1>3, <1>4, <1>5, <2>2 DEF Held
    <3> QED
      BY <1>2, <1>3, <2>2, <3>1
  <2> QED
    BY <2>1, <2>2
<1>8. Numbered'
  <2> SUFFICES ASSUME NEW h \in open'
               PROVE  h[2] \in 1 .. opened'[h[1]]
    BY DEF Numbered
  <2>1. CASE h = <<g, n>>
    BY <1>1, <1>4, <2>1
  <2>2. CASE h \in open
    <3>1. h[1] \in Gates /\ h[2] \in Nat /\ h[2] \in 1 .. opened[h[1]]
      BY <2>2 DEF Numbered
    <3>2. opened[h[1]] \in Nat /\ (h[1] = g => opened'[h[1]] = opened[h[1]] + 1)
      BY <1>4, <3>1
    <3> QED
      BY <1>2, <3>1, <3>2
  <2> QED
    BY <1>4, <2>1, <2>2
<1>9. HandlesPositive'
  BY <1>1, <1>3 DEF HandlesPositive
<1>10. SlotOwned'
  <2> SUFFICES ASSUME NEW h \in Gates, slot'[h] # 0
               PROVE  /\ <<h, slot'[h]>> \in open'
                      /\ \E s \in Recorders : pc'[s] # "idle" /\ gate'[s] = h /\ handle'[s] = slot'[h]
    BY DEF SlotOwned
  <2>1. CASE h = g
    BY <1>1, <1>4, <2>1
  <2>2. CASE h # g
    <3>1. slot'[h] = slot[h] /\ <<h, slot[h]>> \in open
      BY <1>2, <2>2 DEF SlotOwned
    <3>2. PICK s \in Recorders : pc[s] # "idle" /\ gate[s] = h /\ handle[s] = slot[h]
      BY <3>1 DEF SlotOwned
    <3>3. s # r
      BY <1>4, <3>2
    <3> QED
      BY <1>3, <1>4, <3>1, <3>2, <3>3
  <2> QED
    BY <2>1, <2>2
<1>11. NoLeakUndisturbed'
  <2> SUFFICES ASSUME NEW h \in open', h[1] \notin contended'
               PROVE  slot'[h[1]] = h[2]
    BY DEF NoLeakUndisturbed
  <2>1. CASE h = <<g, n>>
    BY <1>1, <2>1
  <2>2. CASE h \in open
    <3>1. h[1] \in Gates /\ slot[h[1]] = h[2] /\ h[2] # 0
      BY <1>5, <2>2 DEF NoLeakUndisturbed, Numbered
    <3>2. h[1] # g
      BY <1>5, <3>1 DEF SlotOwned
    <3> QED
      BY <1>2, <3>1, <3>2
  <2> QED
    BY <1>4, <2>1, <2>2
<1>12. LostOnlyIfDisturbed'
  BY <1>4, <1>5 DEF LostOnlyIfDisturbed
<1> QED
  BY <1>6, <1>7, <1>8, <1>9, <1>10, <1>11, <1>12

LEMMA AppendStep ==
  ASSUME TypeOK, IInv, NEW r \in Recorders, AppendLine(r)
  PROVE  IInv'
<1> USE DEF TypeOK, Goto, IInv, InFlight
<1>1. /\ slot' = slot /\ open' = open /\ opened' = opened /\ gate' = gate /\ handle' = handle
      /\ contended' = contended /\ shut' = shut
      /\ \A s \in Recorders : pc'[s] # "idle" <=> pc[s] # "idle"
  BY DEF AppendLine
<1>2. Alone' /\ Held' /\ Numbered' /\ HandlesPositive' /\ NoLeakUndisturbed'
  BY <1>1 DEF Alone, Held, Numbered, HandlesPositive, NoLeakUndisturbed
<1>3. SlotOwned'
  BY <1>1 DEF SlotOwned
<1>4. LostOnlyIfDisturbed'
  <2>1. pc[r] = "append" /\ gate[r] \in Gates
    BY DEF AppendLine
  <2>2. gate[r] \in contended \union shut \/ <<gate[r], handle[r]>> \in open
    BY <2>1 DEF Held, HandlesPositive, SlotOwned
  <2> QED
    BY <1>1, <2>2 DEF AppendLine, LostOnlyIfDisturbed
<1> QED
  BY <1>2, <1>3, <1>4

LEMMA CloseHandleStep ==
  ASSUME TypeOK, IInv, NEW r \in Recorders, CloseHandle(r)
  PROVE  IInv'
<1> DEFINE g == gate[r]
<1> USE DEF TypeOK, Goto, IInv, InFlight
<1>1. /\ g \in Gates /\ pc[r] = "close" /\ pc'[r] = "idle" /\ slot'[g] = 0
      /\ opened' = opened /\ gate' = gate /\ handle' = handle
      /\ lost' = lost /\ contended' = contended /\ shut' = shut
      /\ open' = open \ {<<g, slot[g]>>}
  BY DEF CloseHandle
<1>2. \A h \in Gates \ {g} : slot'[h] = slot[h]
  BY DEF CloseHandle
<1>3. \A s \in Recorders \ {r} : pc'[s] = pc[s]
  BY DEF CloseHandle
<1>4. Alone' /\ Numbered' /\ HandlesPositive' /\ LostOnlyIfDisturbed'
  BY <1>1, <1>3 DEF Alone, Numbered, HandlesPositive, LostOnlyIfDisturbed
<1>5. Held'
  BY <1>1, <1>2, <1>3 DEF Held, Alone
<1>6. SlotOwned'
  BY <1>1, <1>2, <1>3 DEF SlotOwned
<1>7. NoLeakUndisturbed'
  BY <1>1, <1>2 DEF NoLeakUndisturbed
<1> QED
  BY <1>4, <1>5, <1>6, <1>7

LEMMA CloseStep == ASSUME TypeOK, IInv, Close PROVE IInv'
<1> USE DEF TypeOK, IInv, InFlight
<1>1. /\ opened' = opened /\ pc' = pc /\ gate' = gate /\ handle' = handle /\ lost' = lost
      /\ contended' = contended /\ open' \subseteq open
      /\ \A g \in Gates : slot'[g] = 0 /\ <<g, slot[g]>> \notin open'
      /\ shut \subseteq shut' /\ \A s \in Recorders : pc[s] # "idle" => gate[s] \in shut'
  BY DEF Close
<1>2. Alone' /\ Held' /\ Numbered' /\ HandlesPositive' /\ SlotOwned' /\ LostOnlyIfDisturbed'
  BY <1>1 DEF Alone, Held, Numbered, HandlesPositive, SlotOwned, LostOnlyIfDisturbed
<1>3. NoLeakUndisturbed'
  <2> SUFFICES ASSUME NEW h \in open', h[1] \notin contended'
               PROVE  FALSE
    BY DEF NoLeakUndisturbed
  <2>1. h[1] \in Gates /\ h = <<h[1], h[2]>> /\ slot[h[1]] = h[2]
    BY <1>1 DEF NoLeakUndisturbed
  <2> QED
    BY <1>1, <2>1
<1> QED
  BY <1>2, <1>3

LEMMA FinalizeStep ==
  ASSUME TypeOK, IInv, NEW g \in Gates, NEW n \in 1 .. opened[g], Finalize(g, n)
  PROVE  IInv'
<1>1. /\ open' \subseteq open /\ UNCHANGED <<slot, opened, pc, gate, handle, lost, contended, shut>>
      /\ \A h \in Gates : <<h, slot[h]>> \in open => <<h, slot[h]>> \in open'
  BY DEF Finalize, TypeOK
<1> QED
  BY <1>1 DEF IInv, Alone, Held, Numbered, HandlesPositive, SlotOwned, NoLeakUndisturbed,
       LostOnlyIfDisturbed, InFlight

LEMMA IInvHolds == Spec => []IInv
<1>1. TypeOK /\ IInv /\ UNCHANGED vars => IInv'
  BY DEF vars, IInv, Alone, Held, Numbered, HandlesPositive, SlotOwned, NoLeakUndisturbed,
         LostOnlyIfDisturbed, InFlight
<1>2. TypeOK /\ IInv /\ [Next]_vars => IInv'
  BY <1>1, OpenStep, AppendStep, CloseHandleStep, CloseStep, FinalizeStep DEF Next
<1> QED
  BY <1>2, IInvInit, TypeCorrect, PTL DEF Spec

\* What the map holds is open and in use.
THEOREM SlotsOwned == Spec => []SlotOwned
BY IInvHolds, PTL DEF IInv

\* An event is lost to a closed handle only where records overlapped or the store
\* was shut down under them.
THEOREM LossExplained == Spec => []LostOnlyIfDisturbed
BY IInvHolds, PTL DEF IInv

\* A handle outlives its place in the map only where records overlapped.
THEOREM LeakExplained == Spec => []NoLeakUndisturbed
BY IInvHolds, PTL DEF IInv
==============================================================================
