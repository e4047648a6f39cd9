-------------------------- MODULE RuleUpgradeProofs --------------------------
(***************************************************************************)
(* Theorems about RuleUpgrade, for any gate groups, any number of          *)
(* concurrent upgrade requests and any bound on the versions.              *)
(***************************************************************************)
EXTENDS RuleUpgrade, FiniteSetTheorems, TLAPS

\* Every variable keeps to its type; above all the audit is a sequence of complete
\* change records.
THEOREM TypeCorrect == Spec => []TypeOK
<1>1. Init => TypeOK
  BY DEF Init, TypeOK, Initial, FirstSeq, Locations
<1>2. TypeOK /\ [Next]_vars => TypeOK'
  <2> SUFFICES ASSUME TypeOK, [Next]_vars
               PROVE  TypeOK'
    OBVIOUS
  <2> USE DEF TypeOK, Goto, Locations
  <2>1. ASSUME NEW u \in Upgraders, NEW g \in Groups, Request(u, g)
        PROVE  TypeOK'
    BY <2>1 DEF Request
  <2>2. ASSUME NEW u \in Upgraders, Set(u)
        PROVE  TypeOK'
    BY <2>2 DEF Set, NextVersion
  <2>3. ASSUME NEW u \in Upgraders, Broadcast(u)
        PROVE  TypeOK'
    BY <2>3 DEF Broadcast
  <2>4. ASSUME NEW u \in Upgraders, Update(u)
        PROVE  TypeOK'
    BY <2>4 DEF Update
  <2>5. ASSUME NEW u \in Upgraders, Readback(u)
        PROVE  TypeOK'
    BY <2>5 DEF Readback
  <2>6. ASSUME NEW u \in Upgraders, Record(u)
        PROVE  TypeOK'
    <3> DEFINE c == [group |-> group[u], before |-> before[u], after |-> stored[u]]
    <3>1. c \in Change
      BY DEF Change
    <3>2. Append(audit, c) \in Seq(Change)
      BY <3>1
    <3> QED
      BY <2>6, <3>2 DEF Record, ChangeOf
  <2>7. CASE UNCHANGED vars
    BY <2>7 DEF vars
  <2> QED
    BY <2>1, <2>2, <2>3, <2>4, <2>5, <2>6, <2>7 DEF Next, Upgrade
<1> QED
  BY <1>1, <1>2, PTL DEF Spec

------------------------------------------------------------------------------
(* The inductive invariant: how far the cache lags behind the store is told by *)
(* the place of the one upgrade that is on its way.                            *)

VersionsGiven ==
  /\ \A g \in Groups : store[g] <= seq /\ cache[g] <= seq
  /\ \A u \in Upgraders : stored[u] <= seq

Alone ==
  \A u, v \in Upgraders :
    pc[u] # "idle" /\ pc[v] # "idle" /\ group[u] = group[v] /\ group[u] \notin overlapped
      => u = v

Progress(u) ==
  LET g == group[u] IN
  /\ pc[u] = "set" => cache[g] = store[g]
  /\ pc[u] \in {"broadcast", "update"} => stored[u] = store[g] /\ cache[g] <= store[g]
  /\ pc[u] \in {"readback", "audit"} => stored[u] = store[g] /\ cache[g] = store[g]

OnTheWay == \A u \in Upgraders : group[u] \notin overlapped => Progress(u)

AckedEnforced == \A g \in Groups \ overlapped : acked[g] <= cache[g]

IInv == VersionsGiven /\ Alone /\ OnTheWay /\ CacheIsStore /\ AckedEnforced

LEMMA IInvInit == Init => IInv
BY DEF Init, IInv, VersionsGiven, Alone, OnTheWay, Progress, CacheIsStore, AckedEnforced,
       Initial, FirstSeq

LEMMA IInvStep == TypeOK /\ IInv /\ [Next]_vars => IInv'
<1> SUFFICES ASSUME TypeOK, IInv, [Next]_vars
             PROVE  IInv'
  OBVIOUS
<1> USE DEF TypeOK, Goto, IInv, Quiet
<1>1. ASSUME NEW u \in Upgraders, NEW g \in Groups, Request(u, g)
      PROVE  IInv'
  <2>1. VersionsGiven' /\ AckedEnforced'
    BY <1>1 DEF Request, VersionsGiven, AckedEnforced
  <2>2. Alone'
    BY <1>1 DEF Request, Alone
  <2>3. OnTheWay'
    BY <1>1 DEF Request, OnTheWay, Progress, CacheIsStore
  <2>4. CacheIsStore'
    BY <1>1 DEF Request, CacheIsStore
  <2> QED
    BY <2>1, <2>2, <2>3, <2>4
<1>2. ASSUME NEW u \in Upgraders, Upgrade(u)
      PROVE  IInv'
  <2> DEFINE g == group[u]
  <2> USE DEF Upgrade
  <2>1. g \in Groups /\ pc[u] # "idle"
    BY <1>2 DEF Set, NextVersion, Broadcast, Update, Readback, Record, ChangeOf
  <2>2. group' = group /\ overlapped' = overlapped /\ \A v \in Upgraders \ {u} : pc'[v] = pc[v] /\ stored'[v] = stored[v]
    BY <1>2 DEF Set, NextVersion, Broadcast, Update, Readback, Record, ChangeOf
  <2>3. \A h \in Groups \ {g} : store'[h] = store[h] /\ cache'[h] = cache[h] /\ acked'[h] = acked[h]
    BY <1>2 DEF Set, NextVersion, Broadcast, Update, Readback, Record, ChangeOf
  <2>4. Alone'
    BY <2>1, <2>2 DEF Alone
  <2>5. VersionsGiven'
    <3>1. CASE Set(u)
      BY <3>1 DEF Set, NextVersion, VersionsGiven
    <3>2. CASE Update(u)
      BY <3>2 DEF Update, VersionsGiven
    <3>3. CASE Broadcast(u) \/ Readback(u) \/ Record(u)
      BY <3>3 DEF Broadcast, Readback, Record, ChangeOf, VersionsGiven
    <3> QED
      BY <1>2, <3>1, <3>2, <3>3
  <2>6. OnTheWay'
    <3> SUFFICES ASSUME NEW v \in Upgraders, group[v] \notin overlapped
                 PROVE  Progress(v)'
      BY <2>2 DEF OnTheWay
    <3>1. CASE v = u
      BY <1>2, <3>1 DEF Set, NextVersion, Broadcast, Update, Readback, Record, ChangeOf, OnTheWay, Progress, VersionsGiven
    <3>2. CASE v # u
      BY <2>1, <2>2, <2>3, <3>2 DEF OnTheWay, Progress, Alone
    <3> QED
      BY <3>1, <3>2
  <2>7. CacheIsStore'
    BY <1>2, <2>1, <2>2, <2>3
       DEF Set, NextVersion, Broadcast, Update, Readback, Record, ChangeOf, CacheIsStore, OnTheWay, Progress
  <2>8. AckedEnforced'
    BY <1>2, <2>1, <2>2, <2>3
       DEF Set, NextVersion, Broadcast, Update, Readback, Record, ChangeOf, AckedEnforced, OnTheWay, Progress
  <2> QED
    BY <2>4, <2>5, <2>6, <2>7, <2>8
<1>3. CASE UNCHANGED vars
  BY <1>3 DEF vars, VersionsGiven, Alone, OnTheWay, Progress, CacheIsStore, AckedEnforced
<1> QED
  BY <1>1, <1>2, <1>3 DEF Next

LEMMA IInvHolds == Spec => []IInv
BY IInvInit, IInvStep, TypeCorrect, PTL DEF Spec

\* When nothing is on its way the gates enforce the stored rule.
THEOREM CacheConverges == Spec => []CacheIsStore
BY IInvHolds, PTL DEF IInv

\* An answered upgrade is in force, also at gates that fall back on the default rule.
THEOREM TakesEffect == Spec => []UpgradeTakesEffect
<1>1. TypeOK /\ IInv => UpgradeTakesEffect
  BY RuledAssumption DEF TypeOK, IInv, AckedEnforced, UpgradeTakesEffect, RuleFor
<1> QED
  BY <1>1, IInvHolds, TypeCorrect, PTL

\* The gates never return to an older rule of a group upgraded by one request at a time.
THEOREM Monotone == Spec => NoRollback
<1>1. TypeOK /\ IInv /\ [Next]_vars => [\A g \in Groups \ overlapped' : cache'[g] >= cache[g]]_vars
  <2> SUFFICES ASSUME TypeOK, IInv, [Next]_vars, NEW g \in Groups, g \notin overlapped'
               PROVE  cache'[g] >= cache[g]
    OBVIOUS
  <2>1. ASSUME NEW u \in Upgraders, Update(u)
        PROVE  cache'[g] >= cache[g]
    BY <2>1 DEF Update, IInv, OnTheWay, Progress, TypeOK
  <2>2. CASE \A u \in Upgraders : ~Update(u)
    <3>1. cache' = cache
      BY <2>2 DEF Next, Upgrade, Request, Set, NextVersion, Broadcast, Readback, Record, ChangeOf, vars
    <3> QED
      BY <3>1 DEF TypeOK
  <2> QED
    BY <2>1, <2>2
<1> QED
  BY <1>1, IInvHolds, TypeCorrect, PTL DEF Spec, NoRollback

------------------------------------------------------------------------------
(* The audit.  A version is carried by the request it was given to until    *)
(* that request appends it; the rule a request reads back is at least as    *)
(* new as the one it stored.                                                *)

Audited(v) == {i \in DOMAIN audit : audit[i].after = v}
Carrying(v) == {u \in Upgraders : Pending(u) /\ stored[u] = v}

Once(v) ==
  \/ Carrying(v) = {} /\ \E i \in DOMAIN audit : Audited(v) = {i}
  \/ Audited(v) = {} /\ \E u \in Upgraders : Carrying(v) = {u}

Entries ==
  \A i \in DOMAIN audit : /\ audit[i].after \in FirstSeq + 1 .. seq
                          /\ audit[i].before >= audit[i].after

Carried ==
  \A u \in Upgraders : Pending(u) =>
    /\ stored[u] \in FirstSeq + 1 .. seq
    /\ stored[u] <= store[group[u]]
    /\ pc[u] = "audit" => stored[u] <= before[u]

AuditInv ==
  /\ seq \in Nat /\ seq >= FirstSeq
  /\ \A v \in FirstSeq + 1 .. seq : Once(v)
  /\ Entries
  /\ Carried

LEMMA AuditStep == TypeOK /\ VersionsGiven /\ AuditInv /\ [Next]_vars => AuditInv'
<1> SUFFICES ASSUME TypeOK, VersionsGiven, AuditInv, [Next]_vars
             PROVE  AuditInv'
  OBVIOUS
<1> USE DEF Goto, FirstSeq
<1>1. ASSUME NEW u \in Upgraders, NEW g \in Groups, Request(u, g)
      PROVE  AuditInv'
  <2>1. /\ UNCHANGED <<seq, store, audit, stored, before>>
        /\ \A w \in Upgraders : Pending(w)' <=> Pending(w)
        /\ \A w \in Upgraders : Pending(w) => pc'[w] = pc[w] /\ group'[w] = group[w]
    BY <1>1 DEF Request, Pending, TypeOK
  <2> QED
    BY <2>1 DEF AuditInv, Entries, Carried, Once, Audited, Carrying
<1>2. ASSUME NEW u \in Upgraders, Set(u)
      PROVE  AuditInv'
  <2>1. /\ pc[u] = "set" /\ pc' = [pc EXCEPT ![u] = "broadcast"]
        /\ seq' = seq + 1 /\ stored' = [stored EXCEPT ![u] = seq + 1]
        /\ store' = [store EXCEPT ![group[u]] = seq + 1]
        /\ UNCHANGED <<audit, group, before>>
    BY <1>2 DEF Set, NextVersion
  <2>2. /\ ~Pending(u) /\ Pending(u)'
        /\ \A w \in Upgraders \ {u} : (Pending(w)' <=> Pending(w)) /\ pc'[w] = pc[w] /\ stored'[w] = stored[w]
    BY <2>1 DEF Pending, TypeOK
  <2>3. ASSUME NEW v \in FirstSeq + 1 .. seq
        PROVE  Once(v)'
    <3>1. Carrying(v)' = Carrying(v)
      BY <2>1, <2>2 DEF Carrying, TypeOK
    <3>2. Audited(v)' = Audited(v) /\ Once(v)
      BY <2>1 DEF Audited, AuditInv
    <3> QED
      BY <2>1, <3>1, <3>2 DEF Once
  <2>4. ASSUME NEW v \in {seq + 1}
        PROVE  Once(v)'
    <3>1. \A w \in Upgraders \ {u} : Pending(w) => stored[w] # v
      BY DEF AuditInv, Carried
    <3>2. Carrying(v)' = {u}
      BY <2>1, <2>2, <3>1 DEF Carrying, TypeOK
    <3>3. Audited(v)' = {}
      BY <2>1 DEF Audited, Entries, AuditInv
    <3> QED
      BY <3>2, <3>3 DEF Once
  <2>5. Entries'
    BY <2>1 DEF Entries, AuditInv
  <2>6. Carried'
    <3> SUFFICES ASSUME NEW w \in Upgraders, Pending(w)'
                 PROVE  /\ stored'[w] \in FirstSeq + 1 .. seq'
                        /\ stored'[w] <= store'[group[w]]
                        /\ pc'[w] = "audit" => stored'[w] <= before[w]
      BY <2>1 DEF Carried
    <3>1. CASE w = u
      BY <2>1, <3>1 DEF AuditInv, TypeOK
    <3>2. CASE w # u
      BY <2>1, <2>2, <3>2 DEF AuditInv, Carried, TypeOK
    <3> QED
      BY <3>1, <3>2
  <2>7. \A v \in FirstSeq + 1 .. seq' : Once(v)'
    <3>1. ASSUME NEW v \in FirstSeq + 1 .. seq'
          PROVE  v \in FirstSeq + 1 .. seq \/ v \in {seq + 1}
      BY <2>1 DEF AuditInv
    <3> QED
      BY <2>3, <2>4, <3>1
  <2> QED
    BY <2>1, <2>5, <2>6, <2>7 DEF AuditInv
<1>3. ASSUME NEW u \in Upgraders, Broadcast(u) \/ Update(u) \/ Readback(u)
      PROVE  AuditInv'
  <2>1. /\ UNCHANGED <<seq, store, audit, stored, group>>
        /\ \A w \in Upgraders : Pending(w)' <=> Pending(w)
        /\ \A w \in Upgraders \ {u} : pc'[w] = pc[w] /\ before'[w] = before[w]
        /\ Pending(u)
        /\ pc'[u] = "audit" => before'[u] = store[group[u]]
    BY <1>3 DEF Broadcast, Update, Readback, Pending, TypeOK
  <2>2. Carried'
    BY <2>1 DEF AuditInv, Carried
  <2>3. \A v \in FirstSeq + 1 .. seq : Once(v)'
    BY <2>1 DEF AuditInv, Once, Audited, Carrying
  <2> QED
    BY <2>1, <2>2, <2>3 DEF AuditInv, Entries
<1>4. ASSUME NEW u \in Upgraders, Record(u)
      PROVE  AuditInv'
  <2> DEFINE c == [group |-> group[u], before |-> before[u], after |-> stored[u]]
             n == Len(audit) + 1
  <2>1. /\ pc[u] = "audit" /\ pc' = [pc EXCEPT ![u] = "idle"]
        /\ audit' = Append(audit, c)
        /\ UNCHANGED <<seq, store, stored, group, before>>
    BY <1>4 DEF Record, ChangeOf
  <2>2. /\ Pending(u) /\ ~Pending(u)'
        /\ \A w \in Upgraders \ {u} : (Pending(w)' <=> Pending(w)) /\ pc'[w] = pc[w]
    BY <2>1 DEF Pending, TypeOK
  <2>3. /\ DOMAIN audit' = DOMAIN audit \union {n} /\ n \notin DOMAIN audit
        /\ audit'[n] = c /\ \A i \in DOMAIN audit : audit'[i] = audit[i]
    BY <2>1 DEF TypeOK
  <2>4. stored[u] \in FirstSeq + 1 .. seq /\ stored[u] <= before[u]
    BY <2>1, <2>2 DEF AuditInv, Carried
  <2>5. Entries'
    BY <2>1, <2>3, <2>4 DEF AuditInv, Entries, TypeOK
  <2>6. Carried'
    BY <2>1, <2>2 DEF AuditInv, Carried
  <2>7. ASSUME NEW v \in FirstSeq + 1 .. seq
        PROVE  Once(v)'
    <3>1. CASE v = stored[u]
      <4>1. u \in Carrying(v)
        BY <2>2, <3>1 DEF Carrying
      <4>2. Audited(v) = {} /\ Carrying(v) = {u}
        BY <4>1 DEF AuditInv, Once
      <4>3. Audited(v)' = {n}
        BY <2>3, <3>1, <4>2 DEF Audited
      <4>4. Carrying(v)' = {}
        BY <2>1, <2>2, <4>2 DEF Carrying
      <4> QED
        BY <2>3, <4>3, <4>4 DEF Once
    <3>2. CASE v # stored[u]
      <4>1. Audited(v)' = Audited(v)
        BY <2>3, <3>2 DEF Audited
      <4>2. Carrying(v)' = Carrying(v)
        BY <2>1, <2>2, <3>2 DEF Carrying
      <4> QED
        BY <2>3, <4>1, <4>2 DEF AuditInv, Once
    <3> QED
      BY <3>1, <3>2
  <2> QED
    BY <2>1, <2>5, <2>6, <2>7 DEF AuditInv
<1>5. CASE UNCHANGED vars
  BY <1>5 DEF vars, AuditInv, Entries, Carried, Once, Audited, Carrying, Pending
<1> QED
  BY <1>1, <1>2, <1>3, <1>4, <1>5 DEF Next, Upgrade

\* Every version is audited once, however many upgrades overlap, and with a rule
\* "before" that is not older than it.
THEOREM Audits == Spec => []AuditComplete
<1>1. Init => AuditInv
  <2>1. Init => \A u \in Upgraders : ~Pending(u)
    BY DEF Init, Pending
  <2> QED
    BY <2>1 DEF Init, FirstSeq, AuditInv, Entries, Carried, Once
<1>2. AuditInv => AuditComplete
  <2> SUFFICES ASSUME AuditInv PROVE AuditComplete
    OBVIOUS
  <2>1. ASSUME NEW v \in FirstSeq + 1 .. seq
        PROVE  Cardinality(Audited(v)) + Cardinality(Carrying(v)) = 1
    <3>1. Once(v)
      BY DEF AuditInv
    <3>2. Cardinality({}) = 0 /\ \A x : Cardinality({x}) = 1
      BY FS_EmptySet, FS_Singleton
    <3>3. CASE Carrying(v) = {} /\ \E i \in DOMAIN audit : Audited(v) = {i}
      <4>1. Cardinality(Carrying(v)) = 0 /\ Cardinality(Audited(v)) = 1
        BY <3>2, <3>3
      <4> QED
        BY <4>1
    <3>4. CASE Audited(v) = {} /\ \E u \in Upgraders : Carrying(v) = {u}
      <4>1. Cardinality(Audited(v)) = 0 /\ Cardinality(Carrying(v)) = 1
        BY <3>2, <3>4
      <4> QED
        BY <4>1
    <3> QED
      BY <3>1, <3>3, <3>4 DEF Once
  <2> QED
    BY <2>1 DEF AuditInv, Entries, AuditComplete, Audited, Carrying
<1>3. IInv => VersionsGiven
  BY DEF IInv
<1> HIDE DEF AuditInv
<1> QED
  BY <1>1, <1>2, <1>3, AuditStep, IInvHolds, TypeCorrect, PTL DEF Spec

------------------------------------------------------------------------------
(* The promise of RuleBook: what has been answered lags behind what is in   *)
(* force from the update of the cache to the answer, and only then.         *)

OnlyRuled ==
  /\ \A g \in Groups : store[g] # 0 => g \in Ruled
  /\ \A u \in Upgraders : pc[u] # "idle" => group[u] \in Ruled

Owed(u) ==
  LET g == group[u] IN
  /\ pc[u] = "set" => acked[g] = cache[g]
  /\ pc[u] \in {"broadcast", "update"} => acked[g] = cache[g] /\ cache[g] < stored[u]
  /\ pc[u] \in {"readback", "audit"} => acked[g] < stored[u]

AllOwed == \A u \in Upgraders : group[u] \notin overlapped => Owed(u)

AllAnswered == \A g \in Groups \ overlapped : Quiet(g) => acked[g] = cache[g]

BookInv == OnlyRuled /\ AllOwed /\ AllAnswered

LEMMA BookStep == TypeOK /\ IInv /\ BookInv /\ [Next]_vars => BookInv'
<1> SUFFICES ASSUME TypeOK, IInv, BookInv, [Next]_vars
             PROVE  BookInv'
  OBVIOUS
<1> USE DEF TypeOK, Goto, BookInv, Quiet
<1>1. ASSUME NEW u \in Upgraders, NEW g \in Groups, Request(u, g)
      PROVE  BookInv'
  <2>1. OnlyRuled'
    BY <1>1 DEF Request, OnlyRuled
  <2>2. AllOwed' /\ AllAnswered'
    BY <1>1 DEF Request, AllOwed, Owed, AllAnswered
  <2> QED
    BY <2>1, <2>2
<1>2. ASSUME NEW u \in Upgraders, Upgrade(u)
      PROVE  BookInv'
  <2> DEFINE g == group[u]
  <2> USE DEF Upgrade
  <2>1. g \in Groups /\ pc[u] # "idle"
    BY <1>2 DEF Set, Broadcast, Update, Readback, Record
  <2>2. /\ group' = group /\ overlapped' = overlapped
        /\ \A v \in Upgraders \ {u} : pc'[v] = pc[v] /\ stored'[v] = stored[v]
    BY <1>2 DEF Set, Broadcast, Update, Readback, Record
  <2>3. \A h \in Groups \ {g} : store'[h] = store[h] /\ cache'[h] = cache[h] /\ acked'[h] = acked[h]
    BY <1>2 DEF Set, Broadcast, Update, Readback, Record
  <2>4. OnlyRuled'
    BY <2>1, <2>2, <2>3 DEF OnlyRuled
  <2>5. g \notin overlapped => Owed(u)' /\ (pc'[u] = "idle" => acked'[g] = cache'[g])
    <3>1. g \notin overlapped => Progress(u) /\ Owed(u)
      BY DEF IInv, OnTheWay, AllOwed
    <3>2. CASE Set(u)
      BY <2>1, <3>1, <3>2 DEF Set, NextVersion, Owed, IInv, VersionsGiven
    <3>3. CASE Broadcast(u) \/ Readback(u)
      BY <2>1, <3>1, <3>3 DEF Broadcast, Readback, Owed
    <3>4. CASE Update(u)
      BY <2>1, <3>1, <3>4 DEF Update, Owed
    <3>5. CASE Record(u)
      BY <2>1, <3>1, <3>5 DEF Record, Owed, Progress
    <3> QED
      BY <1>2, <3>2, <3>3, <3>4, <3>5
  <2>6. AllOwed'
    <3> SUFFICES ASSUME NEW v \in Upgraders, group[v] \notin overlapped
                 PROVE  Owed(v)'
      BY <2>2 DEF AllOwed
    <3>1. CASE v # u /\ pc[v] # "idle"
      BY <2>1, <2>2, <2>3, <3>1 DEF IInv, Alone, AllOwed, Owed
    <3>2. CASE v # u /\ pc[v] = "idle"
      BY <2>2, <3>2 DEF Owed
    <3> QED
      BY <2>5, <3>1, <3>2
  <2>7. AllAnswered'
    <3> SUFFICES ASSUME NEW h \in Groups, h \notin overlapped, Quiet(h)'
                 PROVE  acked'[h] = cache'[h]
      BY <2>2 DEF AllAnswered
    <3>1. CASE h = g
      BY <2>2, <2>5, <3>1
    <3>2. CASE h # g
      <4>1. Quiet(h)
        BY <2>2, <3>2
      <4> QED
        BY <2>3, <3>2, <4>1 DEF AllAnswered
    <3> QED
      BY <3>1, <3>2
  <2> QED
    BY <2>4, <2>6, <2>7
<1>3. CASE UNCHANGED vars
  BY <1>3 DEF vars, OnlyRuled, AllOwed, Owed, AllAnswered
<1> QED
  BY <1>1, <1>2, <1>3 DEF Next

\* The upgrade of a group upgraded by one request at a time is published, newer than
\* the last, when that one is answered, and answered before the next.
THEOREM BookKept == Spec => ImplementsRuleBook
<1>1. Init => Book!Init
  BY DEF Init, Initial, Book!Init
<1>2. Init => BookInv
  BY DEF Init, Initial, BookInv, OnlyRuled, AllOwed, Owed, AllAnswered
<1>3. TypeOK /\ IInv /\ BookInv /\ [Next]_vars => [Book!Next]_Book!vars
  <2> SUFFICES ASSUME TypeOK, IInv, BookInv, [Next]_vars
               PROVE  Book!Next \/ UNCHANGED <<cache, acked, overlapped>>
    BY DEF Book!vars
  <2> USE DEF TypeOK, Goto
  <2>1. ASSUME NEW u \in Upgraders, NEW g \in Groups, Request(u, g)
        PROVE  Book!Next \/ UNCHANGED <<cache, acked, overlapped>>
    BY <2>1 DEF Request, Book!Next
  <2>2. ASSUME NEW u \in Upgraders, Update(u)
        PROVE  Book!Next
    <3> DEFINE g == group[u]
    <3>1. /\ g \in Groups /\ acked' = acked /\ overlapped' = overlapped
          /\ cache' = [cache EXCEPT ![g] = stored[u]] /\ pc[u] = "update"
      BY <2>2 DEF Update
    <3>2. g \notin overlapped => Book!Publish(g)
      BY <3>1 DEF BookInv, OnlyRuled, AllOwed, Owed, Book!Publish
    <3> QED
      BY <3>1, <3>2 DEF Book!Next
  <2>3. ASSUME NEW u \in Upgraders, Record(u)
        PROVE  Book!Next
    <3> DEFINE g == group[u]
    <3>1. /\ g \in Groups /\ cache' = cache /\ overlapped' = overlapped /\ pc[u] = "audit"
          /\ acked' = [acked EXCEPT ![g] = IF stored[u] > acked[g] THEN stored[u] ELSE acked[g]]
      BY <2>3 DEF Record
    <3>2. g \notin overlapped => Book!Answer(g)
      BY <3>1 DEF BookInv, AllOwed, Owed, IInv, OnTheWay, Progress, Book!Answer
    <3> QED
      BY <3>1, <3>2 DEF Book!Next
  <2>4. ASSUME NEW u \in Upgraders, Set(u) \/ Broadcast(u) \/ Readback(u)
        PROVE  UNCHANGED <<cache, acked, overlapped>>
    BY <2>4 DEF Set, Broadcast, Readback
  <2> QED
    BY <2>1, <2>2, <2>3, <2>4 DEF Next, Upgrade, vars
<1> HIDE DEF BookInv
<1> QED
  BY <1>1, <1>2, <1>3, BookStep, IInvHolds, TypeCorrect, PTL DEF Spec, ImplementsRuleBook, Book!Spec

------------------------------------------------------------------------------
(* What is left to a group whose upgrades overlap.                          *)

LEMMA GrantedStep ==
  TypeOK /\ VersionsGiven /\ AuditInv /\ EnforcedGranted /\ [Next]_vars => EnforcedGranted'
<1> SUFFICES ASSUME TypeOK, VersionsGiven, AuditInv, EnforcedGranted, [Next]_vars, NEW g \in Groups
             PROVE  Granted(g, cache[g])' /\ cache'[g] <= store'[g]
  BY DEF EnforcedGranted
<1> USE DEF TypeOK, Goto
<1>0. Granted(g, cache[g]) /\ cache[g] <= store[g]
  BY DEF EnforcedGranted
<1>1. ASSUME NEW u \in Upgraders, NEW h \in Groups, Request(u, h)
      PROVE  Granted(g, cache[g])' /\ cache'[g] <= store'[g]
  BY <1>0, <1>1 DEF Request, Granted, Pending
<1>2. ASSUME NEW u \in Upgraders, Set(u)
      PROVE  Granted(g, cache[g])' /\ cache'[g] <= store'[g]
  BY <1>0, <1>2 DEF Set, NextVersion, Granted, Pending, VersionsGiven
<1>3. ASSUME NEW u \in Upgraders, Broadcast(u) \/ Readback(u)
      PROVE  Granted(g, cache[g])' /\ cache'[g] <= store'[g]
  BY <1>0, <1>3 DEF Broadcast, Readback, Granted, Pending
<1>4. ASSUME NEW u \in Upgraders, Update(u)
      PROVE  Granted(g, cache[g])' /\ cache'[g] <= store'[g]
  <2>1. Pending(u) /\ Pending(u)' /\ stored[u] <= store[group[u]]
    BY <1>4 DEF Update, Pending, AuditInv, Carried
  <2>2. CASE g = group[u]
    BY <1>4, <2>1, <2>2 DEF Update, Granted
  <2>3. CASE g # group[u]
    BY <1>0, <1>4, <2>3 DEF Update, Granted, Pending
  <2> QED
    BY <2>2, <2>3
<1>5. ASSUME NEW u \in Upgraders, Record(u)
      PROVE  Granted(g, cache[g])' /\ cache'[g] <= store'[g]
  <2> DEFINE c == [group |-> group[u], before |-> before[u], after |-> stored[u]]
             n == Len(audit) + 1
  <2>1. /\ UNCHANGED <<cache, store, group, stored>>
        /\ \A v \in Upgraders \ {u} : Pending(v)' <=> Pending(v)
        /\ audit' = Append(audit, c)
    BY <1>5 DEF Record, ChangeOf, Pending
  <2>2. /\ n \in DOMAIN audit' /\ audit'[n].group = group[u] /\ audit'[n].after = stored[u]
        /\ DOMAIN audit \subseteq DOMAIN audit' /\ \A i \in DOMAIN audit : audit'[i] = audit[i]
    BY <2>1
  <2>3. Granted(g, cache[g])'
    BY <1>0, <2>1, <2>2 DEF Granted
  <2> QED
    BY <1>0, <2>1, <2>3
<1>6. CASE UNCHANGED vars
  BY <1>0, <1>6 DEF vars, Granted, Pending
<1> QED
  BY <1>1, <1>2, <1>3, <1>4, <1>5, <1>6 DEF Next, Upgrade

\* However many upgrades of a group overlap, its gates enforce a rule that some
\* request was given for this group, never another group's and never one that is
\* newer than the stored rule: what an overlap can cost is an older rule of its own.
THEOREM OnlyGranted == Spec => []EnforcedGranted
<1>1. Init => AuditInv /\ EnforcedGranted
  <2>1. Init => \A u \in Upgraders : ~Pending(u)
    BY DEF Init, Pending
  <2>2. Init => EnforcedGranted
    BY DEF Init, Initial, EnforcedGranted, Granted
  <2> QED
    BY <2>1, <2>2 DEF Init, FirstSeq, AuditInv, Entries, Carried, Once
<1>2. IInv => VersionsGiven
  BY DEF IInv
<1> HIDE DEF AuditInv, EnforcedGranted
<1> QED
  BY <1>1, <1>2, AuditStep, GrantedStep, IInvHolds, TypeCorrect, PTL DEF Spec
==============================================================================
