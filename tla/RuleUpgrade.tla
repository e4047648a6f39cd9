----------------------------- MODULE RuleUpgrade -----------------------------
(***************************************************************************)
(* A gate group's rule on its way from an upgrade request to the gates:    *)
(* Handlers.UpgradeRule, RuleManager.Upgrade, ChangeNotifier.Broadcast and *)
(* the RuleCache the Validator reads.  RuleStore, ChangeNotifier,          *)
(* RuleCache and RuleAudit each lock per call; nothing locks across them.  *)
(*                                                                         *)
(* A rule is told apart by its version, which RuleStore.Set never gives    *)
(* twice; what it allows is left out.  The cache is subscribed before the  *)
(* server listens and until Shutdown, after the last handler, so a         *)
(* broadcast always finds it.                                              *)
(***************************************************************************)
EXTENDS Naturals, Sequences, FiniteSets

CONSTANTS
  Groups,       \* gate groups, those without a rule included
  Ruled,        \* the groups NewRuleStore gives a rule
  Default,      \* DefaultGateGroup
  Upgraders,    \* goroutines serving upgrade requests
  MaxSeq        \* bound: no request once this many versions are given

ASSUME RuledAssumption == Ruled \subseteq Groups /\ Default \in Ruled
ASSUME MaxSeqAssumption == MaxSeq \in Nat

VARIABLES
  store,        \* store[g]: version in RuleStore.rules, 0 if g has no rule
  seq,          \* RuleStore.seq
  cache,        \* cache[g]: version in RuleCache.entries, 0 if none
  audit,        \* RuleAudit.records
  pc,           \* pc[u]: where upgrader u is
  group,        \* group[u]: the group u upgrades
  stored,       \* stored[u]: the version Upgrade returned to u
  before,       \* before[u]: the version u read for the audit
  acked,        \* history: acked[g] is the newest version a request was answered with
  overlapped    \* history: groups that had two upgrades in flight at once

vars == <<store, seq, cache, audit, pc, group, stored, before, acked, overlapped>>

FirstSeq == 2      \* RuleStore.seq at the start
Locations == {"idle", "set", "broadcast", "update", "readback", "audit"}

Change == [group : Groups, before : Nat, after : Nat]

TypeOK ==
  /\ store \in [Groups -> Nat]
  /\ seq \in Nat
  /\ cache \in [Groups -> Nat]
  /\ audit \in Seq(Change)
  /\ pc \in [Upgraders -> Locations]
  /\ group \in [Upgraders -> Groups]
  /\ stored \in [Upgraders -> Nat]
  /\ before \in [Upgraders -> Nat]
  /\ acked \in [Groups -> Nat]
  /\ overlapped \in SUBSET Groups

\* NewRuleStore, and the Snapshot NewRuleCache takes of it.
Initial == [g \in Groups |-> IF g \in Ruled THEN 1 ELSE 0]

Init ==
  /\ store = Initial
  /\ seq = FirstSeq
  /\ cache = Initial
  /\ audit = <<>>
  /\ pc = [u \in Upgraders |-> "idle"]
  /\ group \in [Upgraders -> Groups]
  /\ stored = [u \in Upgraders |-> 0]
  /\ before = [u \in Upgraders |-> 0]
  /\ acked = Initial
  /\ overlapped = {}

\* validateEntry: the group whose rule a gate of group g is judged by.
RuleFor(g) == IF cache[g] # 0 THEN g ELSE Default

Goto(u, l) == pc' = [pc EXCEPT ![u] = l]
Quiet(g) == \A u \in Upgraders : pc[u] # "idle" => group[u] # g

\* The head of Upgrade: a group without a rule is refused, which changes nothing.
Request(u, g) ==
  /\ pc[u] = "idle"
  /\ seq < MaxSeq
  /\ store[g] # 0
  /\ Goto(u, "set")
  /\ group' = [group EXCEPT ![u] = g]
  /\ overlapped' = IF Quiet(g) THEN overlapped ELSE overlapped \union {g}
  /\ UNCHANGED <<store, seq, cache, audit, stored, before, acked>>

\* Faulty: versions are counted per group.
NextOfGroup(g) == store[g] + 1
NextVersion(g) == seq + 1

\* RuleStore.Set.
Set(u) ==
  /\ pc[u] = "set"
  /\ seq' = seq + 1
  /\ store' = [store EXCEPT ![group[u]] = NextVersion(group[u])]
  /\ stored' = [stored EXCEPT ![u] = NextVersion(group[u])]
  /\ Goto(u, "broadcast")
  /\ UNCHANGED <<cache, audit, group, before, acked, overlapped>>

\* Broadcast copies the list of handlers and calls them without the lock ...
Broadcast(u) ==
  /\ pc[u] = "broadcast"
  /\ Goto(u, "update")
  /\ UNCHANGED <<store, seq, cache, audit, group, stored, before, acked, overlapped>>

\* Faulty: takes every rule for the default one.
UpdateDefault(u) ==
  /\ pc[u] = "update"
  /\ cache' = [cache EXCEPT ![Default] = stored[u]]
  /\ Goto(u, "readback")
  /\ UNCHANGED <<store, seq, audit, group, stored, before, acked, overlapped>>

\* ... and the handler is RuleCache.Update.
Update(u) ==
  /\ pc[u] = "update"
  /\ cache' = [cache EXCEPT ![group[u]] = stored[u]]
  /\ Goto(u, "readback")
  /\ UNCHANGED <<store, seq, audit, group, stored, before, acked, overlapped>>

\* UpgradeRule reads the rule "before" the change.
Readback(u) ==
  /\ pc[u] = "readback"
  /\ before' = [before EXCEPT ![u] = store[group[u]]]
  /\ Goto(u, "audit")
  /\ UNCHANGED <<store, seq, cache, audit, group, stored, acked, overlapped>>

\* Faulty: the record keeps the group and the rule after the change only.
ChangeAfterOnly(u) == [group |-> group[u], after |-> stored[u]]
ChangeOf(u) == [group |-> group[u], before |-> before[u], after |-> stored[u]]

\* RuleAudit.Append, and the answer.
Record(u) ==
  LET g == group[u] IN
  /\ pc[u] = "audit"
  /\ audit' = Append(audit, ChangeOf(u))
  /\ acked' = [acked EXCEPT ![g] = IF stored[u] > @ THEN stored[u] ELSE @]
  /\ Goto(u, "idle")
  /\ UNCHANGED <<store, seq, cache, group, stored, before, overlapped>>

Upgrade(u) == Set(u) \/ Broadcast(u) \/ Update(u) \/ Readback(u) \/ Record(u)

Next ==
  \/ \E u \in Upgraders, g \in Groups : Request(u, g)
  \/ \E u \in Upgraders : Upgrade(u)

Spec == Init /\ [][Next]_vars

------------------------------------------------------------------------------
(* Properties. *)

\* An upgrade takes effect at once: when its request has been answered, no gate of
\* the group, nor of a group that falls back on it, is judged by an older rule.
\* So it is for a group that is upgraded by one request at a time.
UpgradeTakesEffect ==
  \A g \in Groups : RuleFor(g) \notin overlapped => cache[RuleFor(g)] >= acked[RuleFor(g)]

\* Once no upgrade is on its way the gates enforce exactly the stored rule.
CacheIsStore ==
  \A g \in Groups \ overlapped : Quiet(g) => cache[g] = store[g]

\* The gates never return to an older rule.
NoRollback == [][\A g \in Groups \ overlapped' : cache'[g] >= cache[g]]_vars

\* Store, broadcast and cache, with no lock across them, keep the promise of an
\* upgrade: publish, answer, publish, answer, and a group without a rule stays so.
Book == INSTANCE RuleBook WITH rule <- cache, answered <- acked, contended <- overlapped
ImplementsRuleBook == Book!Spec

\* Every version that was ever given is audited exactly once, or the request that
\* was given it is still on its way; the audit names no other version.  The rule
\* before the change is read after it, and is never the one replaced: it is the new
\* rule or that of a later upgrade.
Pending(u) == pc[u] \in {"broadcast", "update", "readback", "audit"}
AuditComplete ==
  /\ \A v \in FirstSeq + 1 .. seq :
       Cardinality({i \in DOMAIN audit : audit[i].after = v})
         + Cardinality({u \in Upgraders : Pending(u) /\ stored[u] = v}) = 1
  /\ \A i \in DOMAIN audit : /\ audit[i].after \in FirstSeq + 1 .. seq
                              /\ audit[i].before >= audit[i].after

\* Version v is the rule g started with, or the one a request for g was given, which
\* is audited or on its way.
Granted(g, v) ==
  \/ v = Initial[g]
  \/ \E u \in Upgraders : Pending(u) /\ group[u] = g /\ stored[u] = v
  \/ \E i \in DOMAIN audit : audit[i].group = g /\ audit[i].after = v

\* What is left to a group whose upgrades overlap, their broadcasts in any order: its
\* gates enforce a rule that was granted to this very group, never one newer than the
\* store's.  All an overlap can bring back is an older rule of its own.
EnforcedGranted == \A g \in Groups : Granted(g, cache[g]) /\ cache[g] <= store[g]

\* rule_cache_test.go, ticket.go: "takes effect at the gate immediately".  Said of
\* every group, however it is upgraded.
TakesEffectAlways == \A g \in Ruled : cache[g] >= acked[g]

==============================================================================
