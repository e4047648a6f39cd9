------------------------------- MODULE RuleBook -------------------------------
(***************************************************************************)
(* What an upgrade promises to a group's gates and to those who ask for    *)
(* it: every new rule is newer than the one it replaces, is in force       *)
(* before its request is answered, and is answered before the next one     *)
(* comes into force.  A group once upgraded by two requests at a time      *)
(* promises nothing any more.                                              *)
(***************************************************************************)
EXTENDS Naturals

CONSTANTS
  Groups,       \* gate groups
  Ruled         \* the groups that have a rule from the start

VARIABLES
  rule,         \* rule[g]: version of the rule in force for group g, 0 if none
  answered,     \* answered[g]: the version the last request for g was answered with
  contended     \* groups upgraded by two requests at a time

vars == <<rule, answered, contended>>

Init ==
  /\ rule = [g \in Groups |-> IF g \in Ruled THEN 1 ELSE 0]
  /\ answered = rule
  /\ contended = {}

Publish(g) ==
  /\ g \in Ruled
  /\ answered[g] = rule[g]
  /\ rule'[g] > rule[g]
  /\ answered'[g] = answered[g]

Answer(g) ==
  /\ rule[g] > answered[g]
  /\ rule'[g] = rule[g]
  /\ answered'[g] = rule[g]

\* One group at a time; of a contended one nothing is promised.
Next ==
  \E g \in Groups :
    /\ \A h \in Groups \ {g} : rule'[h] = rule[h] /\ answered'[h] = answered[h]
    /\ contended \subseteq contended' /\ contended' \subseteq contended \union {g}
    /\ Publish(g) \/ Answer(g) \/ g \in contended'

Spec == Init /\ [][Next]_vars
==============================================================================
