\* Three concurrent requests on the two groups of the program, and a group without a rule.
SPECIFICATION Spec
CONSTANTS
  Groups = {normal, transfer, other}
  Ruled = {normal, transfer}
  Default = normal
  Upgraders = {u1, u2, u3}
  MaxSeq = 5
SYMMETRY Symmetry
INVARIANTS
  TypeOK
  UpgradeTakesEffect
  CacheIsStore
  AuditComplete
  EnforcedGranted
PROPERTY ImplementsRuleBook
\* the bound on versions is reached
CHECK_DEADLOCK FALSE
