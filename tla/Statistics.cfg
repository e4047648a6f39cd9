\* A registered gate and another one, two swipes, the snapshot loop and a restart.
SPECIFICATION Spec
CONSTANTS
  Gates = {g1, g2}
  Registered = {g1}
  Swipes = {s1, s2}
  MaxEntries = 3
  MaxRestarts = 1
SYMMETRY Symmetry
INVARIANTS
  TypeOK
  EntriesAccounted
  SessionsAccounted
  SnapshotsCurrent
PROPERTIES
  RestartRecounts
  ImplementsLedger
