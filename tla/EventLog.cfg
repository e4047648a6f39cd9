\* Three records on two gates, a shutdown among them.
SPECIFICATION Spec
CONSTANTS
  Gates = {g1, g2}
  Recorders = {r1, r2, r3}
  MaxHandles = 3
SYMMETRY Symmetry
INVARIANTS
  TypeOK
  SlotOwned
  LostOnlyIfDisturbed
  NoLeakUndisturbed
\* the bound on handles is reached
CHECK_DEADLOCK FALSE
