\* Two requests upgrade the same group.
SPECIFICATION Spec
CONSTANTS
  Groups = {normal}
  Ruled = {normal}
  Default = normal
  Upgraders = {u1, u2}
  MaxSeq = 4
INVARIANT TakesEffectAlways
CHECK_DEADLOCK FALSE
