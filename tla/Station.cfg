\* Swipes of two tickets at one gate by two handlers, all failures.
SPECIFICATION Spec
CONSTANTS
  Tickets = {t1, t2}
  Gates = {g1}
  Scheduled = {g1}
  Handlers = {d1, d2}
  Faults = TRUE
  MaxSwipes = 4
SYMMETRY Symmetry
INVARIANTS
  TypeOK
  EnteredExplained
  WritebackTellsLastExit
\* every swipe may have been answered
CHECK_DEADLOCK FALSE
