\* One gate, two swipe handlers and the scheduler, all failures, fair goroutines.
SPECIFICATION FairSpec
CONSTANTS
  Gates = {g1}
  Swipes = {s1, s2}
  Scheduler = sched
  ActuatorFaults = TRUE
  MaxCycles = 2
  MaxExits = 1
INVARIANTS
  TypeOK
  NoOrphanTransient
  ExclusiveDriver
  CountsMatchOpens
  FaultsAccounted
PROPERTIES
  MovementsEndConfirmed
  ImplementsLiveMachine
\* every gate may reach the bound of openings
CHECK_DEADLOCK FALSE
