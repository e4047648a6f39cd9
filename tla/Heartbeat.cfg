\* Two heartbeat requests, the poller, the sweep and the controller on one gate.
SPECIFICATION Spec
CONSTANTS
  Gates = {g1}
  Registered = {g1}
  Handlers = {h1, h2}
  Timeout = 0
  MaxTime = 2
SYMMETRY Symmetry
INVARIANT TypeOK
PROPERTIES
  ImplementsPresence
  NewestReportWins
