\* One heartbeat request at a time; a report is overdue after two seconds.
SPECIFICATION FairSpec
CONSTANTS
  Gates = {g1}
  Registered = {g1}
  Handlers = {h1}
  Timeout = 1
  MaxTime = 3
PROPERTY SilentGateAlarmed
