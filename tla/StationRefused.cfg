\* A gate, two tickets, one handler and nothing that fails.
SPECIFICATION Spec
CONSTANTS
  Tickets = {t1, t2}
  Gates = {g1}
  Scheduled = {}
  Handlers = {d1}
  Faults = FALSE
  MaxSwipes = 2
INVARIANT ValidTicketOpens
CHECK_DEADLOCK FALSE
