\* One handler, nothing fails.
SPECIFICATION Spec
CONSTANTS
  Tickets = {t1}
  Seeds = {t1}
  Swipers = {d1}
  WriteFaults = FALSE
PROPERTY UsedStaysUsed
