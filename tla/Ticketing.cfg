\* Three concurrent swipes of one ticket, write failures, restarts.
SPECIFICATION Spec
CONSTANTS
  Tickets = {t1}
  Seeds = {}
  Swipers = {d1, d2, d3}
  WriteFaults = TRUE
SYMMETRY Symmetry
INVARIANTS
  TypeOK
  LedgerMatchesHolders
  OneHolder
  NoLockout
  Durable
PROPERTY ImplementsLife
