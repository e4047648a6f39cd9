\* Two gates whose entries are set and replaced while swipes open them and the clock runs.
SPECIFICATION FairSpec
CONSTANTS
  Gates = {g1, g2}
  MaxTime = 2
  MaxAdds = 2
INVARIANT TypeOK
PROPERTIES
  MovesWhenDue
  DueGateCloses
  DueGateOpens
