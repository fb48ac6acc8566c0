SPECIFICATION Spec
CONSTANTS
  MaxRequests = 2
  MaxAhead = 1
  Pixmaps = {p1, p2}
  Setups <- Mixes
INVARIANTS FreedWasReported
CHECK_DEADLOCK FALSE
