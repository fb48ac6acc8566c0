SPECIFICATION FairSpec
CONSTANTS
  MaxRequests = 2
  MaxAhead = 1
  Pixmaps = {p1, p2}
  Setups <- LiveSetups
PROPERTIES Completes CopyCompletesLater
CHECK_DEADLOCK FALSE
