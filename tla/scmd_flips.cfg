SPECIFICATION FairSpec
CONSTANTS
  w1 = w1
  w2 = w2
  Windows = {w1, w2}
  NoWin = NoWin
  Root = Root
  MaxRequests = 3
  MaxAhead = 1
  Setups <- AllSetups
INVARIANTS AssertionsHold Linked DrawsToHeld CopiesToScreen NotEarly
PROPERTIES Implements Completes
CHECK_DEADLOCK FALSE
