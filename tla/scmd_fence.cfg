SPECIFICATION FairSpec
CONSTANTS
  w1 = w1
  w2 = w2
  Windows = {w1, w2}
  NoWin = NoWin
  Root = Root
  MaxRequests = 3
  MaxAhead = 1
  Setups <- Hang
PROPERTIES HandlersReturn
CHECK_DEADLOCK FALSE
