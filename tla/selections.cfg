SPECIFICATION Spec
CONSTANTS
  a = a
  b = b
  wa = wa
  wb = wb
  None = None
  Clients = {a, b}
  Windows = {wa, wb}
  Creator <- Creators
  Inferiors <- Below
  Masks <- AllMasks
  MayRetain = TRUE
  U32 = 8
  TimeSlop = 1
  MaxLate = 1
  MixedMonths = FALSE
  MaxIdle = 2
  Starts = {6}
  MaxTime = 9
INVARIANTS LastOwnerWins OwnersKnow WatchersKnow NoStaleWatch
CHECK_DEADLOCK FALSE
