SPECIFICATION Spec
CONSTANTS
  Alarms = {a1}
  Awaits = {w1}
  Values = {0, 1, 2}
  Deltas <- SmallDeltas
  MaxInt = 4
  MaxTime = 3
  Setups <- PassSetups
INVARIANTS Served BracketsCover WakesInTime
PROPERTIES NotSpurious
CHECK_DEADLOCK FALSE
