SPECIFICATION Spec
CONSTANTS
  Alarms = {a1}
  Awaits = {w1}
  Values = {0, 1, 2}
  Deltas <- SmallDeltas
  MaxInt = 4
  MaxTime = 3
  Setups <- RepeatSetups
INVARIANTS SleepsRight
CHECK_DEADLOCK FALSE
