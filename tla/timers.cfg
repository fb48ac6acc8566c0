SPECIFICATION FairSpec
CONSTANTS
  TimerIds = {t1, t2}
  U32 = 18
  Slack = 1
  Starts = {16}
  Millis = {1, 3}
  Rewinds = {2}
  MaxWork = 1
  MaxLate = 3
  MaxCalls = 3
INVARIANTS ListHolds NotEarly SleepsRight
PROPERTIES Fires
CHECK_DEADLOCK FALSE
