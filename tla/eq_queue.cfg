SPECIFICATION FairSpec
CONSTANTS
  Devices = {d1}
  Master = vcp
  NoDevice = NoDevice
  NoEvent = NoEvent
  InitialSize = 2
  MaxBuckets = 4
  MaxEvents = 4
  MaxTime = 0
  Requests <- AllButBarrier
INVARIANTS TypeOK NoStaleDevice
PROPERTIES Implements Uninterrupted Handled
CHECK_DEADLOCK FALSE
