SPECIFICATION Spec
CONSTANTS
  c1 = c1
  c2 = c2
  c3 = c3
  NoCmd = NoCmd
  Cmds = {c1, c2, c3}
  RingSize = 2
  U32 = 4
  MaxBatch = 3
  Apis <- Sound
  Fences = {TRUE, FALSE}
  Faults = TRUE
INVARIANT LedgerExact
PROPERTY DrainReturns
