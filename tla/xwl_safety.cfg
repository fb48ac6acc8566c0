SPECIFICATION Spec
CONSTANTS
  MaxRequests = 3
  MaxAhead = 2
  Pixmaps = {p1, p2}
  Setups <- SafetySetups
SYMMETRY PixmapSymmetry
INVARIANTS TypeOK NoDangling AssertionsHold FlipsInTurn HookedHasWindow ReportedOnce IdleAwaitsRelease AccountedFor
CHECK_DEADLOCK FALSE
