\* The heavy file has no statistics; nothing hangs.
SPECIFICATION Spec
CONSTANTS
  heavy = heavy  light = light
  Files = {heavy, light}
  Whole <- TakesWhole
  Measured = {light}
  Piece = 1
  Median = 1
  Threshold = 1
  Bound = 2
  Grace = 1
  Cap = 6
  Procs = 2
  Attempts = 2
  MaxHangs = 0
  KillMayFail = FALSE
  None = None
INVARIANT OnlyHungAreKilled
CHECK_DEADLOCK FALSE
