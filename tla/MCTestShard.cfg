\* Costs of both files are measured.  Two processes at a time, two attempts,
\* two hangs; taskkill may fail.
SPECIFICATION FairSpec
CONSTANTS
  heavy = heavy  light = light
  Files = {heavy, light}
  Whole <- TakesWhole
  Measured = {heavy, light}
  Piece = 1
  Median = 1
  Threshold = 1
  Bound = 2
  Grace = 1
  Cap = 6
  Procs = 2
  Attempts = 2
  MaxHangs = 2
  KillMayFail = TRUE
  None = None
INVARIANTS TypeOK GreenMeansPassed OnlyHungAreKilled HangCostsItsFile NoneOutlivesItsBound
PROPERTIES OnlyStarvedLeaveWorkers ShardEnds
CHECK_DEADLOCK FALSE
