\* Two cells of two shards, two attempts, one nightly after the start.
SPECIFICATION Spec
CONSTANTS
  Cells = {c1, c2}
  Shards = {s1, s2}
  m1 = m1  m2 = m2
  SourceAt <- Nightlies
  TestEnds = {"success", "failure"}
  Sources = {m1, m2}
  NoSource = NoSource
  Trees <- MCTrees
  NoTree = NoTree
  Tests <- MCTests
  Window = 2
  CallTries = 2
  MaxAttempts = 2
  MaxClock = 3
  MaxFaults = 2
  NoFile = NoFile
  WholeFile = WholeFile
  Unreadable = Unreadable
  Null = Null
  Unmatched = Unmatched
SYMMETRY Symmetries
INVARIANTS HudNotBetter ReportedIsTested GreenRunMeansGreenRows EveryVersionCounts
