\* Two files; a failing test of the loud one is tried twice.
SPECIFICATION Spec
CONSTANTS
  loud = loud  quiet = quiet
  Files = {loud, quiet}
  Count <- Counts
  Rounds <- HowOften
  Verbose = {loud}
  Tries <- HowHard
  NoFile = NoFile
  WholeFile = WholeFile
  Unreadable = Unreadable
INVARIANTS TypeOK NothingInvented NoFailureLost EveryRedFileIsNamed CrashIsNotGreen
CHECK_DEADLOCK FALSE
