SPECIFICATION Spec
CONSTANTS
  Cells = {py313, py314}
  None = None
  Deleted = Deleted
  Foreign = Foreign
  MaxAttempts = 2
  MaxReplaced = 1
SYMMETRY CellSymmetry
CHECK_DEADLOCK FALSE
INVARIANTS
  TypeOK
  SignedWasBuilt
  ReleasedWasValidated
  ReportedIsServed
  WholeSetOrNothing
