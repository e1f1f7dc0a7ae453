\* Four calls; every one may be killed.
SPECIFICATION RecordSpec
CONSTANTS
  Writers = {w1, w2, w3, w4}
  Nobody = Nobody
SYMMETRY Symmetries
INVARIANTS RecordTypeOK TruthfullyRecorded
PROPERTY OnlyAppended
CHECK_DEADLOCK FALSE
