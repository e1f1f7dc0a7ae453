\* Sets of wheels that are signed together or refused, two disturbances.
SPECIFICATION Spec
CONSTANTS
  WheelSets <- MCWheelSets
  Names <- MCNames
  NativeNames = {"a.dll", "b.pyd"}
  RecordNames = {"RECORD"}
  SignedRecords = {"RECORD.jws"}
  UnsafeNames = {"../y"}
  Data <- MCData
  NoArchive = NoArchive
  MaxFaults = 2
INVARIANTS RepackedIsTheWheel AttestedIsSigned OneInterpreter
