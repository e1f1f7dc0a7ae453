\* Three jobs of any kind on one machine.
SPECIFICATION Spec
CONSTANTS
  MaxJobs = 3
  MaxHolds = 1
INVARIANT OnlyOwnFiles
PROPERTY OnlyKnownLeftovers
