CONSTANTS
  KeySize = 2
  DeltaSize = 1
  MaxBytes = 5
  MaxSpan = 2
  MaxUnits = 2
  MaxFaults = 1
SPECIFICATION Spec
INVARIANTS
  ResumePreserved
