CONSTANTS
  Policies = {"latest", "queue"}
  QueueSize = 2
  Attempts = 2
  MaxEpoch = 2
  MaxSeq = 4
  MaxFaults = 2
SPECIFICATION Spec
INVARIANTS
  TypeOK
  OnlyCurrentResults
  NoneForgotten
PROPERTIES
  OneResult
  InferenceInOrder
  EventuallyResult
CHECK_DEADLOCK FALSE
