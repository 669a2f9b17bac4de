CONSTANTS
  Policies = {"latest", "queue"}
  QueueSize = 1
  Attempts = 1
  MaxEpoch = 2
  MaxSeq = 1
  MaxFaults = 0
SPECIFICATION Spec
INVARIANT FaultIsCurrent
CHECK_DEADLOCK FALSE
