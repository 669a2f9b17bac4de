CONSTANTS
  Tabs = {t1}
  Sockets = {s1}
  Window = 1
  MaxEpoch = 3
  MaxSeq = 2
  Faults = {}
  MaxFaults = 0
SPECIFICATION FairSpec
PROPERTY WindowReleased
CHECK_DEADLOCK FALSE
