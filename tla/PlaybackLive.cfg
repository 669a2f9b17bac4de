CONSTANTS
  Tabs = {t1}
  Sockets = {s1}
  Window = 6
  MaxEpoch = 3
  MaxSeq = 2
  Faults = {"jump", "stop", "inference"}
  MaxFaults = 1
SPECIFICATION FairSpec
INVARIANT StreamInOrder
PROPERTY EventuallyPainted
CHECK_DEADLOCK FALSE
