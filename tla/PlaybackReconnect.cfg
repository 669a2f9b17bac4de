CONSTANTS
  Tabs = {t1}
  Sockets = {s1}
  Window = 6
  MaxEpoch = 2
  MaxSeq = 3
  Faults = {"lost"}
  MaxFaults = 1
SPECIFICATION FairSpec
PROPERTY EventuallyPainted
CHECK_DEADLOCK FALSE
