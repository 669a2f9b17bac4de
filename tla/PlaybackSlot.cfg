CONSTANTS
  Tabs = {t1, t2}
  Sockets = {s1, s2}
  Window = 1
  MaxEpoch = 1
  MaxSeq = 1
  Faults = {}
  MaxFaults = 0
SPECIFICATION Spec
INVARIANT SlotHeld
CHECK_DEADLOCK FALSE
