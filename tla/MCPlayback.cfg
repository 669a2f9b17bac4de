CONSTANTS
  Tabs = {t1}
  Sockets = {s1, s2}
  Window = 0
  MaxEpoch = 2
  MaxSeq = 2
  Faults = {"lost"}
  MaxFaults = 2
SPECIFICATION Spec
INVARIANTS
  TypeOK
  SlotHasOwner
PROPERTIES
  UnseenKept
SYMMETRY SocketSymmetry
CHECK_DEADLOCK FALSE
