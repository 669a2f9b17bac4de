CONSTANTS
  KeySize = 3
  DeltaSize = 1
  MaxBytes = 6
  MaxSpan = 2
  MaxUnits = 3
  MaxFaults = 2
SPECIFICATION FairSpec
INVARIANTS
  TypeOK
  BacklogContiguous
  BytesExact
  StreamDecodable
  NoSilentJump
  EndAfterAll
PROPERTIES
  OnlySeenIsFreed
  EventuallyDelivered
  Delivers
