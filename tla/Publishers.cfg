CONSTANTS
    MaxPeers = 2
    MaxRestarts = 1
SPECIFICATION Spec
INVARIANTS TypeOK DoneClosedOnce WrongHasCause FeedFollows
PROPERTIES OnlyGoneIsRemoved GoneIsRemoved
CHECK_DEADLOCK FALSE
