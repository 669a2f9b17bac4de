\* Two buses, two overlapping requests, one fault or edit.
CONSTANTS
    Buses = {b1, b2}
    Recorded = {}
    MaxFixes = 2
    MaxFaults = 1
    Requests = {r1, r2}
    MaxBatches = 2
    Typed = {b1}
SPECIFICATION Spec
INVARIANTS TypeOK MarkMeansKept DuplicateHasCause
PROPERTIES EventuallyRecorded
CHECK_DEADLOCK FALSE
