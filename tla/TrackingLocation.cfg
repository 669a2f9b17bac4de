\* One bus on a line with a recorded trace.
CONSTANTS
    Buses = {b1}
    Recorded = {b1}
    MaxFixes = 2
    MaxFaults = 0
    Requests = {r1}
    MaxBatches = 2
    Typed = {}
SPECIFICATION Spec
INVARIANTS RecordedWhereObserved
CHECK_DEADLOCK FALSE
