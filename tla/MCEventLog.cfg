SPECIFICATION Spec
CONSTANTS
    MaxAge = 2
    MaxEntries = 2
    MaxTime = 4
    MaxAppends = 5
    MaxCrashes = 2
CHECK_DEADLOCK FALSE
INVARIANTS
    ReadableInOrder
    WithinLimits
    CleanAppendRetains
