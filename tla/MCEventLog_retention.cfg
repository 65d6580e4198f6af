SPECIFICATION Spec
CONSTANTS
    MaxAge = 2
    MaxEntries = 2
    MaxTime = 4
    MaxAppends = 5
    MaxCrashes = 0
CHECK_DEADLOCK FALSE
INVARIANT LoggedEntriesKept
