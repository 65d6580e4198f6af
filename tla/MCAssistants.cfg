SPECIFICATION MCSpec
CONSTANTS
    Inside = {notes, report}
    Outside = {abroad}
    Document = {notes, report}
    MaxSteps = 4
    RecentMax = 2
    MaxQueries = 1
    NoPath = NoPath
    Caller = {a, b}
    File = {f}
    MaxFacts = 3
    CompactKeep = 2
    MaxCalls = 2
    Hits = Hits
CHECK_DEADLOCK FALSE
INVARIANTS
    TypeOK
    RecentAreLatest
    FactsAreKept
PROPERTY
    QueryEnds
