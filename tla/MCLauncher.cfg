SPECIFICATION FairSpec
CONSTANTS
    Session = {s1, s2}
    MaxSteps = 2
CHECK_DEADLOCK FALSE
INVARIANTS
    TypeOK
    ContinuationResumedOnce
    GeneratingWhileLive
    RunsCanBeStopped
PROPERTIES
    StoppedRunSettles
