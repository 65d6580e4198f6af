SPECIFICATION FairSpec
CONSTANTS
    Session = {s1}
    MaxSteps = 2
CHECK_DEADLOCK FALSE
PROPERTY DeletedRunEnds
