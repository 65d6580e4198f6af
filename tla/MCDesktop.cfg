CONSTANTS
    f1 = f1
    r1 = r1
    c1 = c1
    c2 = c2
    File = {f1}
    RequestId = {r1}
    Task <- MCTask
    HostResult <- MCHostResult
    Call = {c1, c2}
    Thresholds = {0, 1}
    Highest = 1
    MaxStarts = 2
    MaxApprovals = 1
    MaxSpent = 3
    Command <- MCCommand
    Catalog <- MCCatalog
    Binding <- MCBinding
    PipeSize = 1
    MaxOutput = 3
    MaxCapture = 2
    TimeLimit = 1
    MaxCommands = 2
    SensitivityRule = {1, 2, 3}
    LevelOf <- MCLevelOf
    NeverSendRule = {1}
    PayloadLength = 5
    PlaceholderLength = 2
    MaxFindings = 3
    Entry <- MCEntry
    Workspace = {"w1", "w2"}
    BasesOf <- MCBasesOf
    Blocked = {"secret"}
    Credentials = {"secret"}
    Contents = {"text", "long text"}
    TooLarge = {"long text"}
    Disks <- MCDisks
    MaxCalls = 3
SPECIFICATION Spec
INVARIANTS TypeOK OverspendingIsAlerted PlansAreGrounded MaskIsExact MovesLoseNothing
PROPERTIES CommandsSettle OnlyReachableChanges
CHECK_DEADLOCK FALSE
