SPECIFICATION MCSpec
CONSTANTS
    Request = {r1}
    Root = {d1, d2}
    Command = {"write", "delete", "rename", "move", "run_tests", "format_code", "shell.format", "shell.format_push"}
    Contained <- Words
    Installation <- Installations
    LegacyFile <- LegacyFiles
    Ttl = 1
    MaxTime = 1
    MaxWorkspaceId = 2
SYMMETRY Symmetry
INVARIANTS
    TypeOK
    SingleExecution
    RefusedNeverExecuted
    ChangesAreApproved
    NoLateExecution
    OnlyInWorkspaces
    BlacklistHolds
PROPERTY GateOpensByUserOnly
