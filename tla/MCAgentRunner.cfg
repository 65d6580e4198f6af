SPECIFICATION FairSpec
CONSTANTS
    File = {report, readme}
    RequestId = {req}
    Budgets = {2, 3, 4}
    MaxFiles = 2
INVARIANTS
    TypeOK
    PlaceholdersAreFresh
    AnswerProvenance
    TracesMatchExecution
    AtMostOneToolAfterStop
PROPERTIES
    NothingAfterFailure
    ImplementsAgentTask
    RunSettles
