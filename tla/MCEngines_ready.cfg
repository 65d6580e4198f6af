SPECIFICATION MCSpec
CONSTANTS
    View = {w1}
    Chunks = 2
    MaxDownloads = 2
    Caller = {c1, c2}
    Provider = {openAI, grok}
    Key = {"", "padded"}
    NoProvider = NoProvider
    MaxEdits = 3
    MaxLaunches = 2
CHECK_DEADLOCK FALSE
INVARIANT ReadyMeansIntact
