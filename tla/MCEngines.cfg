SPECIFICATION MCSpec
CONSTANTS
    View = {w1, w2}
    Chunks = 2
    MaxDownloads = 2
    Caller = {c1, c2}
    Provider = {openAI, grok}
    Key = {"", "blank", "padded", "key"}
    NoProvider = NoProvider
    MaxEdits = 4
    MaxLaunches = 2
CHECK_DEADLOCK FALSE
INVARIANTS
    TypeOK
    ReadyIsEnsured
    OneLocalEngine
    SlotIsChosen
PROPERTY
    SetupSettles
