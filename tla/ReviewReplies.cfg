CONSTANTS
    None = None
    d1 = d1
    d2 = d2
    Discussions = {d1, d2}
    MaxSha = 2
    MaxLines = 5
    MaxFaults = 1
SPECIFICATION Spec
SYMMETRY Symmetry
INVARIANTS
    LogReadable
    RepliedTruly
PROPERTIES
    KeepsPromise
    SentFromLog
    DraftKept
CHECK_DEADLOCK FALSE
