CONSTANTS
    None = None
    c1 = c1
    c2 = c2
    Change <- MCChange
    MaxRound = 1
    Bounds <- All
    MaxEvents = 1
    Faults = {"query", "artifacts"}
    Outcomes = {"success", "failed"}
SPECIFICATION Spec
SYMMETRY Symmetry
PROPERTIES
    VerifiedBeforeMergeWait
    CompletedTruly
    RepairsAreEarned
    
CHECK_DEADLOCK FALSE
