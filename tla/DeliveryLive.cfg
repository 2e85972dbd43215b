CONSTANTS
    None = None
    c1 = c1
    c2 = c2
    Change <- MCChange
    MaxRound = 1
    Bounds <- Crashes
    MaxEvents = 1
    Faults = {"query", "push", "contract", "kernel", "artifacts", "stop"}
    Outcomes = {"success", "failed", "mixed"}
SPECIFICATION FairSpec
INVARIANT
    OneTriggerPerCommit
PROPERTIES
    Settles
    MergeEndsIt
CHECK_DEADLOCK FALSE
