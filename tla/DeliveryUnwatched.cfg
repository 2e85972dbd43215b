CONSTANTS
    None = None
    c1 = c1
    c2 = c2
    Change <- One
    MaxRound = 1
    Bounds <- Pauses
    MaxEvents = 1
    Faults = {"artifacts"}
    Outcomes = {"failed"}
SPECIFICATION Spec
INVARIANT
    SomebodyWatches
CHECK_DEADLOCK FALSE
