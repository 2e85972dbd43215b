CONSTANTS
    None = None
    c1 = c1
    c2 = c2
    o = o
    Chains = {c1, c2}
    Others = {o}
    CloudRunner = TRUE
    ContinuousReview = FALSE
    MaxSha = 1
    MaxStarts = 2
    MaxEpoch = 1
    MaxRestarts = 0
    Requests = {"cancel", "stop", "interrupt", "skip"}
    Shas <- MCShas
    Fingerprints <- MCShas
SPECIFICATION Spec
INVARIANTS
    SlotSound
PROPERTIES
    RoundsClose
    StopsReturn
CHECK_DEADLOCK FALSE
