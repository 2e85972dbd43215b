CONSTANTS
    None = None
    c1 = c1
    c2 = c2
    o = o
    Chains = {c1, c2}
    Others = {}
    CloudRunner = TRUE
    ContinuousReview = TRUE
    MaxSha = 2
    MaxStarts = 2
    MaxEpoch = 2
    MaxRestarts = 1
    Requests = {"retry", "pause", "cancel"}
    Shas <- MCShas
    Fingerprints <- MCShas
SPECIFICATION Spec
SYMMETRY Symmetry
INVARIANTS
    HandoverJustified
PROPERTIES
    Endorses
CHECK_DEADLOCK FALSE
