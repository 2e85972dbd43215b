CONSTANTS
    None = None
    a = a
    b = b
    Comment <- MCComment
    MaxVersion = 2
    MaxEpoch = 2
    MaxCrashes = 1
SPECIFICATION Spec
INVARIANTS
    NotForgotten
    ReceiptsTrue
PROPERTIES
    HandedOnce
    ConfirmedFrozen
    ComesBack
CHECK_DEADLOCK FALSE
