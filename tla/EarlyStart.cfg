CONSTANTS
    None = None
    yes = yes
    r1 = r1
    r2 = r2
    N = 3
    Task <- MCTask
    Ticket = {r1, r2}
    Answer = {yes}
    MaxConcurrent = 1
    Plans <- TriplePlans
    Operations = {"start_early", "cancel", "merge"}
    Steered = {1}
    MaxEpoch = 1
    MaxCards = 0
    MaxCrashes = 0
SPECIFICATION Spec
INVARIANTS
    SameTicketApart
    SomeoneGoesFirst
PROPERTIES
    TicketOrderKept
    ReleasedAsShown
CHECK_DEADLOCK FALSE
