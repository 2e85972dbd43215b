CONSTANTS
    None = None
    yes = yes
    r1 = r1
    r2 = r2
    N = 2
    Task <- MCTask
    Ticket = {r1, r2}
    Answer = {yes}
    MaxConcurrent = 1
    Plans <- PairPlans
    Operations = {"pause", "decide"}
    Steered = {1}
    MaxEpoch = 0
    MaxCards = 1
    MaxCrashes = 1
SPECIFICATION FairSpec
PROPERTIES
    QueuedStarts
    PauseReturns
    AnswerHeard
CHECK_DEADLOCK FALSE
