CONSTANTS
    None = None
    yes = yes
    r1 = r1
    r2 = r2
    N = 2
    Task <- MCTask
    Ticket = {r1, r2}
    Answer = {yes}
    MaxConcurrent = 1
    Plans <- ChainPlans
    Operations = {"pause", "resume", "cancel", "retry", "decide", "interrupt"}
    Steered = {1}
    MaxEpoch = 2
    MaxCards = 2
    MaxCrashes = 1
SPECIFICATION Spec
INVARIANTS
    OneExecutor
    NoStraySession
PROPERTIES
    
    AnsweredOnce
CHECK_DEADLOCK FALSE
