CONSTANTS
    None = None
    Notice = {n1}
    Issue <- MCIssue
    MaxTurns = 1
    NudgeBudget = 1
    MaxNotices = 1
    MaxFaults = 1
    Steered = {2}
    Operations = {"nudge", "decide", "gate", "notice", "review", "reply", "takeover", "merge", "revive", "cancel"}
SPECIFICATION FairSpec
INVARIANTS
    TurnsAccounted
    NoticesKept
CHECK_DEADLOCK FALSE
PROPERTIES
    TurnsEnd
    
