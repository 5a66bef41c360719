SPECIFICATION FairSpec
CONSTANTS
    NumTurns = 2
    Closing = {2}
    Component = {c1}
    FactChecksPerTurn = 1
    DebateId = debate
    Run = {r1, r2}
    Concurrency = 2
    RestCaller = {u1}
    EndedHook = ended
    None = none
    MaxAttempts <- MCOneAttempt
    RestOps = {}
    LongCooldown = FALSE
    MaxRequests = 0
    MaxBlank = 1
    MaxTimeouts = 0
    MaxFaults = 0
INVARIANTS
    FinishedIsPursued
PROPERTIES
    EndedDebateSettles
CHECK_DEADLOCK FALSE
