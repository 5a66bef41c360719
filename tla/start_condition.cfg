SPECIFICATION Spec
CONSTANTS
    NumTurns = 2
    Closing = {1, 2}
    Component = {}
    FactChecksPerTurn = 1
    DebateId = debate
    Run = {r1, r2}
    Concurrency = 2
    RestCaller = {u1}
    EndedHook = ended
    None = none
    MaxAttempts <- MCOneAttempt
    RestOps = {}
    LongCooldown = FALSE
    MaxRequests = 0
    MaxBlank = 0
    MaxTimeouts = 0
    MaxFaults = 0
SYMMETRY MCRunSymmetry
PROPERTIES
    JudgeStartsComplete
CHECK_DEADLOCK FALSE
