SPECIFICATION Spec
CONSTANTS
    NumTurns = 2
    Closing = {2}
    Component = {}
    FactChecksPerTurn = 1
    DebateId = debate
    Run = {r1, r2}
    Concurrency = 2
    RestCaller = {u1}
    EndedHook = ended
    None = none
    MaxAttempts <- MCJudgeRetries
    RestOps = {"judging", "judge"}
    LongCooldown = FALSE
    MaxRequests = 1
    MaxBlank = 1
    MaxTimeouts = 1
    MaxFaults = 0
SYMMETRY MCRunSymmetry
INVARIANTS
    TypeOK
    AttemptBudget
    WaitingIsQueued
PROPERTIES
    LifecycleImplemented
CHECK_DEADLOCK FALSE
