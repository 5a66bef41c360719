SPECIFICATION Spec
CONSTANTS
    NumTurns = 2
    Closing = {2}
    Component = {c1}
    FactChecksPerTurn = 1
    DebateId = debate
    Run = {r1}
    Concurrency = 1
    RestCaller = {u1}
    EndedHook = ended
    None = none
    MaxAttempts <- MCOneAttempt
    RestOps = {"retry", "judge"}
    LongCooldown = FALSE
    MaxRequests = 1
    MaxBlank = 1
    MaxTimeouts = 0
    MaxFaults = 1
SYMMETRY MCRunSymmetry
INVARIANTS
    HolderKeepsRow
    SettledOnce
    JudgeOnlyForFinished
    WaitingIsQueued
PROPERTIES
    LifecycleImplemented
CHECK_DEADLOCK FALSE
