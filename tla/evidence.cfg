SPECIFICATION Spec
CONSTANTS
    RoundsDown <- MCRoundsDown
    NumTurns = 2
    Closing = {2}
    Id = {c1, c2, c3}
    Ref = {n1, n2}
    FactChecksPerTurn = 1
    Opinion <- MCOpinion
    Attempt = {a1, a2}
    DebateId = debate
    None = none
    MaxAttempts <- MCMaxAttempts
    MaxComponents = 2
    MaxRelations = 1
    MaxFaults = 1
SYMMETRY MCSymmetry
INVARIANTS
    TypeOK
    RelationsPointBack
    OneReplyPerTurn
    FlaggedIsScheduled
    ChecksAreKept
    JudgeReadsWhole
    VerdictIsFair
CHECK_DEADLOCK FALSE
