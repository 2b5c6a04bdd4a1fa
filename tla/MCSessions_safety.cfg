SPECIFICATION Spec
CONSTANTS
    s1 = s1
    s2 = s2
    Ids <- TwoIds
    NoId = NoId
    Typings <- Either
    MaxConsole = 2
    MaxSessions = 2
    MaxRecoveryAttempts = 2
    MaxTries = 2
    MaxTimers = 2
    MaxRestarts = 0
    MaxUnsaved = 0
SYMMETRY IdSymmetry
CONSTRAINTS
    ThreeTimers
    OthersAlone
INVARIANTS
    TypeOK
    FailedOnlyWhenExhausted
    RecoveringIsDriven
CHECK_DEADLOCK FALSE
