SPECIFICATION FairSpec
CONSTANTS
    s1 = s1
    s2 = s2
    Ids <- TwoIds
    NoId = NoId
    Typings <- Local
    MaxConsole = 2
    MaxSessions = 1
    MaxRecoveryAttempts = 1
    MaxTries = 1
    MaxTimers = 2
    MaxRestarts = 1
    MaxUnsaved = 1
PROPERTIES
    RestartRestores
    RecoveryEnds
CHECK_DEADLOCK FALSE
