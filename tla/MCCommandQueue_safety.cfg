SPECIFICATION Spec
CONSTANTS
    c1 = c1
    c2 = c2
    c3 = c3
    Cmds <- ThreeCmds
    MaxQueueSize = 2
    MaxCommandRetries = 2
    MaxRecoveryAttempts = 1
    MaxSnapshots = 0
    Flushes = FALSE
    MaxQueues = 2
    MaxCopies = 0
    MaxChannels = 2
SYMMETRY CmdSymmetry
INVARIANTS
    TypeOK
    NoCommandLost
    OnlyHeadInFlight
    SendsBounded
    ResolvedWasSent
    NoWakeupLost
    QueueBound
PROPERTIES
    DropsOwnCommand
CHECK_DEADLOCK FALSE
