SPECIFICATION Spec
CONSTANTS
    c1 = c1
    c2 = c2
    c3 = c3
    Cmds <- TwoCmds
    MaxQueueSize = 2
    MaxCommandRetries = 2
    MaxRecoveryAttempts = 1
    MaxSnapshots = 0
    Flushes = TRUE
    MaxQueues = 1
    MaxCopies = 0
    MaxChannels = 2
SYMMETRY CmdSymmetry
INVARIANTS
    NoCommandLost
CHECK_DEADLOCK FALSE
