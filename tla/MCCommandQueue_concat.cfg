SPECIFICATION Spec
CONSTANTS
    c1 = c1
    c2 = c2
    c3 = c3
    Cmds <- TwoCmds
    MaxQueueSize = 2
    MaxCommandRetries = 2
    MaxRecoveryAttempts = 1
    MaxSnapshots = 0
    Flushes = FALSE
    MaxQueues = 1
    MaxCopies = 0
    MaxChannels = 2
SYMMETRY CmdSymmetry
PROPERTIES
    NoConcatenation
CHECK_DEADLOCK FALSE
