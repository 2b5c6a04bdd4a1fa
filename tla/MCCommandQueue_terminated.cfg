SPECIFICATION Spec
CONSTANTS
    c1 = c1
    c2 = c2
    c3 = c3
    Cmds <- TwoCmds
    MaxQueueSize = 2
    MaxCommandRetries = 2
    MaxRecoveryAttempts = 1
    MaxSnapshots = 2
    Flushes = FALSE
    MaxQueues = 2
    MaxCopies = 1
    MaxChannels = 2
SYMMETRY CmdSymmetry
PROPERTIES
    TerminatedNotSent
CHECK_DEADLOCK FALSE
