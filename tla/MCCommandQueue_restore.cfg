SPECIFICATION Spec
CONSTANTS
    c1 = c1
    c2 = c2
    c3 = c3
    Cmds <- OneCmd
    MaxQueueSize = 2
    MaxCommandRetries = 2
    MaxRecoveryAttempts = 1
    MaxSnapshots = 1
    Flushes = TRUE
    MaxQueues = 2
    MaxCopies = 2
    MaxChannels = 2
SYMMETRY CmdSymmetry
INVARIANTS
    ResolvedWasSent
CONSTRAINT FewOutstanding
CHECK_DEADLOCK FALSE
