CONSTANTS
    s1 = s1
    s2 = s2
    Sessions <- OneSession
    Profiles <- AllProfiles
    MaxSessions = 1
    MaxAttempts = 3
    MaxChunks = 3
    MaxInputs = 2
SPECIFICATION Spec
INVARIANT CallLeavesNoProcess
CHECK_DEADLOCK FALSE
