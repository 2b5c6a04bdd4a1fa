CONSTANTS
    s1 = s1
    s2 = s2
    Sessions <- TwoSessions
    Profiles <- TwoProfiles
    MaxSessions = 1
    MaxAttempts = 2
    MaxChunks = 1
    MaxInputs = 1
SPECIFICATION Spec
INVARIANTS
    BufferIsWhole
    AnswerIsWhole
    ProcessIsReachable
PROPERTIES
    InputReachesProcess
    CallsEnd
    ImplementsCallService
CHECK_DEADLOCK FALSE
