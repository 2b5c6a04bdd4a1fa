SPECIFICATION FairSpec
CONSTANTS
    t1 = t1
    t2 = t2
    t3 = t3
    t4 = t4
    Tasks <- ThreeTasks
    NoTask = NoTask
    Hooked <- LastHooked
    MaxWorkers = 2
    MaxFailures = 2
INVARIANTS
    NeverShort
PROPERTIES
    ImplementsTaskService
    PostedIsAnswered
    ShutdownEnds
CHECK_DEADLOCK FALSE
