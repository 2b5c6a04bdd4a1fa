SPECIFICATION FairSpec
CONSTANTS
    t1 = t1
    t2 = t2
    t3 = t3
    t4 = t4
    Tasks <- TwoTasks
    NoTask = NoTask
    Hooked <- NoneHooked
    MaxWorkers = 1
    MaxFailures = 1
INVARIANTS
    WorkersBounded
CHECK_DEADLOCK FALSE
