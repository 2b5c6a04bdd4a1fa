SPECIFICATION FairSpec
CONSTANTS
    t1 = t1
    t2 = t2
    t3 = t3
    Tasks <- ThreeTasks
    Workflows <- Mixed
    MaxFailures = 3
INVARIANTS
    SettledIsQuiet
    CompletedMeansDone
PROPERTIES
    StartsInOrder
    WorkflowEnds
CHECK_DEADLOCK FALSE
