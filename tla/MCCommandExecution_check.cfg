SPECIFICATION FairSpec
CONSTANTS
    c1 = c1
    c2 = c2
    c3 = c3
    NoCmd = NoCmd
    Tracked = TRUE
    KeepLasts = {1}
    Cmds <- ThreeCmds
INVARIANTS
    BusyForACaller
    PromptCompletes
PROPERTIES
    ForeignOutputIsLate
    CallsEnd
CHECK_DEADLOCK FALSE
