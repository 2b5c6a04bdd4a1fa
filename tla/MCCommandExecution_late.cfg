SPECIFICATION Spec
CONSTANTS
    c1 = c1
    c2 = c2
    c3 = c3
    NoCmd = NoCmd
    Tracked = TRUE
    KeepLasts = {1}
    Cmds <- ThreeCmds
INVARIANTS
    OutputIsOwn
    OneCommandExecutes
CHECK_DEADLOCK FALSE
