SPECIFICATION Spec
CONSTANTS
    c1 = c1
    c2 = c2
    c3 = c3
    NoCmd = NoCmd
    Tracked = FALSE
    KeepLasts = {1}
    Cmds <- TwoCmds
INVARIANT PromptCompletes
CHECK_DEADLOCK FALSE
