SPECIFICATION Spec
CONSTANTS
    c1 = c1
    c2 = c2
    Clients = {c1, c2}
    MaxServers = 2
    Overlap = TRUE
    MaxCommands = 1
    MaxAttempts = 1
    ClientTimeout = 1
    IdleLimit = 1
    Prompt = TRUE
    MayCrash = TRUE
    MayInterrupt = TRUE
INVARIANTS
    RepliesMatchCommands
    RepliesAreReal
SYMMETRY Symmetry
CHECK_DEADLOCK FALSE
