SPECIFICATION Spec
CONSTANTS
    c1 = c1
    Clients = {c1}
    MaxServers = 1
    Overlap = FALSE
    MaxCommands = 2
    MaxAttempts = 2
    ClientTimeout = 3
    IdleLimit = 5
    Prompt = TRUE
    MayCrash = FALSE
    MayInterrupt = TRUE
INVARIANTS
    ReplyIsOwn
CHECK_DEADLOCK FALSE
