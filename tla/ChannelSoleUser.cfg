SPECIFICATION FairSpec
CONSTANTS
    c1 = c1
    Clients = {c1}
    MaxServers = 2
    Overlap = FALSE
    MaxCommands = 3
    MaxAttempts = 2
    ClientTimeout = 3
    IdleLimit = 5
    Prompt = TRUE
    MayCrash = TRUE
    MayInterrupt = FALSE
INVARIANTS
    TypeOK
    ReplyIsOwn
    AnsweredInTime
    CopiesApart
PROPERTIES
    InactivityShutdown
    ClientNeverHangs
    EveryStepNears
    ImplementsService
CHECK_DEADLOCK FALSE
