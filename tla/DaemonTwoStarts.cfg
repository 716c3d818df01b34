SPECIFICATION Spec
CONSTANTS
    MaxCalls = 2
    Invocations = {{"start"}}
    Serial = TRUE
    PollLimit = 2
    MayCrash = FALSE
    MayFail = FALSE
INVARIANTS
    AtMostOneDaemon
CHECK_DEADLOCK FALSE
