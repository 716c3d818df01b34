SPECIFICATION Spec
CONSTANTS
    MaxCalls = 1
    Invocations = {{"start"}}
    Serial = TRUE
    PollLimit = 2
    MayCrash = FALSE
    MayFail = FALSE
INVARIANTS
    LeavesWhenAsked
CHECK_DEADLOCK FALSE
