SPECIFICATION FairSpec
CONSTANTS
    MaxCalls = 3
    Invocations = {{"start"}, {"stop"}, {"status"}, {"start", "stop"}, {"status", "help"}, {"?"}, {}}
    Serial = FALSE
    PollLimit = 1
    MayCrash = TRUE
    MayFail = TRUE
INVARIANTS
    StopMeansStopped
    ResourcesFreed
PROPERTIES
    CallsEnd
    StoppedDaemonEnds
CHECK_DEADLOCK FALSE
