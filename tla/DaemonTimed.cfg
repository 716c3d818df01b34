SPECIFICATION TimedSpec
CONSTANTS
    MaxCalls = 3
    Invocations = {{"start"}, {"stop"}, {"status"}, {"start", "stop"}, {"status", "help"}, {"?"}, {}}
    Serial = TRUE
    PollLimit = 5
    MayCrash = TRUE
    MayFail = TRUE
    StartupDelay = 1
    IdleLimit = 6
    WaitSeconds = 2
    DefaultInterval = 2
    Intervals = {2, 6}
    LongestNap = 6
INVARIANTS
    TimedTypeOK
    AtMostOneDaemon
    PidFileNamesDaemon
    ServerReachable
    KilledOnlyWhenLate
    EndsInTime
PROPERTIES
    AnswersAreTrue
CHECK_DEADLOCK FALSE
