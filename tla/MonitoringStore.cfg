SPECIFICATION FairSpec
CONSTANTS
    SensorOrder <- OneOrder
    Defaults <- OneDefault
    Draws <- OneDraw
    Anomalies <- OneAnomaly
    Thresholds <- OneThreshold
    Commands = {"ACK", "CLEAR", "CHECK", "UPDATE"}
    MaxUpdates = 2
    MaxAlarms = 2
INVARIANTS
    TypeOK
    AlarmIdsOrdered
    CountersAgree
    ClearReplyHonest
    NoWriteAfterUnmap
    UpdatesCounted
PROPERTIES
    ShutdownCompletes
    CommandCompletes
    AlarmsLeaveAcknowledged
    EveryStepNears
    ImplementsAlarmLog
CHECK_DEADLOCK FALSE
