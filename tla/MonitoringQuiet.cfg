SPECIFICATION Spec
CONSTANTS
    SensorOrder <- EveryOrder
    Defaults <- EveryDefault
    Draws <- EveryDraw
    Anomalies <- EveryAnomaly
    Thresholds <- OneThreshold
    Commands = {"SERVICE", "CONFIG", "ALARMS", "ACK"}
    MaxUpdates = 2
    MaxAlarms = 2
INVARIANTS
    AlarmJustified
    PublishedCoherent
CHECK_DEADLOCK FALSE
