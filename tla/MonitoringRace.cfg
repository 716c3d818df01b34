SPECIFICATION Spec
CONSTANTS
    SensorOrder <- EveryOrder
    Defaults <- EveryDefault
    Draws <- EveryDraw
    Anomalies <- EveryAnomaly
    Thresholds <- OneThreshold
    Commands = {"UPDATE", "CHECK"}
    MaxUpdates = 1
    MaxAlarms = 1
INVARIANTS
    AlarmJustified
CHECK_DEADLOCK FALSE
