SPECIFICATION Spec
CONSTANTS
    Lines <- MCLines
    Values <- MCValues
    TempDraws <- MCTempDraws
    PowerDraws <- MCPowerDraws
    InputDraws <- MCInputDraws
INVARIANTS
    FrequencyOnStep
