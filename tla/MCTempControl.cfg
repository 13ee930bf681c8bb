SPECIFICATION FairTempSpec
CONSTANTS
    Clients = {"c1"}
    Allowed <- Operating
    DacMax = 3
    DacFound = TRUE
    Temps = {1, 3}
    SensorsFound = TRUE
    Codes = 7
    FloatMax = 99
INVARIANT
    OutputsInRange
PROPERTIES
    ManualValueArrives
    SetpointTakesEffect
    HotMeansOff
CHECK_DEADLOCK FALSE
