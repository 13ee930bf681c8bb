SPECIFICATION FairTempSpec
CONSTANTS
    Clients = {"c1"}
    Allowed <- Operating
    DacMax = 3
    DacFound = TRUE
    Temps = {1, 3}
    SensorsFound = FALSE
    Codes = 7
    FloatMax = 99
PROPERTIES
    ManualValueArrives
CHECK_DEADLOCK FALSE
