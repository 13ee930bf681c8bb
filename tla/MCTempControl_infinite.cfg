SPECIFICATION TempSpec
CONSTANTS
    Clients = {"c1"}
    Allowed <- Infinite
    DacMax = 3
    DacFound = TRUE
    Temps = {1, 3}
    SensorsFound = TRUE
    Codes = 7
    FloatMax = 99
INVARIANT
    OutputsInRange
CHECK_DEADLOCK FALSE
