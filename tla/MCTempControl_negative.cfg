SPECIFICATION TempSpec
CONSTANTS
    Clients = {"c1"}
    Allowed <- Negative
    DacMax = 3
    DacFound = TRUE
    Temps = {0}
    SensorsFound = TRUE
    Codes = 7
    FloatMax = 99
INVARIANTS
    OutputsInRange
CHECK_DEADLOCK FALSE
