SPECIFICATION TempSpec
CONSTANTS
    Clients = {"c1"}
    Allowed <- Operating
    DacMax = 3
    DacFound = TRUE
    Temps = {0}
    SensorsFound = TRUE
    Codes = 7
    FloatMax = 99
INVARIANTS
    HeaterIsSet
CHECK_DEADLOCK FALSE
