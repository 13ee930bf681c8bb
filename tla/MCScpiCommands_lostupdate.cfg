SPECIFICATION Spec
CONSTANTS
    Clients = {"c1", "c2"}
    Allowed <- SameChannel
    DacMax = 3
    DacFound = TRUE
INVARIANTS
    SettingsHold
CHECK_DEADLOCK FALSE
