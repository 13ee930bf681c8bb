SPECIFICATION FairStartSpec
CONSTANTS
    Clients = {"c1", "c2", "console"}
    Allowed <- NetworkAtConsole
    DacMax = 3
    DacFound = TRUE
    Consoles = {"console"}
    PowerOn = {31}
    Failing = {"i2c0", "handle"}
    Leases <- OneLease
    Garbage = {66}
INVARIANTS
    SettingsHold AttenuationRestored NetworkAsStored SharedValuesLive
PROPERTIES
    ImplementsCommands ServesInTheEnd
CHECK_DEADLOCK FALSE
