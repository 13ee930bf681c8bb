SPECIFICATION Spec
CONSTANTS
    MaxCuts = 0
    Settable = {"version"}
INVARIANTS
    VersionIsWritten
CHECK_DEADLOCK FALSE
