SPECIFICATION Spec
CONSTANTS
    MaxCuts = 0
    Settable = {"ip"}
INVARIANTS
    ConsoleSettingsHold
CHECK_DEADLOCK FALSE
