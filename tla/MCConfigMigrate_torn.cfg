SPECIFICATION Spec
CONSTANTS
    MaxCuts = 1
    Settable = {}
INVARIANTS
    UsesNewFormat
CHECK_DEADLOCK FALSE
