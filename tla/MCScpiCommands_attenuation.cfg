SPECIFICATION Spec
CONSTANTS
    Clients = {"c1", "c2"}
    Allowed <- TwoAttenuations
    DacMax = 3
    DacFound = TRUE
INVARIANTS
    AttenuationIsReported
CHECK_DEADLOCK FALSE
