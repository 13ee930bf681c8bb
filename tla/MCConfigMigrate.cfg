SPECIFICATION Spec
CONSTANTS
    MaxCuts = 3
    Settable = {"attenuation"}
INVARIANTS
    OldSettingsKept
    NetworkSurvives
    LayoutsAgree
    SettledSettingsHold
CHECK_DEADLOCK FALSE
