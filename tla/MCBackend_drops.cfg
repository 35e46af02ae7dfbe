SPECIFICATION Spec
CONSTANTS
    Addr = {a1, a2}
    Buttons = {"stage", "refresh", "selectAccount", "importAccount"}
    Patient = {"stage", "refresh"}
    MaxCalls = 4
    MaxFaults = 0
SYMMETRY Symmetry
PROPERTY
    DropsAreSaid
CHECK_DEADLOCK FALSE
