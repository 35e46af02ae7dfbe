SPECIFICATION Spec
CONSTANTS
    Addr = {a1}
    Buttons = {"stage", "publish"}
    Patient = {"stage", "publish"}
    MaxCalls = 4
    MaxFaults = 0
SYMMETRY Symmetry
INVARIANT
    MarksAreOurs
CHECK_DEADLOCK FALSE
