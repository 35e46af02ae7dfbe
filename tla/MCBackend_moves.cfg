SPECIFICATION FairSpec
CONSTANTS
    Addr = {a1, a2}
    Buttons = {"selectAccount", "stage", "publish"}
    Patient = {"stage"}
    MaxCalls = 3
    MaxFaults = 0
INVARIANTS
    SaidOfSelected
    StatusSettles
PROPERTY
    CallsSettle
CHECK_DEADLOCK FALSE
