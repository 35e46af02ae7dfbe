SPECIFICATION Spec
CONSTANTS
    Addr = {a1, a2}
    Buttons = {"refresh", "selectAccount", "createAccount", "importAccount",
               "observeAccount", "unlock", "exportAccount", "forgetAccount", "stopObserving",
               "stage", "retract", "publish", "dismissNotice"}
    Patient = {"createAccount", "importAccount", "observeAccount", "unlock",
               "exportAccount"}
    MaxCalls = 2
    MaxFaults = 1
SYMMETRY Symmetry
INVARIANTS
    TypeOK
    BusyWhileWorking
    SettledScreen
    ReadFailureTold
CHECK_DEADLOCK FALSE
