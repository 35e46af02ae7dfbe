SPECIFICATION Spec
CONSTANTS
    Addr = {a}
    Key = {k1}
    Name = {n1}
    Budget = 2
    KeyCost = 1
    NameCost = 1
    RemoveCost = 1
    SharedVault = TRUE
    MaxLate = 1
INVARIANTS
    TypeOK
    PlanApplies
PROPERTIES
    NothingLeftBehind
    DropsReachAnAnswer
CHECK_DEADLOCK FALSE
