SPECIFICATION PublishingSpec
CONSTANTS
    Addr = {a}
    Key = {k1, k2}
    Name = {n1}
    Budget = 3
    KeyCost = 1
    NameCost = 1
    RemoveCost = 1
    SharedVault = FALSE
    MaxLate = 1
SYMMETRY Symmetry
INVARIANTS
    PlanNeverRefused
    RecordWithinStore
    TakenWhereSaid
PROPERTIES
    RecordNeverRollsBack
    StagedLeavesOnlyWhenHeld
    ServiceContract
CHECK_DEADLOCK FALSE
