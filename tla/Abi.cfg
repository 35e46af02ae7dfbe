SPECIFICATION FairSpec
CONSTANTS
    Addr = {a}
    Thread = {t1, t2}
    NoThread = nobody
    MaxLog = 2
    MaxLate = 1
INVARIANTS
    TypeOK
    HandleOutlivesCalls
    TornNeverRead
    NoSecretLeft
    SeenIsServed
PROPERTIES
    ClearOnlyIfAsked
    ReadShowsTheStore
    PublishedIsShown
    ClosesInTheEnd
CHECK_DEADLOCK FALSE
