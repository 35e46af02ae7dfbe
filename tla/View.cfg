SPECIFICATION FairSpec
CONSTANTS
    Addr = {a1, a2}
    MaxPresses = 2
    MaxUnheard = 1
    MayStop = TRUE
INVARIANTS
    TypeOK
    HearsItsOwn
    ActsOnWhatIsDrawn
    DrawnInTheEnd
PROPERTY
    SheetsAnswered
CHECK_DEADLOCK FALSE
