SPECIFICATION Spec
CONSTANTS
    Addr = {a1, a2}
    MaxPresses = 2
    MaxUnheard = 1
    MayStop = FALSE
INVARIANT
    FailureCanBeRetried
CHECK_DEADLOCK FALSE
