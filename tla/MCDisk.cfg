SPECIFICATION Spec
CONSTANTS
    Addr = {a, b}
    Password = {pw1, pw2}
    Params <- MCParams
    Self = self
SYMMETRY Symmetry
INVARIANTS
    FilesAreWhatTheySay
    NeverHalfAList
    KeyIsTheAccounts
    DerivesWithinBounds
PROPERTY
    NeverLost
