SPECIFICATION Spec
CONSTANTS
    Proc = {p1, p2}
    Addr = {a}
INVARIANTS
    FilesAreWhatTheySay
