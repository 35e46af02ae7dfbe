SPECIFICATION FairSpec
CONSTANTS
    Proc = {p1, p2}
    Addr = {a}
INVARIANTS
    TypeOK
    OneSpelling
PROPERTIES
    NeverReplaced
    CallsReturn
