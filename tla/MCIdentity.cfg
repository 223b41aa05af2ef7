SPECIFICATION Spec
CONSTANTS
    Programs = {p1, p2, p3, p4}
    NoKey = NoKey
SYMMETRY Symmetry
INVARIANTS
    TypeOK
    OneIdentity
PROPERTIES
    KeyIsKept
CHECK_DEADLOCK FALSE
