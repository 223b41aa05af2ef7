SPECIFICATION Spec
CONSTANTS
    NoFile = NoFile
    Peers = {p1, p2}
    Downloads = {d1, d2}
    TrueSize = 2
    ZeroCells = {1}
    Sizes = {1, 2}
    SubChunk = 1
    MinChunk = 1
    MaxPeers = 2
    Threshold = 2
    Excess = 0
SYMMETRY Symmetry
INVARIANTS
    CompleteIsStored
    HalfWrittenHasOwner
    OffencesAnswered
PROPERTIES
    KeepsPromise
CHECK_DEADLOCK FALSE
