SPECIFICATION Spec
CONSTANTS
    NoFile = NoFile
    Peers = {p1}
    Downloads = {d1, d2}
    TrueSize = 2
    ZeroCells = {1}
    Sizes = {1, 2}
    SubChunk = 1
    MinChunk = 2
    MaxPeers = 1
    Threshold = 2
    Excess = 0
INVARIANTS
    CompleteHasFile
CHECK_DEADLOCK FALSE
