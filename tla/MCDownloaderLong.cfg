SPECIFICATION Spec
CONSTANTS
    NoFile = NoFile
    Peers = {p1, p2}
    Downloads = {d1}
    TrueSize = 2
    ZeroCells = {1}
    Sizes = {2}
    SubChunk = 1
    MinChunk = 1
    MaxPeers = 2
    Threshold = 2
    Excess = 1
INVARIANTS
    NoSharedBytes
CHECK_DEADLOCK FALSE
