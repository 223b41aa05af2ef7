SPECIFICATION ReceiveFairSpec
CONSTANTS
    NoFile = NoFile
    Peers = {p1}
    Downloads = {d1, d2}
    TrueSize = 2
    ZeroCells = {1}
    Sizes = {2}
    SubChunk = 2
    MinChunk = 1
    MaxPeers = 1
    Threshold = 2
    Excess = 0
INVARIANTS
    SavedIsRequested
PROPERTIES
    ReceiveEnds
CHECK_DEADLOCK FALSE
