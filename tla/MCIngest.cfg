SPECIFICATION IngestSpec
CONSTANTS
    NoFile = NoFile
    Peers = {p1}
    Downloads = {d1}
    Uploads = {u1, u2}
    TrueSize = 2
    ZeroCells = {1}
    Sizes = {1, 2}
    SubChunk = 1
    MinChunk = 1
    MaxPeers = 1
    Threshold = 2
    Excess = 0
SYMMETRY Symmetry
INVARIANTS
    CopyIsWhole
    HalfWrittenAnswered
    CompleteIsStored
CHECK_DEADLOCK FALSE
