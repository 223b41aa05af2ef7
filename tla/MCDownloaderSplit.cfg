SPECIFICATION FairSpec
CONSTANTS
    NoFile = NoFile
    Peers = {p1, p2, p3}
    Downloads = {d1}
    TrueSize = 3
    ZeroCells = {2}
    Sizes = {0, 2, 3, 5}
    SubChunk = 2
    MinChunk = 1
    MaxPeers = 3
    Threshold = 1
    Excess = 1
INVARIANTS
    TypeOK
    CompleteIsStored
    WritersDisjoint
    ReadOnlyWhole
    ProgressWithinSize
PROPERTIES
    GapsAreReal
    DownloadEnds
    MismatchAnswered
CHECK_DEADLOCK FALSE
