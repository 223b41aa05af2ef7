SPECIFICATION FairSpec
CONSTANTS
    NoFile = NoFile
    TrueSize = 3
    ZeroCells = {2}
    Streams = {s1}
    Peers = {p1}
    Asks <- SomeAsks
    MaxFile = 3
    TrustAll = FALSE
INVARIANTS
    TypeOK
    ToldUnderTrust
    HonestReply
    FaithfulWhenSteady
PROPERTIES
    StreamEnds
