SPECIFICATION FairSpec
CONSTANTS
    Downloads = {d1}
    Peers = {p1, p2}
    Foreign = {p2}
    MaxPeers = 2
INVARIANTS
    TypeOK
    AcceptedIsDialled
    TrustIsMutual
    NobodyLeftOut
PROPERTIES
    HandshakesEnd
