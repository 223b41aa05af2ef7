SPECIFICATION FairSpec
CONSTANTS
    Hashes = {h1, h2}
    Interval = 2
    Timeout = 1
    Backoff = 1
    BindTime = 0
    TTL = 7
    Late = 1
INVARIANTS
    TypeOK
    KeptListed
    ListingsLapse
    CleanExit
PROPERTIES
    ShutdownCompletes
