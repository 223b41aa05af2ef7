SPECIFICATION Spec
CONSTANTS
    a = a
    b = b
    Me = me
    Agents = {me, a, b}
    Anchors = {a}
    Vouches <- SomeVouches
    MaxDepth = 2
    MaxChain = 3
    MaxTime = 2
    MaxRevocations = 2
INVARIANTS
    TrustedIffPath
PROPERTIES
    TrustOnlyLapses
CHECK_DEADLOCK FALSE
