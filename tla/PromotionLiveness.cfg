\* A steady process that keeps ticking beside one that aborts.
SPECIFICATION FairSpec
CONSTANTS
    a1 = a1
    a2 = a2
    auto = auto
    manual = manual
    delay = delay
    health = health
    both = both
    NoPolicy = NoPolicy
    Procs <- MCProcs
    Steady <- MCOne
    Policies <- MCPolicies
    Kind <- MCKind
    Gated <- MCGated
    MaxRows = 1
    Scopes <- MCDelayed
PROPERTIES DueIsDecided
