\* Two processes on one promotion, or one after the other; aborts anywhere.
SPECIFICATION Spec
CONSTANTS
    a1 = a1
    a2 = a2
    auto = auto
    manual = manual
    delay = delay
    health = health
    both = both
    NoPolicy = NoPolicy
    Procs <- MCProcs
    Steady = {}
    Policies <- MCPolicies
    Kind <- MCKind
    Gated <- MCGated
    MaxRows = 2
    Scopes <- MCScopes
SYMMETRY MCSymmetry
INVARIANTS GateRespected RecordedIsReal
PROPERTIES DecidedIsFinal
