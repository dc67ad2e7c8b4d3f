\* Two concurrent deployers with a failed call, or one with two; crashes
\* anywhere.
SPECIFICATION TargetSpec
CONSTANTS
    d1 = d1
    d2 = d2
    r1 = r1
    r2 = r2
    Deployers <- MCDeployers
    Releases <- MCReleases
    Component <- MCComponent
    NoRel = NoRel
    HistoryLimit = 2
    MaxRows = 3
    Scopes <- MCScopes
SYMMETRY MCSymmetry
INVARIANTS OutcomeIsHonest TargetKeepsActive NothingLeaks ActiveIsInstalled
PROPERTIES ImplementsRegister
