\* Two concurrent builds of a tag, failing and late calls, crashes.
SPECIFICATION Spec
CONSTANTS
    local = local
    remote = remote
    Builders <- MCBuilders
    Remote <- MCRemote
    NumArts = 2
    MaxRows = 2
    MaxHits = 2
    MaxLate = 1
INVARIANTS ReadyIsComplete OutcomeIsHonest CleanBuildSucceeds
PROPERTIES ReadyReplacedByRacer
