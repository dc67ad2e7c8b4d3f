\* One deploy on a host that may have run the name before.
SPECIFICATION Spec
CONSTANTS
    d1 = d1
    Earlier = Earlier
    Deploys = {d1}
    Wait = 1
    MaxProcs = 2
    MaxRows = 2
    MaxTime = 1
    MaxLosses = 1
CHECK_DEADLOCK FALSE
INVARIANTS VerifiedIsNew RetiredStaysGone
PROPERTIES RunningIsListed
