\* Lost and delayed calls, crashes and restarts.
SPECIFICATION Spec
CONSTANTS
    j1 = j1
    j2 = j2
    w1 = w1
    w2 = w2
    NoJob = NoJob
    Jobs <- MCJobs
    Workers <- MCWorkers
    Reliable = {}
    MaxLate = 1
    MaxTime = 1
SYMMETRY MCSymmetry
INVARIANTS HolderIsClaimer AtMostOnce SuccessIsReal
PROPERTIES ImplementsTaskQueue
