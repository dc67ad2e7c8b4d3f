\* A reliable worker beside one that loses calls, crashes and restarts.
SPECIFICATION FairSpec
CONSTANTS
    j1 = j1
    j2 = j2
    w1 = w1
    w2 = w2
    NoJob = NoJob
    Jobs <- MCJobs
    Workers <- MCWorkers
    Reliable <- MCReliable
    MaxLate = 0
    MaxTime = 0
PROPERTIES EveryJobServed
