SPECIFICATION Spec
CONSTANTS
    r1 = r1
    r2 = r2
    Runs = {r1, r2}
    NoRun = NoRun
    Year <- OneYear
    NVms <- OneOrTwo
    Steps = 1
    Retries = 1
    MinAge = 1
    MaxFaults = 1
INVARIANTS DiskStandsForVm FinishIsHonest
PROPERTIES YoungSurvives EventuallyClean
