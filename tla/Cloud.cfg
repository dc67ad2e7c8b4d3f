SPECIFICATION CloudSpec
CONSTANTS
    r0 = r0
    r1 = r1
    r2 = r2
    r3 = r3
    r4 = r4
    r5 = r5
    Aws = {r0, r1, r2, r3}
    Azure = {r4, r5}
    Cost <- MCCost
    MaxCost = 2
    Limit = 2
    Workers = 2
    Ttl = 1
    MonthLength = 2
    Horizon = 2
    AwsPage = 3
    AzurePage = 1
    Before <- MCBefore
    MaxOthers = 1
    Protected = {r1}
    MaxCloudFaults = 1
INVARIANTS Overrun
PROPERTIES TtlRespected Reclaimed
