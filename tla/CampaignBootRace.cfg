SPECIFICATION SpecDown
CONSTANTS
    Campaigns = {c1}
    Requests = {r1}
    Workers = {w1}
    MaxTime = 1
    DayLength = 2
    ClockSkew = 0
    FaultKinds = {}
    MaxFaults = 0
    NoEnd = NoEnd
    NoLock = NoLock
    Orphaned = Orphaned
    Keep = Keep
PROPERTY BootDropsOnlyStale
CHECK_DEADLOCK FALSE
