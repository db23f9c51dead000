SPECIFICATION SpecUp
CONSTANTS
    Campaigns = {c1}
    Requests = {r1,r2}
    Workers = {}
    MaxTime = 1
    DayLength = 2
    ClockSkew = 0
    FaultKinds = {}
    MaxFaults = 0
    NoEnd = NoEnd
    NoLock = NoLock
    Orphaned = Orphaned
    Keep = Keep
INVARIANT NoLostSchedule
CHECK_DEADLOCK FALSE
