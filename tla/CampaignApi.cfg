SPECIFICATION SpecUp
CONSTANTS
    Campaigns = {c1, c2}
    Requests = {r1}
    Workers = {}
    MaxTime = 2
    DayLength = 2
    ClockSkew = 0
    FaultKinds = {"call", "late", "kill"}
    MaxFaults = 2
    NoEnd = NoEnd
    NoLock = NoLock
    Orphaned = Orphaned
    Keep = Keep
INVARIANT TypeOK
PROPERTY AnsweredInStep
CHECK_DEADLOCK FALSE
