SPECIFICATION LiveSpecUp
CONSTANTS
    Campaigns = {c1}
    Requests = {r1}
    Workers = {w1, w2}
    MaxTime = 1
    DayLength = 2
    ClockSkew = 0
    FaultKinds = {"call", "late"}
    MaxFaults = 2
    NoEnd = NoEnd
    NoLock = NoLock
    Orphaned = Orphaned
    Keep = Keep
PROPERTIES DueJobsEnd ScheduledRuns UntouchedKept
CHECK_DEADLOCK FALSE
