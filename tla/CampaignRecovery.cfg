SPECIFICATION LiveSpec
CONSTANTS
    Campaigns = {c1}
    Requests = {}
    Workers = {w1}
    MaxTime = 2
    DayLength = 2
    ClockSkew = 0
    FaultKinds = {"kill"}
    MaxFaults = 2
    NoEnd = NoEnd
    NoLock = NoLock
    Orphaned = Orphaned
    Keep = Keep
PROPERTIES BootRepairs DueGetsCompleted
CHECK_DEADLOCK FALSE
