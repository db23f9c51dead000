SPECIFICATION SpecUp
CONSTANTS
    Campaigns = {c1}
    Requests = {r1}
    Workers = {w1, w2}
    MaxTime = 1
    DayLength = 2
    ClockSkew = 1
    FaultKinds = {"lock", "kill"}
    MaxFaults = 1
    NoEnd = NoEnd
    NoLock = NoLock
    Orphaned = Orphaned
    Keep = Keep
PROPERTY CompletesOnlyWhenDue
INVARIANT OneHandlerPerCampaign
SYMMETRY Symmetry
CHECK_DEADLOCK FALSE
