SPECIFICATION Spec
CONSTANTS
    Users = {u1, u2}
    Emails = {e1, e2}
    Requests = {r1, r2}
    Campaigns = {c1, c2}
    Names = {n1, n2}
    Dates = {1}
    DayLength = 4
    BrowserZone <- HalfADayWest
    ServerZone <- QuarterDayWest
    Days <- FirstDay
    AccessLife = 9
    RefreshLife = 9
    MaxTime = 1
    Fresh = Fresh
    Gone = Gone
    NoEnd = NoEnd
    Keep = Keep
    NoData = NoData
SYMMETRY Symmetry
INVARIANTS TypeOK EditKeepsDays
PROPERTIES BookKept FailsOnlyInRace RangeBreaksOnlyInRace OnlyOwnersOrAdmins
