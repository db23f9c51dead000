SPECIFICATION Spec
CONSTANTS
    Users = {u1, u2}
    Emails = {e1, e2}
    Requests = {r1, r2}
    AccessLife = 1
    RefreshLife = 2
    MaxTime = 2
    MaxSessions = 3
    Fresh = Fresh
    Gone = Gone
    NoEnd = NoEnd
    Keep = Keep
    NoData = NoData
SYMMETRY Symmetry
INVARIANTS TypeOK RevokedIsRejected RacesAreReported
PROPERTIES StaleRightsExpire LastAdminFallsToStaleToken
