CONSTANTS
    Attempts = {a1, a2}
    Authorities = {u1, u2}
    Subjects = {s1, s2}
    Roles = {r1, r2}
    Keys = {k1}
    Lsms = {l1, l2}
    Requests <- RetryRequests
    MaxRevision = 1
    Legacy = Legacy
    LegacyRows <- NoLegacy
    NoRow = NoRow
    NoOne = NoOne
    u1 = u1
    u2 = u2
    s1 = s1
    s2 = s2
    r1 = r1
    r2 = r2
    k1 = k1
    k2 = k2
    l1 = l1
    l2 = l2
SPECIFICATION FairSpec
CHECK_DEADLOCK FALSE
PROPERTIES
    CallsFinish
    RowsAreFreed
