CONSTANTS
    Requests = {q1, q2, q3}
    Principals = {p1, p2}
    Owner <- FirstOwnsMost
    Needs <- MixedNeeds
    MaxPreAuth = 2
    MaxAuthenticated = 2
    MaxDatabase = 3
    MaxConcurrent = 1
    Burst = 1
    Rate = 1
    Unit = 2
    MaxTime = 3
    p1 = p1
    p2 = p2
    q1 = q1
    q2 = q2
    q3 = q3
SPECIFICATION FairSpec
CHECK_DEADLOCK FALSE
INVARIANTS
    PermitsAccounted
    ConnectionsBounded
    GatewayInv
    RateBound
PROPERTY
    PermitsReturn
