CONSTANTS
    v1 = v1
    v2 = v2
    p1 = p1
    k1 = k1
    k2 = k2
    creator = creator
    viewer = viewer
    w1 = w1
    w2 = w2
    Viewers <- TwoViewers
    Payments <- OnePayment
    Payer <- PaidBy
    PaidRank = 1
    FreeRank = 0
    None = None
    Sockets <- TwoTabs
    Roles <- BothRoles
    RoleOf <- ViewerTabs
    Ttl = 2
    Grace = 1
    Unset = Unset
    Callers <- TwoViewers
    Workers <- TwoWorkers
    Ranks = {1}
    BatchSize = 2
    MaxEvents = 3
    MaxStops = 1
SPECIFICATION MCSpec
INVARIANTS
    ApiCallsAreSound
    RedisIsSound
PROPERTIES
    ApiImplementsPayment
    ApiCatchesUp
CHECK_DEADLOCK FALSE
