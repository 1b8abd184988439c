CONSTANTS
    \* Two ticks hold a departure, a return and a second departure, so that the
    \* check of the first is stale when the grace period of two ticks is over.
    Heartbeat = 1
    TTL = 2
    Grace = 2
    Duration = 2
    Horizon = 2
    None = None
    \* One repeat of ready, failed socket or lost connection.
    MaxTroubles = 1
    MaxOffers = 2
    PurgeBatch = 2
    \* A shard that is empty while the other is not, and old events with more
    \* receipts than a batch takes.
    u1 = u1
    u2 = u2
    Users <- TwoUsers
    Others <- OtherFollows
    MaxFollows = 2
    Shards = 2
    PruneBatch = 1
    PrunePage = 2
    NumShows = 2
    MaxChanges = 3
    \* Two pages to a recount, a quiet spell and a return.
    NumVisitors = 2
    VisitorTTL = 1
    HeartbeatGap = 1
    CountInterval = 1
    CountPage = 1
    NumCounters = 2
    LastVisit = 2
SPECIFICATION MCSpec
INVARIANTS
    AbsenceIsWatched
    SteadyIsKept
    SignalsAreSound
    FollowersAreSound
    CountIsSound
PROPERTIES
    FailsOnlyAfterGrace
    CallEnds
    HandshakeSettles
    OldDataGoes
\* A finished call with no check left to run stops, as does a channel that is over.
CHECK_DEADLOCK FALSE
