CONSTANTS
    Tiers = {"short"}
    MaxKeys = 1
    TierOf <- OneKey
    MaxTalks = 1
    MaxAsks = 2
    MaxErrors = 0
SPECIFICATION CallerSpec
INVARIANT HoldsEndWithShow
\* The show is over and everything answered.
CHECK_DEADLOCK FALSE
