SPECIFICATION Spec
CONSTANTS
    v1 = v1
    v2 = v2
    a1 = a1
    a2 = a2
    c1 = c1
    c2 = c2
    free = free
    vip = vip
    None = None
    Tiers <- MCTiers
    PaidTiers = {vip}
    Rank <- MCRank
    Viewers = {v1}
    Attempts = {a1, a2}
    Payer <- OnePayer
    Calls = {c1, c2}
    CloseBatch = 1
    MaxCaptureTries = 1
    MaxCaptureJobs = 1
    MaxDeclines = 0
CHECK_DEADLOCK FALSE
SYMMETRY CallSymmetry
INVARIANTS TypeOK WaitingIsAuthorized BooksMatchStripe
PROPERTIES ImplementsPayment
