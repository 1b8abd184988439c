SPECIFICATION Spec
CONSTANTS
    v1 = v1
    v2 = v2
    a1 = a1
    a2 = a2
    c1 = c1
    c2 = c2
    free = free
    vip = vip
    None = None
    Tiers <- MCTiers
    PaidTiers = {vip}
    Rank <- MCRank
    Viewers = {v1, v2}
    Attempts = {a1}
    Payer <- OneAttempt
    Calls = {c1, c2}
    CloseBatch = 1
    MaxCaptureTries = 2
    MaxCaptureJobs = 2
    MaxDeclines = 1
CHECK_DEADLOCK FALSE
SYMMETRY CallSymmetry
INVARIANTS OneActiveCall OpenPaidCallIsCharged EntryFollowsCall EndedShowIsQuiet UndeclinedIsSettled
