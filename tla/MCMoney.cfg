\* The refund: 3 cents of earning cannot be halved.
CONSTANTS
    Price = 4
    Earning = 3
    Outside <- TwoParts
    Amount <- Half
    MaxAttempts = 3
    MaxRuns = 2
    Request = Request
    Own = Own
    None = None
    o1 = o1
    o2 = o2
\* Payouts.
    c1 = c1
    c2 = c2
    p1 = p1
    p2 = p2
    Creators <- TwoCreators
    Payments <- TwoPayments
    CreatorOf <- OwnedBy
    Charged <- Prices
    FeeBps <- Rates
    Items <- AllItems
    LastMonth = 2
    TierPrices <- SomePrices
    Days <- SomeDays
    Minimum = 2500
    BatchSize = 1
    MaxTransfers = 2
    MaxJobs = 2
    MaxWalks = 1
    Refundable <- Second
    Disputable <- First
    Earlier <- Second
    Movers <- Mover
    NoAccount = NoAccount
SPECIFICATION MCSpec
INVARIANTS
    RefundsAreSound
    LedgerIsSound
    PayoutsAreSound
PROPERTIES
    FinalIsFinal
    RefundSettles
    RunEnds
\* Everything may be settled, with nothing left to do.
CHECK_DEADLOCK FALSE
