\* The action dies on the last attempt.
CONSTANTS
    Price = 4
    Earning = 3
    Outside <- NoSupport
    Amount <- Half
    MaxAttempts = 2
    MaxRuns = 2
    Request = Request
    Own = Own
    None = None
    o1 = o1
    o2 = o2
SPECIFICATION MCSpec
PROPERTY NothingLeftProcessing
\* Everything may be settled, with nothing left to do.
CHECK_DEADLOCK FALSE
