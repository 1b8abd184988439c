CONSTANTS
    MaxAccounts = 2
    MaxChanges = 1
    MaxActions = 2
SPECIFICATION MCSpec
INVARIANT SessionOpensSetup
\* Every change made and every answer given.
CHECK_DEADLOCK FALSE
