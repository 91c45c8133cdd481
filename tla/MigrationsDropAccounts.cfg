\* What the recovery does to the accounts of a half-pushed ledger.
SPECIFICATION MCSpec
CONSTANTS
    RescueMode = TRUE
    MaxStarts = 3
INVARIANT AccountsKept
CHECK_DEADLOCK FALSE
