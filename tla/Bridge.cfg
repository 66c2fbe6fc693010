SPECIFICATION LiveSpec
CONSTANTS
    Filtered = TRUE
    ErrsCap = 2
    MaxReads = 2
INVARIANTS JoinedOnReturn PassesVetted
PROPERTY AlwaysReturns
CHECK_DEADLOCK FALSE
