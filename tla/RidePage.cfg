SPECIFICATION FairSpec
CONSTANTS
    Steps = 2
    MaxRetries = 1
CHECK_DEADLOCK FALSE
INVARIANTS NeverAhead OutcomeShown
PROPERTIES EndIsShown
