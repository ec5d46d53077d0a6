SPECIFICATION MCSpec
CONSTANTS
    Workers = {x1, x2}
    MaxAttempts = 3
    MaxFaults = 2
    Custodians = {c1, c2}
    Total = 2
    Quota = 3
INVARIANTS  ExportAccounted
PROPERTIES ImplementsOneResult ExportEnds
CHECK_DEADLOCK FALSE
