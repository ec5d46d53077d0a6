SPECIFICATION Spec
CONSTANTS
    Jobs = {j1, j2}
    Requests = {r1}
    JobLease = 1
    SendLease = 2
    MaxAttempts = 2
    Backoff = 1
    MaxDefer = 0
    Trusted = TRUE
    MaxOps = 3
    MaxFaults = 1
    MaxCrashes = 1
    MaxStalls = 1
SYMMETRY SendSymmetry
INVARIANTS SendInv AtMostOnceRelay
PROPERTIES RelayUnderClaim OutcomeTold
CHECK_DEADLOCK FALSE
