SPECIFICATION MCSpec
CONSTANTS
    Jobs = {j1}
    Requests = {r1}
    JobLease = 1
    SendLease = 2
    MaxDefer = 1
    Trusted = TRUE
    MaxOps = 2
    MaxStalls = 1
    Workers = {w1}
    Kinds = {TRUE, FALSE}
    Lease = 2
    DeferWait = 1
    DeferMax = 1
    MaxErasure = 5
    MaxTries = 3
    Poison = TRUE
    MaxAttempts = 2
    Backoff = 1
    MaxFaults = 1
PROPERTIES SendSettles QueueSettles
CHECK_DEADLOCK FALSE
