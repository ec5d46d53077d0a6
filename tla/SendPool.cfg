SPECIFICATION FairSpec
CONSTANTS
    Uids = {u1, u2, u3}
    Runs = {r1, r2}
    MaxParallel = 2
    MaxCalls = 3
PROPERTIES PoolHolds AllServed
CHECK_DEADLOCK FALSE
