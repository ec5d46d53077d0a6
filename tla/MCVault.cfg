SPECIFICATION MCSpec
CONSTANTS
    Devices = {d1, d2}
    Drivers = {r1, r2}
    Methods = {w1}
    MaxKeys = 2
    MaxMasters = 2
    MaxTrips = 1
    People = {p1, p2}
    Scopes = {s1}
    NoScope = NoScope
    MaxShared = 1
    MaxWraps = 3
    MaxMoves = 2
SYMMETRY MCVaultSymmetry
INVARIANT VaultHolds
PROPERTY SharedKeysHold
CHECK_DEADLOCK FALSE
