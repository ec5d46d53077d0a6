SPECIFICATION MCSpec
CONSTANTS
    RotationJobs = {j1, j2}
    Admins = {a1}
    MaxSelectors = 3
    MaxLapses = 1
    Providers = {p1, p2}
    NoProvider = none
    DomainAdmins = {d1, d2}
    ProviderAdmins = {b1}
    Servers = {s1, s2}
    ZoneSets = {{2}}
    MaxOps = 2
    MaxDnsLapses = 1
SYMMETRY MCDomainSymmetry
INVARIANTS DkimHeld RecordsHeld
CHECK_DEADLOCK FALSE
