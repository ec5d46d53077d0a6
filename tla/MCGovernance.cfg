SPECIFICATION GovSpec
CONSTANTS
    Matters = {m1}
    Boxes = {b1, b2}
    b1 = b1
    b2 = b2
    MaxDate = 1
    Address = b1
    EWorkers = {w1, w2}
    NoOne = none
    Requests = {1, 2}
    NRows = 2
    MaxGen = 2
    MaxAttempts = 2
    MaxEFaults = 1
    NMsgs = 2
    NEnts = 3
    BoxOf <- MCBoxOf
    PageSize = 2
    MaxEdits = 4
    MaxRtFaults = 1
    base = base
    app = app
    Packages = {base, app}
    PkgVersions = {1, 2}
    Needs <- MCNeeds
    Overlaps = {}
    PlRequests = {1, 2}
    MaxPlRequests = 3
    MaxPlFaults = 1
    SecretRows = {p1}
    Copies = {e1, e2}
    Savers = {s1, s2}
    MaxSaves = 2
    MaxTries = 2
SYMMETRY MCWorkerSymmetry
INVARIANTS PluginsHold SecretsSealed
PROPERTIES ErasureHolds RetentionHolds
CHECK_DEADLOCK FALSE
