SPECIFICATION MCSpec
CONSTANTS
    Workers = {w1, w2}
    Kinds = {TRUE, FALSE}
    Lease = 2
    MaxAttempts = 2
    Backoff = 1
    DeferWait = 1
    DeferMax = 1
    MaxFaults = 1
    MaxCrashes = 1
    MaxErasure = 5
    MaxTries = 2
    Poison = FALSE
    b1 = b1
    z1 = z1
    l1 = l1
    l2 = l2
    x1 = x1
    x2 = x2
    Calls = {c1, c2}
    Boxes = {b1, z1}
    SealedBoxes = {z1}
    Lists = {l1, l2}
    Outside = {x1, x2}
    Recipients = {l1, nobody}
    Copied = b1
    Sender = x1
    ListChoices <- MCLists
    RuleChoices <- MCRules
    MaxDepth = 2
    MaxTransactions = 2
    MaxListChanges = 1
SYMMETRY MCWorkers
INVARIANTS DeliveredOnce DeliveryHolds
PROPERTIES ClosedStays 
CHECK_DEADLOCK FALSE
