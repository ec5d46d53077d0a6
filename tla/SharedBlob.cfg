SPECIFICATION Spec
CONSTANTS
    Mailboxes = {m1, m2}
    Purgers = {p1, p2}
    None = none
    MaxPurges = 2
    MaxFaults = 1
SYMMETRY BlobSymmetry
INVARIANTS KeepsOthers Collected
CHECK_DEADLOCK FALSE
