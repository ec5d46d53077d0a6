SPECIFICATION MCSpec
CONSTANTS
    Matters = {m1}
    Boxes = {b1}
    MaxDate = 1
    Users = {u1, u2, u3}
    EscOps = {p1, p2}
    TheMatter = m1
    TheBox = b1
    MaxAppends = 1
    MaxHeads = 2
    MaxPersists = 2
    MaxEntries = 3
    MaxTurns = 1
    Copies = {c1, c2}
    NoCopy = none
    NSecrets = 1
    MaxRotations = 1
    MaxSaves = 1
    MaxKeyFaults = 1
SYMMETRY MCSymmetry
INVARIANT KeysUsable
PROPERTY EscrowHolds
CHECK_DEADLOCK FALSE
