SPECIFICATION MCSpec
CONSTANTS
    MailboxRows = {m1, m2}
    ListRows = {l1, l2}
    Addrs = {a1, a2}
    AliasChoices <- MCAliases
    NoAddr = none
    AddrRequests = {r1, r2}
    MaxAddrRequests = 3
    Principals = {a, b, m}
    Admins = {x}
    Nobody = nobody
    AccessRequests = {r1, r2}
    MaxRequests = 3
    MaxFaults = 1
    CkWriters = {w1, w2}
    MaxCkOps = 3
    MaxKeyAttempts = 3
    Keys = {"x1", "x2", "x3", "p1", "p2"}
    SlotOf <- MCSlotOf
    Vouched <- MCVouched
    Responses <- MCResponses
    Actors = {a1, a2}
    MaxActs = 3
    MaxRowAttempts = 2
    MaxMailFailures = 1
    MaxGeneration = 2
    Seals = {s1, s2}
    Receivers = {r1}
    Blockable = {e1, e2}
    f1 = f1
    f2 = f2
    u1 = u1
    u2 = u2
    u3 = u3
    Atts = {a1, a2}
    Places = {f1, f2}
    UserPlaces <- MCUserPlaces
    ScRequests = {r1, r2}
    MaxScRequests = 3
    Uploads = {w1, w2}
    Quota = 2
    MaxQuotaTries = 2
    MaxQuotaFaults = 1
    MaxQuotaOps = 5
    Callers = {c1, c2}
    MaxCalls = 4
    MaxShares = 2
    MaxFolderFaults = 1
    Dirs = {d1, d2}
    Msgs = {x1, x2}
    Refreshers = {w1, w2}
    MaxChanges = 2
    RefreshAttempts = 2
    Indexers = {1}
    MaxIndexAttempts = 2
    MaxRowTries = 2
    MaxMsgRev = 3
    MaxSiFaults = 1
    Entries = {e1, e2}
    Compactors = {d1, d2}
    MaxEntryVer = 2
    MaxUploads = 3
    FieldValues = {v1, v2}
    MaxRecSaves = 4
INVARIANTS HeldOnce AccessFollowsOwner  FoldersHold SearchFollows 
PROPERTIES ActionsHold KeyringKept
CHECK_DEADLOCK FALSE
