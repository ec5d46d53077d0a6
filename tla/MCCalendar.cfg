SPECIFICATION MCSpec
CONSTANTS
    Replicas = {r1, r2}
    Route = rt
    Workers = {w1, w2}
    Times = {t1, t2}
    MaxSeq = 3
    MaxAsks = 1
    Clocks = {c1, c2}
    Lead = 1
    Lookback = 2
    First = 5
    End = 6
    MaxEdits = 2
    Scanners = {s1, s2}
    Bookers = {b1, b2}
    Spans = {{2}, {1, 2}, {1, 2, 3}}
    MaxHours = 2
    MaxRevisions = 2
    RowIds = {n1, n2}
SYMMETRY MCCalendarSymmetry
CONSTRAINT MCFew
INVARIANTS RungOnce RoomBookedOnce BindingsAgree
PROPERTY MeetingAgreed
CHECK_DEADLOCK FALSE
