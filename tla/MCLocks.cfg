CONSTANTS
    Threads = {t1, t2}
    Locks = {1, 2}
    Recursive = {2}
    UniqueSlots = {u1, u2}
    RefSlots = {r1, r2}
    PlainSlots = {g1}
    MaxGuards = 2
    Spinners = {s1, s2, s3}
    TicketMod = 4
    MaxStale = 3
    Handles = {h1, h2, h3}
    Ids = {i1, i2}
    NoId = noId
    Waiters = {w1, w2}
    Timeout = 1
    MaxTime = 3
    Nobody = nobody
SPECIFICATION MCSpec
SYMMETRY MCSymmetry
INVARIANTS LocksMatch WaitsClimb WaitsEndRightly
PROPERTY TicketsInOrder
