SPECIFICATION DSpec
CONSTANTS
    x = x  y = y  q = q
    Horizon = 5
    None = None
    Docs <- EntryDocs
    Callers = {w1, w2, e1}
    Workers = {w1, w2}
    Ids = {x}
    Inboxes = {i1, i2}
    Colls = {q}
    Queue = q
    Times <- Ticks
    MayPut <- AllIds
    MayDelete <- AllIds
    Placements <- Placed
    UniqueTs = FALSE
    Faults = {}
    MaxTroubles = 1
    MaxAttempts = 3
    MaxBackoff = 2
    MaxEnqueues = 1
    MaxIdle = 0
INVARIANTS
    KeptUntilDone
    AttemptsCounted
    BackedOff
PROPERTIES
    Settles
\* The clock has reached Horizon.
CHECK_DEADLOCK FALSE
