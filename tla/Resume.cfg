SPECIFICATION SSpec
CONSTANTS
    c = c  d = d  x = x  y = y
    Ids = {x, y}
    Colls = {c, d}
    Place <- AllInC
    Writers = {w1}
    Updates = FALSE
    LossyReplay = FALSE
    SlowCursors = FALSE
    LateColls = {d}
    SteadyClock = TRUE
    MaxPuts = 2
    MaxDrops = 1
INVARIANTS
    STypeOK
    NoLoss
    CursorSafe
    NoGap
PROPERTY
    CatchesUp
CHECK_DEADLOCK FALSE
