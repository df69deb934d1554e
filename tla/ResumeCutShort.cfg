SPECIFICATION SSpec
CONSTANTS
    c = c  d = d  x = x  y = y
    Ids = {x, y}
    Colls = {c}
    Place <- AllInC
    Writers = {w1}
    Updates = FALSE
    LossyReplay = TRUE
    SlowCursors = FALSE
    LateColls = {}
    SteadyClock = TRUE
    MaxPuts = 2
    MaxDrops = 1
INVARIANT
    NoLoss
CHECK_DEADLOCK FALSE
