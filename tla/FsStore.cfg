SPECIFICATION FSpec
CONSTANTS
    p1 = p1  p2 = p2  a = a  b = b  x = x  y = y
    Callers = {p1, p2}
    Ids = {x, y}
    Colls = {a, b}
    Docs = {d}
    Times = {t1, t2}
    None = None
    MayPut <- OwnedIds
    MayDelete <- OwnedDeletes
    Placements <- MovingPlacement
    UniqueTs = FALSE
    Faults = {p1}
    Viewed = a
SYMMETRY Interchangeable
INVARIANTS
    TypeOK
    NoStale
    ListedThroughout
    TornContained
PROPERTIES
    ContractSpec
