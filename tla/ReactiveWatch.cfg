SPECIFICATION RSpec
CONSTANTS
    p1 = p1  p2 = p2  x = x  c = c  wId = wId  wColl = wColl
    Callers = {p1, p2}
    Ids = {x}
    Colls = {c}
    Docs = {body}
    Times = {t1, t2}
    None = None
    MayPut <- AllIds
    MayDelete <- Deleter
    Placements <- FixedPlacement
    UniqueTs = TRUE
    Faults = {}
    Watchers = {wId, wColl}
    Target <- Targets
    MaxWatched = 1
INVARIANTS
    Complete
    Fresh
PROPERTIES
    NeverOlder
    Converges
\* The application has stopped writing, and every re-read is over.
CHECK_DEADLOCK FALSE
