SPECIFICATION TSpec
CONSTANTS
    p1 = p1  p2 = p2  e1 = e1
    Puts = {p1, p2}
    Events = {e1}
    MayEmit <- OneRoute
    Sessions = {s1, s2}
    Docs = {x}
    Colls = {a}
    DedupTtl = 2
    SessionTtl = 1
    MaxTime = 4
SYMMETRY InterchangeableSessions
INVARIANTS
    EndedIsEmpty
    SessionListed
PROPERTIES
    EmittedOnce
