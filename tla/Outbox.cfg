SPECIFICATION SOSpec
CONSTANTS
    x = x  y = y
    Publishers = {p1, p2}
    Ids = {x, y}
    Republish = FALSE
    MaxPublish = 2
    MaxDrops = 2
    Crashes = TRUE
    People = {ann, bob}
    Me = ann
    Private = {p1}
    Founders = {bob}
    MaxChanges = 1
    Minted <- TwoIds
INVARIANTS
    HeldOrHanded
    SealedForMembers
PROPERTIES
    InOrder
    Drains
CHECK_DEADLOCK FALSE
