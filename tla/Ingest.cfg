SPECIFICATION ISpec
CONSTANTS
    ann = ann  bob = bob  carl = carl  note = note
    f = f  g = g  n = n  o = o  z = z
    Activities = {f, g, n, o, z}
    Valid = {f, g, n, z}
    Follows = {f, g}
    Creates = {n, o}
    Addressing <- Fields
    ObjectOf <- Objects
    Locals = {ann, bob}
    Remotes = {carl, note}
    Wired = {ann}
    ByShared = {f, g, o, z}
    \* Puts in the same millisecond: only then does one remove what another listed.
    Stamps = {1}
    NoRecord = NoRecord
    Slots = {s1, s2}
    MaxPosts = 3
    MaxCrashes = 1
INVARIANTS
    ITypeOK
    AckedIsStored
    AcceptsJustified
PROPERTY
    FollowAnswered
\* Every delivery was posted as often as the bound allows, or acknowledged.
CHECK_DEADLOCK FALSE
