SPECIFICATION ASpec
CONSTANTS
    p1 = p1  p2 = p2  r1 = r1
    Processes = {p1, p2}
    Overlap = FALSE
    MaxStarts = 3
    Absent = Absent
    Torn = Torn
    ByteBase = 4
    DigitBase = 3
    KeyLen = 2
    Codec <- SmallCodec
    Outgoing = {r1}
    NoBody = NoBody
SYMMETRY Swap
INVARIANTS
    OneIdentity
    VerifiedIfIntact
    LearnedIsServed
CHECK_DEADLOCK FALSE
