SPECIFICATION XSpec
CONSTANTS
    MaxConns = 2
    MaxFrames = 2
INVARIANTS
    WholeInOrder
PROPERTY
    EndedIsRead
\* Every connection has been made, used and closed.
CHECK_DEADLOCK FALSE
