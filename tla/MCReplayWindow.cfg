SPECIFICATION WindowSpec
CONSTANTS
    W = 3
    MaxSequence = 14
INVARIANTS
    WindowExact
CHECK_DEADLOCK FALSE
