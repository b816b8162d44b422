SPECIFICATION Spec
CONSTANTS
    Callers = {c1, c2}
    MaxCancels = 2
    MaxLost = 1
    LoggingOut = TRUE
CHECK_DEADLOCK FALSE
INVARIANTS
    LoginWins
    DurableFirst
    NoRefusedRefresh
    NoSpuriousExpiry
PROPERTY
    WaitersReturn
