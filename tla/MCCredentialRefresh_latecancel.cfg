SPECIFICATION Spec
CONSTANTS
    Callers = {c1, c2}
    MaxCancels = 1
    MaxLost = 0
    LoggingOut = FALSE
CHECK_DEADLOCK FALSE
INVARIANTS
    AllowsNewFlight
