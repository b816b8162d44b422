SPECIFICATION Spec
CONSTANTS
    Hosts = {h1}
    Channels = {v1}
    AutoRejoin = TRUE
    OldHandles = FALSE
    EventCapacity = 2
    MaxConnections = 1
    MaxSockets = 2
    MaxSids = 2
    MaxHandles = 2
    MaxCalls = 4
CHECK_DEADLOCK FALSE
INVARIANTS
    LeaveIsFinal
