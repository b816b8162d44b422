SPECIFICATION Spec
CONSTANTS
    Hosts = {h1, h2}
    Channels = {v1}
    AutoRejoin = TRUE
    OldHandles = FALSE
    EventCapacity = 1
    MaxConnections = 2
    MaxSockets = 2
    MaxSids = 2
    MaxHandles = 2
    MaxCalls = 3
CHECK_DEADLOCK FALSE
INVARIANTS
    ShutdownIsFinal
    NoOrphanSession
PROPERTIES
    JoinKeepsKey
    MediaStops
    CallsReturn
