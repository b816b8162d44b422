SPECIFICATION Spec
CONSTANTS
    MaxQueuedLive = 1
    MaxLog = 2
    MaxFaults = 1
    MaxPushes = 1
    HostCloses = TRUE
    ReconnectEnabled = TRUE
    MaxAttempts = 1
    LiveDuringReplay = FALSE
    CompleteCoversLive = FALSE
CHECK_DEADLOCK FALSE
INVARIANTS
    NoSkippedEvent
    LiveBarrier
PROPERTIES
    ImplementsFeed
    HandoffSettles
    Converges
    CloseTerminates
