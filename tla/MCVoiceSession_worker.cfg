SPECIFICATION Spec
CONSTANTS
    Stoppers = {h1, h2}
    Senders = {s1, s2}
    Terminations <- BothStops
    QueueCapacity = 1
    MaxSequence = 4
    ChannelModulus = 2
CHECK_DEADLOCK FALSE
INVARIANTS
    WireOrdered
PROPERTIES
    SilentAfterStop
    HostCallsReturn
    WorkerStops
