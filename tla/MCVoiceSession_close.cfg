SPECIFICATION Spec
CONSTANTS
    Stoppers = {h1}
    Senders = {s1}
    Terminations <- Orderly
    QueueCapacity = 1
    MaxSequence = 3
    ChannelModulus = 2
CHECK_DEADLOCK FALSE
PROPERTIES
    StopReturns
