SPECIFICATION Spec
CONSTANTS
    Callers = {c1, c2}
    MaxPending = 1
    Slack = 0
    MaxCommands = 2
    MaxSockets = 2
CHECK_DEADLOCK FALSE
INVARIANTS
    TypeOK
    LossWakes
    OwnAnswer
    IdentityFirst
PROPERTIES
    CommandsReturn
