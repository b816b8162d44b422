SPECIFICATION Spec
CONSTANTS
    Intents = {i1}
    CardTexts <- Texts
    MaxCalls = 3
    MaxTokens = 2
    MaxVersions = 2
    MaxSends = 7
CHECK_DEADLOCK FALSE
INVARIANTS
    AtMostOnce
    NoLostUpdate
    HonestOutcome
    CardKeepsPin
    OwnUrlsAccepted
