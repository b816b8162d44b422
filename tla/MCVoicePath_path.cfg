SPECIFICATION Spec
CONSTANTS
    Answers <- JoinAnswers
    Metadatas <- ServerMetadata
    W = 1
    MaxSequence = 3
    MaxJoins = 2
CHECK_DEADLOCK FALSE
INVARIANTS
    AuthenticOnce
    WindowHonest
    NegotiatedMediaFits
    ChecksAgree
    KeyDiesWithSession
