SPECIFICATION Spec
CONSTANTS
    Users = {u1}
    Channels = {1, 2}
    Groups = {g1}
    Roles = {r1}
    Receivers = {h1}
    Capacity = 1
    MaxEvents = 2
    MaxReplacements = 2
CHECK_DEADLOCK FALSE
INVARIANTS
    MatchesServer
PROPERTIES
    BoundaryRespected
    CatchesUp
