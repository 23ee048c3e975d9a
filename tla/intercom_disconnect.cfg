SPECIFICATION Spec
CONSTANTS
    Endpoints = {a, b}
    MaxReconnects = 0
    NoSocket = NoSocket
    Calls = {k1}
    NoCall = NoCall
    NoSession = NoSession
    LinksFail = TRUE
    SlowSends = TRUE
    MaxInFlight = 1
    MaxMarks = 2
    Frames = {TRUE, FALSE}
CHECK_DEADLOCK FALSE
SYMMETRY Symmetry
INVARIANT DisconnectReleases
