SPECIFICATION Spec
CONSTANTS
    Endpoints = {a, b}
    MaxReconnects = 1
    NoSocket = NoSocket
    Calls = {k1}
    NoCall = NoCall
    NoSession = NoSession
    LinksFail = TRUE
    SlowSends = TRUE
    MaxInFlight = 1
    MaxMarks = 1
    Frames = {TRUE, FALSE}
CHECK_DEADLOCK FALSE
SYMMETRY Symmetry
INVARIANT TypeOK
INVARIANT ReceiverArmedFirst
PROPERTY SuccessorStays
