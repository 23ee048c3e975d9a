SPECIFICATION Spec
CONSTANTS
    Endpoints = {a, b, c}
    MaxReconnects = 0
    NoSocket = NoSocket
    Calls = {k1, k2}
    NoCall = NoCall
    NoSession = NoSession
    LinksFail = FALSE
    SlowSends = TRUE
    MaxInFlight = 1
    MaxMarks = 1
    Frames = {TRUE}
CHECK_DEADLOCK FALSE
SYMMETRY Symmetry
INVARIANTS PairedWithoutLoss RingsAtMostThirtySeconds
PROPERTIES FramesStayInCall KeepsCallBook
