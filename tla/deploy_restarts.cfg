SPECIFICATION Spec
CONSTANTS
    Endpoints = {panel}
    Panel = panel
    MaxReconnects = 1
    NoSocket = NoSocket
    Versions = {1, 2}
    Factory = 1
    MaxRequests = 2
    SlowSends = FALSE
CHECK_DEADLOCK FALSE
INVARIANT TypeOK
INVARIANT AcceptedWasStarted
PROPERTY KeepsUpdateBook
