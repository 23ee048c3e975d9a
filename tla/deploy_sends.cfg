SPECIFICATION FairSpec
CONSTANTS
    Endpoints = {panel}
    Panel = panel
    MaxReconnects = 0
    NoSocket = NoSocket
    Versions = {1, 2, 3}
    Factory = 1
    MaxRequests = 2
    SlowSends = TRUE
CHECK_DEADLOCK FALSE
INVARIANT SentIsWatched
PROPERTIES SentSettles BootsWhatWasCommanded
