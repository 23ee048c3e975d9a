SPECIFICATION FairSpec
CONSTANTS
    Kitchen = kitchen
    Hall = hall
    Endpoints = {kitchen, hall}
    Displays = {kitchen, hall}
    Speakers = {hall}
    Scenarios <- RoomScenarios
    MaxNotifications = 4
    MaxPending = 1
    MaxReconnects = 1
    NoSocket = NoSocket
CHECK_DEADLOCK FALSE
INVARIANTS TypeOK FinishedIsOffEveryScreen ActionRunsOnce
PROPERTIES KeepsDeliveryBook ActsWhileOpen NotificationSettles
