SPECIFICATION Spec
CONSTANTS
    Capacity = 1
    Priorities = {100, 200}
    VoiceAssistant = 200
    IntercomPriority = 230
    MaxToken = 3
    MaxRings = 1
    MaxCalls = 2
CHECK_DEADLOCK FALSE
INVARIANTS
    TypeOK
    OneOutput
    OwnerAlive
