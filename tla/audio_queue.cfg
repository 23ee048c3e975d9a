SPECIFICATION FairSpec
CONSTANTS
    Capacity = 2
    Priorities = {100, 200, 255}
    VoiceAssistant = 200
    IntercomPriority = 230
    MaxToken = 4
    MaxRings = 1
    MaxCalls = 0
CHECK_DEADLOCK FALSE
INVARIANTS
    ScheduledHasRecord
    OutvotedIsStopped
PROPERTIES
    KeepsAudioQueue
    ActivePlays
