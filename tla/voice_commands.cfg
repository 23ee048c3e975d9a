SPECIFICATION Spec
CONSTANTS
    MaxCaptures = 2
    MaxMutes = 1
    MaxFrames = 2
    Capacity = 1
    House <- MCHouse
    Areas <- MCAreas
    Room = "Kitchen"
    Transcripts <- MCTranscripts
    NoArea = NoArea
INVARIANTS TypeOK NoOrphanSocket CommandIsOneCapture
PROPERTY AnswerComes
CHECK_DEADLOCK FALSE
