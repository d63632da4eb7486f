CONSTANTS
    SeqBits = 2
    TsBits = 3
    AULens <- MCAULens
    TickValues <- MCTickValues
    Platform = "amd64"
SPECIFICATION Spec
INVARIANTS
    AUSizeExact
    SeqConsecutive
    TimestampTracksTime
