CONSTANTS
    SeqBits = 2
    TsBits = 3
    AULens <- MCAULens
    TickValues <- MCTickValues
    Platform = "arm64"
SPECIFICATION Spec
INVARIANT
    TimestampTracksTime
