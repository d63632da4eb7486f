CONSTANTS
    w1 = w1
    w2 = w2
    Writers <- MCWritersOne
    Tracks <- MCTracks
    Protocols <- MCProtocolsBoth
    MaxFrames = 2
    MaxReports = 2
    MaxRequests = 6
    MaxServerMsgs = 1
SPECIFICATION FairSpec
INVARIANT WellFramed
INVARIANT ReaderConfined
PROPERTY PauseTerminates
PROPERTY SessionRefinement
CHECK_DEADLOCK FALSE
