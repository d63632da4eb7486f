CONSTANTS
    w1 = w1
    w2 = w2
    Writers <- MCWritersTwo
    Tracks <- MCTracksOne
    Protocols <- MCProtocolsTCP
    MaxFrames = 2
    MaxReports = 2
    MaxRequests = 6
    MaxServerMsgs = 1
SPECIFICATION FairSpec
INVARIANT WellFramed
CHECK_DEADLOCK FALSE
