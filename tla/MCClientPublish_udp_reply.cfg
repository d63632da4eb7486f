CONSTANTS
    w1 = w1
    w2 = w2
    Writers <- MCWritersOne
    Tracks <- MCTracksOne
    Protocols <- MCProtocolsUDP
    MaxFrames = 2
    MaxReports = 2
    MaxRequests = 6
    MaxServerMsgs = 1
SPECIFICATION FairSpec
PROPERTY ServerReplySurfaced
CHECK_DEADLOCK FALSE
