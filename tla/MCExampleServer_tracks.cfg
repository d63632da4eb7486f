CONSTANTS
    c1 = c1
    c2 = c2
    NoConn = NoConn
    NoPath = NoPath
    Conns <- MCConns
    Tracks <- MCTracks
    Paths <- MCPaths
SPECIFICATION Spec
INVARIANT
    ForwardOnlySetupTracks
