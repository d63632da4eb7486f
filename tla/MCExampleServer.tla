--------------------------- MODULE MCExampleServer --------------------------
EXTENDS ExampleServer, TLC

CONSTANTS c1, c2

\* Two connection slots, reused after each handler returns: a publisher and
\* a reader at once, or two clients racing to ANNOUNCE.
MCConns == {c1, c2}
MCTracks == {0, 1}
MCPaths == {"teststream", "test12stream"}
=============================================================================
