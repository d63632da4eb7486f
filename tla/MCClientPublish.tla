------------------------- MODULE MCClientPublish -------------------------
(***************************************************************************)
(* Small instances of ClientPublish for TLC.                               *)
(***************************************************************************)
EXTENDS ClientPublish

CONSTANTS w1, w2

\* One writer goroutine, both protocols possible, two tracks.
MCWritersOne == {w1}
\* Two writer goroutines publishing concurrently.
MCWritersTwo == {w1, w2}
MCTracks == {0, 1}
MCTracksOne == {0}
MCProtocolsBoth == {"udp", "tcp"}
MCProtocolsUDP == {"udp"}
MCProtocolsTCP == {"tcp"}
=============================================================================
