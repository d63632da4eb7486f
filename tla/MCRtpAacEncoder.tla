-------------------------- MODULE MCRtpAacEncoder ---------------------------
EXTENDS RtpAacEncoder

\* Lengths at and around rtpPayloadMaxSize and the 13-bit AU-size limit.
MCAULens == {0, 1460, 1461, 8192}
\* With TsBits = 3, 8 ticks stand for 2^32: values below, at and above it.
MCTickValues == {0, 1, 7, 9, 17}
=============================================================================
