--------------------------- MODULE RtpAacEncoder ---------------------------
(***************************************************************************)
(* rtpaac.Encoder (pkg/rtpaac/encoder.go): each Encode call turns one AAC *)
(* access unit into one RTP packet, or fails when the unit is too big.    *)
(* An access unit is abstracted to its length and its timestamp; the     *)
(* timestamp, ts.Seconds()*clockRate, is abstracted to the whole number   *)
(* of clock ticks it amounts to.  The packet is abstracted to the header *)
(* fields the encoder sets and the AU-size its AU-header carries.         *)
(*                                                                         *)
(* The RTP sequence number is a uint16 and the timestamp a uint32; both   *)
(* wrap.  Their widths are the constants SeqBits and TsBits (16 and 32 in *)
(* the code), so that TLC can reach the wrap in a few steps.  Platform is *)
(* the build's GOARCH: Go leaves the conversion of a float64 that does   *)
(* not fit to uint32 to the implementation.                               *)
(***************************************************************************)
EXTENDS Integers

CONSTANTS
    SeqBits,    \* width of sequenceNumber (uint16)
    TsBits,     \* width of the RTP timestamp (uint32)
    AULens,     \* lengths of the access units handed to Encode
    TickValues, \* ts.Seconds()*clockRate of those units, in clock ticks
    Platform    \* "amd64" or "arm64"

ASSUME EncoderAssumption ==
    /\ SeqBits \in Nat \ {0}
    /\ TsBits \in Nat \ {0}
    /\ AULens \subseteq Nat
    /\ TickValues \subseteq Nat
    /\ Platform \in {"amd64", "arm64"}

\* rtpPayloadMaxSize: 1500 (mtu) - 20 (ip) - 8 (udp) - 12 (rtp header).
RtpPayloadMaxSize == 1460

SeqMod == 2^SeqBits
TsMod == 2^TsBits

\* uint32(x) of a float64 x >= 0 that was truncated to a whole number.  A
\* value that does not fit is converted by the hardware: amd64 converts to
\* int64 and keeps the low bits, arm64 saturates.
ToUint32(x) ==
    IF x < TsMod THEN x
    ELSE IF Platform = "amd64" THEN x % TsMod ELSE TsMod - 1

\* The AU-header: uint16(len(at.AU)) << 3, big endian, 13 bits of AU-size
\* followed by 3 bits of AU-Index.  AUSizeOf reads the AU-size back.
AUHeader(len) == ((len % 65536) * 8) % 65536
AUSizeOf(header) == header \div 8

NoPacket == [seq |-> -1, ts |-> -1, ticks |-> -1, len |-> -1, auSize |-> -1,
             marker |-> FALSE]

VARIABLES
    sequenceNumber, \* e.sequenceNumber
    initialTs,      \* e.initialTs
    last,           \* the packet the last successful Encode returned
    prev,           \* the one before it (NoPacket if none)
    result          \* outcome of the last call: "none", "ok" or "tooBig"

vars == <<sequenceNumber, initialTs, last, prev, result>>

Packets == [seq : 0..SeqMod - 1, ts : 0..TsMod - 1, ticks : TickValues,
            len : AULens, auSize : 0..8191, marker : BOOLEAN]

TypeOK ==
    /\ sequenceNumber \in 0..SeqMod - 1
    /\ initialTs \in 0..TsMod - 1
    /\ last \in Packets \cup {NoPacket}
    /\ prev \in Packets \cup {NoPacket}
    /\ result \in {"none", "ok", "tooBig"}

\* NewEncoder: sequenceNumber and initialTs are the caller's or random.
Init ==
    /\ sequenceNumber \in 0..SeqMod - 1
    /\ initialTs \in 0..TsMod - 1
    /\ last = NoPacket
    /\ prev = NoPacket
    /\ result = "none"

\* Mutant: encodeTimestamp leaves out initialTs' wrap-around (saturating
\* addition).
EncodeTimestampSaturating(ticks) ==
    IF initialTs + ToUint32(ticks) < TsMod THEN initialTs + ToUint32(ticks)
    ELSE TsMod - 1

\* encodeTimestamp: e.initialTs + uint32(ts.Seconds()*e.clockRate).
EncodeTimestamp(ticks) == (initialTs + ToUint32(ticks)) % TsMod

\* Mutant: the sequence number is taken before the size check.
EncodeSeqFirst(len, ticks) ==
    /\ sequenceNumber' = (sequenceNumber + 1) % SeqMod
    /\ IF len > RtpPayloadMaxSize
         THEN result' = "tooBig" /\ UNCHANGED <<last, prev>>
         ELSE /\ last' = [seq |-> sequenceNumber, ts |-> EncodeTimestamp(ticks),
                          ticks |-> ticks, len |-> len,
                          auSize |-> AUSizeOf(AUHeader(len)), marker |-> TRUE]
              /\ prev' = last
              /\ result' = "ok"
    /\ UNCHANGED initialTs

\* Mutant: Encode without the rtpPayloadMaxSize check.
EncodeNoSizeCheck(len, ticks) ==
    /\ last' = [seq |-> sequenceNumber, ts |-> EncodeTimestamp(ticks),
                ticks |-> ticks, len |-> len,
                auSize |-> AUSizeOf(AUHeader(len)), marker |-> TRUE]
    /\ prev' = last
    /\ result' = "ok"
    /\ sequenceNumber' = (sequenceNumber + 1) % SeqMod
    /\ UNCHANGED initialTs

\* Encode(at): "data is too big" above rtpPayloadMaxSize; otherwise one
\* packet with the current sequence number, the encoded timestamp, the
\* AU-header and the marker bit, and sequenceNumber++ (a uint16).  Marshal
\* of a packet without extensions or padding does not fail.
Encode(len, ticks) ==
    /\ IF len > RtpPayloadMaxSize
         THEN /\ result' = "tooBig"
              /\ UNCHANGED <<sequenceNumber, last, prev>>
         ELSE /\ last' = [seq |-> sequenceNumber, ts |-> EncodeTimestamp(ticks),
                          ticks |-> ticks, len |-> len,
                          auSize |-> AUSizeOf(AUHeader(len)), marker |-> TRUE]
              /\ prev' = last
              /\ result' = "ok"
              /\ sequenceNumber' = (sequenceNumber + 1) % SeqMod
    /\ UNCHANGED initialTs

Next == \E len \in AULens, ticks \in TickValues : Encode(len, ticks)

Spec == Init /\ [][Next]_vars

-----------------------------------------------------------------------------
(* Properties                                                              *)

\* Every packet Encode returns carries in its AU-header the length of its
\* access unit: uint16(len)<<3 loses the top bits of a length of 8192 or
\* more, and only the rtpPayloadMaxSize check keeps such units out.
AUSizeExact ==
    last # NoPacket => last.auSize = last.len

\* Consecutive packets of one encoder have consecutive sequence numbers
\* modulo 2^16, across the uint16 wrap and across calls that failed with
\* "data is too big": a receiver sees no gap and no repeat.
SeqConsecutive ==
    prev # NoPacket => last.seq = (prev.seq + 1) % SeqMod

\* The RTP timestamps of two packets differ, modulo 2^32, by the number of
\* clock ticks between their access units, as RFC 3550 requires of a
\* timestamp that wraps, also after 2^32 ticks (13 hours at 90 kHz).
TimestampTracksTime ==
    prev # NoPacket =>
        (last.ts - prev.ts) % TsMod = (last.ticks - prev.ticks) % TsMod
=============================================================================
