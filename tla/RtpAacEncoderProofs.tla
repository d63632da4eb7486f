------------------------ MODULE RtpAacEncoderProofs -------------------------
(***************************************************************************)
(* Proofs about rtpaac.Encoder.  AUSizeExact and SeqConsecutive hold for  *)
(* every width of the sequence number and timestamp and every set of      *)
(* access units; TimestampTracksTime for the code's uint32 timestamp on   *)
(* amd64 (on arm64 it fails: MCRtpAacEncoder_arm64.cfg).                  *)
(***************************************************************************)
EXTENDS RtpAacEncoder, TLAPS

\* What Encode keeps between calls: the packet it returned last carries the
\* sequence number just before e.sequenceNumber, and a unit that fits.
SeqInv ==
    /\ last # NoPacket => sequenceNumber = (last.seq + 1) % SeqMod
    /\ prev # NoPacket => last # NoPacket /\ SeqConsecutive

AUInv ==
    last # NoPacket => /\ last.len \in 0..RtpPayloadMaxSize
                       /\ AUSizeExact

\* The packets keep their timestamps relative to e.initialTs (amd64).
TsInv ==
    /\ initialTs \in Int
    /\ last # NoPacket => last.ticks \in Nat
                          /\ last.ts = (initialTs + last.ticks) % TsMod
    /\ prev # NoPacket => last # NoPacket /\ prev.ticks \in Nat
                          /\ prev.ts = (initialTs + prev.ticks) % TsMod

\* A packet Encode returns is never NoPacket: its marker bit is set.
LEMMA PacketNotNone ==
    ASSUME NEW len, NEW ticks
    PROVE  [seq |-> sequenceNumber, ts |-> EncodeTimestamp(ticks),
            ticks |-> ticks, len |-> len,
            auSize |-> AUSizeOf(AUHeader(len)), marker |-> TRUE] # NoPacket
BY DEF NoPacket

\* uint16(len) << 3 keeps the length of a unit that passed the size check.
LEMMA AUHeaderRoundTrip ==
    ASSUME NEW len \in 0..RtpPayloadMaxSize
    PROVE  AUSizeOf(AUHeader(len)) = len
BY DEF AUSizeOf, AUHeader, RtpPayloadMaxSize

-----------------------------------------------------------------------------
(* AU-size and sequence numbers, for every width.                          *)

LEMMA AUInvNext ==
    ASSUME AUInv, [Next]_vars
    PROVE  AUInv'
<1>1. CASE UNCHANGED vars
    BY <1>1 DEF AUInv, AUSizeExact, vars
<1>2. CASE Next
    <2>1. PICK len \in AULens, ticks \in TickValues : Encode(len, ticks)
        BY <1>2 DEF Next
    <2>2. CASE len > RtpPayloadMaxSize
        BY <2>1, <2>2 DEF Encode, AUInv, AUSizeExact
    <2>3. CASE ~(len > RtpPayloadMaxSize)
        <3>1. len \in 0..RtpPayloadMaxSize
            BY <2>3, EncoderAssumption DEF RtpPayloadMaxSize
        <3>2. last'.len = len /\ last'.auSize = AUSizeOf(AUHeader(len))
            BY <2>1, <2>3 DEF Encode
        <3>. QED
            BY <3>1, <3>2, AUHeaderRoundTrip DEF AUInv, AUSizeExact
    <2>. QED
        BY <2>2, <2>3
<1>. QED
    BY <1>1, <1>2

\* For every width, every packet's AU-header carries its unit's length:
\* the rtpPayloadMaxSize check of Encode keeps out the lengths that
\* uint16(len)<<3 would truncate.
THEOREM AUSizeExactHolds == Spec => []AUSizeExact
<1>1. Init => AUInv
    BY DEF Init, AUInv
<1>2. AUInv /\ [Next]_vars => AUInv'
    BY AUInvNext
<1>3. AUInv => AUSizeExact
    BY DEF AUInv, AUSizeExact
<1>. QED
    BY <1>1, <1>2, <1>3, PTL DEF Spec

LEMMA SeqInvNext ==
    ASSUME SeqInv, [Next]_vars
    PROVE  SeqInv'
<1>1. CASE UNCHANGED vars
    BY <1>1 DEF SeqInv, SeqConsecutive, vars
<1>2. CASE Next
    <2>1. PICK len \in AULens, ticks \in TickValues : Encode(len, ticks)
        BY <1>2 DEF Next
    <2>2. CASE len > RtpPayloadMaxSize
        BY <2>1, <2>2 DEF Encode, SeqInv, SeqConsecutive
    <2>3. CASE ~(len > RtpPayloadMaxSize)
        <3>1. /\ last'.seq = sequenceNumber
              /\ last' # NoPacket
              /\ prev' = last
              /\ sequenceNumber' = (sequenceNumber + 1) % SeqMod
            BY <2>1, <2>3, PacketNotNone DEF Encode
        <3>. QED
            BY <3>1 DEF SeqInv, SeqConsecutive
    <2>. QED
        BY <2>2, <2>3
<1>. QED
    BY <1>1, <1>2

\* For every width, consecutive packets have consecutive sequence numbers
\* modulo 2^SeqBits: a failed Encode does not consume a number, and the
\* uint16 wrap leaves no gap.
THEOREM SeqConsecutiveHolds == Spec => []SeqConsecutive
<1>1. Init => SeqInv
    BY DEF Init, SeqInv
<1>2. SeqInv /\ [Next]_vars => SeqInv'
    BY SeqInvNext
<1>3. SeqInv => SeqConsecutive
    BY DEF SeqInv, SeqConsecutive
<1>. QED
    BY <1>1, <1>2, <1>3, PTL DEF Spec

-----------------------------------------------------------------------------
(* Timestamps, for the code's uint32 on amd64.                             *)

Uint32Amd64 == TsBits = 32 /\ Platform = "amd64"

\* The uint32 conversion wraps on amd64.
LEMMA ToUint32Wraps ==
    ASSUME Uint32Amd64, NEW a \in Int, NEW x \in Nat
    PROVE  (a + ToUint32(x)) % TsMod = (a + x) % TsMod
<1>1. TsMod = 2^32
    BY DEF Uint32Amd64, TsMod
<1>. QED
    BY <1>1 DEF ToUint32, Uint32Amd64

LEMMA TsInvNext ==
    ASSUME Uint32Amd64, TsInv, [Next]_vars
    PROVE  TsInv'
<1>1. CASE UNCHANGED vars
    BY <1>1 DEF TsInv, vars
<1>2. CASE Next
    <2>1. PICK len \in AULens, ticks \in TickValues : Encode(len, ticks)
        BY <1>2 DEF Next
    <2>2. CASE len > RtpPayloadMaxSize
        BY <2>1, <2>2 DEF Encode, TsInv
    <2>3. CASE ~(len > RtpPayloadMaxSize)
        <3>1. ticks \in Nat
            BY EncoderAssumption
        <3>2. /\ last'.ts = EncodeTimestamp(ticks)
              /\ last'.ticks = ticks
              /\ last' # NoPacket
              /\ prev' = last
              /\ initialTs' = initialTs
            BY <2>1, <2>3, PacketNotNone DEF Encode
        <3>3. EncodeTimestamp(ticks) = (initialTs + ticks) % TsMod
            BY <3>1, ToUint32Wraps DEF EncodeTimestamp, TsInv
        <3>. QED
            BY <3>1, <3>2, <3>3 DEF TsInv
    <2>. QED
        BY <2>2, <2>3
<1>. QED
    BY <1>1, <1>2

\* With the code's uint32 timestamp on amd64, the timestamps of two packets
\* differ, modulo 2^32, by the clock ticks between their access units, also
\* once ts.Seconds()*clockRate has grown past 2^32.
THEOREM TimestampTracksTimeHolds ==
    ASSUME Uint32Amd64
    PROVE  Spec => []TimestampTracksTime
<1>1. Init => TsInv
    BY EncoderAssumption DEF Init, TsInv
<1>2. TsInv /\ [Next]_vars => TsInv'
    BY TsInvNext
<1>3. TsInv => TimestampTracksTime
    <2> SUFFICES ASSUME TsInv, prev # NoPacket
                 PROVE  (last.ts - prev.ts) % TsMod
                            = (last.ticks - prev.ticks) % TsMod
        BY DEF TimestampTracksTime
    <2>1. TsMod = 2^32
        BY DEF Uint32Amd64, TsMod
    <2>2. /\ initialTs \in Int /\ last.ticks \in Nat /\ prev.ticks \in Nat
          /\ last.ts = (initialTs + last.ticks) % 2^32
          /\ prev.ts = (initialTs + prev.ticks) % 2^32
        BY <2>1 DEF TsInv
    <2>3. (((initialTs + last.ticks) % 2^32) - ((initialTs + prev.ticks) % 2^32))
             % 2^32 = (last.ticks - prev.ticks) % 2^32
        BY <2>2, SMT
    <2>. QED
        BY <2>1, <2>2, <2>3, Zenon
<1>. QED
    BY <1>1, <1>2, <1>3, PTL DEF Spec
=============================================================================
