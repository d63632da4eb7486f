----------------------- MODULE ClientPublishFraming -------------------------
(***************************************************************************)
(* WellFramed for every number of tracks and every bound, when one writer *)
(* goroutine calls WriteFrame (with two, WriteFrame's read lock lets them *)
(* interleave: MCClientPublish_tcp_two_writers.cfg).  The argument is the *)
(* lock discipline of publishWriteMutex: the ticker and the deferred      *)
(* unpublish write only with no read-lock holder, the foreground writes   *)
(* only when no writer can hold the lock, and a header without its        *)
(* payload is either the writer's own, pending, or the last thing written *)
(* before the connection stopped accepting writes.                        *)
(***************************************************************************)
EXTENDS ClientPublishProofs

\* The stream property, for any sequence of chunks.
Framed(s) ==
    \A i \in 1..Len(s) :
        /\ s[i].k = "pay" => i > 1 /\ s[i - 1] = Hdr(s[i].src)
        /\ (s[i].k = "hdr" /\ i < Len(s)) => s[i + 1] = Pay(s[i].src)

\* The stream ends in a header whose payload has not been written.
Dangling(s) == Len(s) > 0 /\ s[Len(s)].k = "hdr"

\* One goroutine calls WriteFrame.
OneWriter == \A v, w \in Writers : v = w

\* publishOpen is true only while the Record state's loop has not finished
\* (Record sets it; the deferred unpublish and Close clear it).
PublishLive ==
    publishOpen => state = "record" /\ bgPc # "done"

\* A writer holds the read lock only in Record, before the loop finished:
\* the deferred unpublish takes the write lock after the last holder.
HoldersLive ==
    RLockHolders # {} => state = "record" /\ bgPc # "done"

\* A dangling header belongs to the writer about to write its payload, or
\* the connection no longer accepts writes.
DanglingOwned ==
    Dangling(tcpStream) =>
        (\E w \in Writers : wPc[w] = "tcpPay") \/ ~Writable

\* A writer between header and payload wrote the last chunk.
PayPending ==
    \A w \in Writers :
        wPc[w] = "tcpPay" => Len(tcpStream) > 0
                             /\ tcpStream[Len(tcpStream)] = Hdr(w)

\* The part of the invariant about the stream itself.
StreamInv == Framed(tcpStream) /\ DanglingOwned /\ PayPending

\* The inductive invariant behind WellFramed for one writer.  Framed alone
\* is not inductive: a report tick or a request must not find a header
\* without its payload at the end of the stream (DanglingOwned, with
\* HoldersLive for the goroutines that write only when no writer holds the
\* read lock), and the payload write must find its own header there
\* (PayPending).
FrameInv ==
    /\ TypeOK
    /\ CtlInv
    /\ PublishLive
    /\ HoldersLive
    /\ StreamInv
-----------------------------------------------------------------------------
(* What a write does to the framing of the stream.                         *)

\* One chunk appended: a payload must follow its own header, and a dangling
\* header may be followed only by its payload.  The stream then ends in a
\* dangling header exactly when the chunk was a header.
LEMMA FramedAppend ==
    ASSUME NEW s \in Seq(Chunk), NEW c \in Chunk, Framed(s),
           c.k = "pay" => Len(s) > 0 /\ s[Len(s)] = Hdr(c.src),
           Dangling(s) => c = Pay(s[Len(s)].src)
    PROVE  /\ Framed(Append(s, c))
           /\ Dangling(Append(s, c)) <=> c.k = "hdr"
<1>. DEFINE t == Append(s, c)
            L == Len(s)
<1>1. /\ L \in Nat /\ Len(t) = L + 1 /\ t[L + 1] = c
      /\ \A i \in 1..L : t[i] = s[i]
    BY AppendProperties, LenProperties
<1>2. ASSUME NEW i \in 1..Len(t), t[i].k = "pay"
      PROVE  i > 1 /\ t[i - 1] = Hdr(t[i].src)
    <2>1. CASE i <= L
        <3>1. i > 1 /\ s[i - 1] = Hdr(s[i].src)
            BY <1>1, <1>2, <2>1 DEF Framed
        <3>. QED
            BY <1>1, <2>1, <3>1
    <2>3. CASE i = L + 1
        BY <1>1, <1>2, <2>3
    <2>. QED
        BY <1>1, <2>1, <2>3
<1>3. ASSUME NEW i \in 1..Len(t), t[i].k = "hdr", i < Len(t)
      PROVE  t[i + 1] = Pay(t[i].src)
    <2>1. CASE i < L
        BY <1>1, <1>3, <2>1 DEF Framed
    <2>2. CASE i = L
        BY <1>1, <1>3, <2>2 DEF Dangling
    <2>. QED
        BY <1>1, <1>3, <2>1, <2>2
<1>4. Dangling(t) <=> c.k = "hdr"
    BY <1>1 DEF Dangling
<1>. QED
    BY <1>2, <1>3, <1>4 DEF Framed

\* The RTCP frames of a report tick, written after a complete message,
\* leave a framed stream that ends in a complete message.
LEMMA FramedReports ==
    ASSUME NEW s \in Seq(Chunk), NEW n \in Nat, Framed(s), ~Dangling(s)
    PROVE  /\ Framed(s \o ReportFrames(n))
           /\ ~Dangling(s \o ReportFrames(n))
<1>. DEFINE r == ReportFrames(n)
            t == s \o r
            L == Len(s)
<1>1. r \in Seq(Chunk)
    BY ReportFramesType
<1>2. Len(r) = 2 * n
    <2>1. DOMAIN r = 1..Len(r)
        BY <1>1, LenProperties
    <2>2. Len(r) \in Nat
        BY <1>1, LenProperties
    <2>3. DOMAIN r = 1..2 * n
        BY DEF ReportFrames
    <2>4. Len(r) >= 1 => Len(r) \in 1..2 * n
        BY <2>1, <2>3
    <2>5. n >= 1 => 2 * n \in 1..Len(r)
        BY <2>1, <2>3
    <2>. QED
        BY <2>2, <2>4, <2>5
<1>3. \A j \in 1..2 * n : r[j] = IF j % 2 = 1 THEN Hdr("bg") ELSE Pay("bg")
    BY DEF ReportFrames
<1>4. L \in Nat /\ Len(t) = L + 2 * n
    BY <1>1, <1>2, ConcatProperties, LenProperties
<1>5. \A i \in 1..L + 2 * n : t[i] = IF i <= L THEN s[i] ELSE r[i - L]
    BY <1>1, <1>2, ConcatProperties
\* A position past s is a report chunk: its parity says which half.
<1>6. ASSUME NEW i \in 1..Len(t), i > L
      PROVE  /\ i - L \in 1..2 * n
             /\ t[i] = r[i - L]
             /\ (i - L) % 2 = 1 => t[i] = Hdr("bg")
             /\ (i - L) % 2 = 0 => t[i] = Pay("bg")
    <2>1. i \in 1..L + 2 * n /\ i - L \in 1..2 * n
        BY <1>4, <1>6
    <2>2. t[i] = r[i - L]
        BY <1>5, <1>6, <2>1
    <2>. QED
        BY <1>3, <2>1, <2>2
<1>7. ASSUME NEW i \in 1..Len(t), i <= L
      PROVE  t[i] = s[i]
    BY <1>4, <1>5, <1>7
<1>8. ASSUME NEW i \in 1..Len(t), t[i].k = "pay"
      PROVE  i > 1 /\ t[i - 1] = Hdr(t[i].src)
    <2>1. CASE i <= L
        <3>1. i > 1 /\ s[i - 1] = Hdr(s[i].src)
            BY <1>7, <1>8, <2>1 DEF Framed
        <3>2. i - 1 \in 1..Len(t) /\ i - 1 <= L
            BY <1>4, <2>1, <3>1
        <3>. QED
            BY <1>7, <2>1, <3>1, <3>2
    <2>2. CASE i > L
        <3>1. (i - L) % 2 = 0 /\ t[i] = Pay("bg")
            BY <1>6, <1>8, <2>2 DEF Hdr, Pay
        <3>2. i - L \in 2..2 * n /\ (i - 1 - L) % 2 = 1
            BY <1>4, <2>2, <3>1
        <3>3. i - 1 \in 1..Len(t) /\ i - 1 > L
            BY <1>4, <2>2, <3>2
        <3>4. t[i - 1] = Hdr("bg")
            BY <1>6, <3>2, <3>3
        <3>. QED
            BY <3>1, <3>2, <3>4 DEF Pay
    <2>. QED
        BY <1>4, <2>1, <2>2
<1>9. ASSUME NEW i \in 1..Len(t), t[i].k = "hdr", i < Len(t)
      PROVE  t[i + 1] = Pay(t[i].src)
    <2>1. CASE i < L
        <3>1. s[i + 1] = Pay(s[i].src)
            BY <1>4, <1>7, <1>9, <2>1 DEF Framed
        <3>. QED
            BY <1>4, <1>7, <2>1, <3>1
    <2>2. CASE i = L
        BY <1>4, <1>7, <1>9, <2>2 DEF Dangling
    <2>3. CASE i > L
        <3>1. (i - L) % 2 = 1 /\ t[i] = Hdr("bg")
            BY <1>6, <1>9, <2>3 DEF Hdr, Pay
        <3>2. i + 1 \in 1..Len(t) /\ i + 1 > L /\ (i + 1 - L) % 2 = 0
            BY <1>4, <1>9, <2>3, <3>1
        <3>3. t[i + 1] = Pay("bg")
            BY <1>6, <3>2
        <3>. QED
            BY <3>1, <3>3 DEF Hdr
    <2>4. i < L \/ i = L \/ i > L
        BY <1>4
    <2>. QED
        BY <2>1, <2>2, <2>3, <2>4, Zenon
<1>10. ~Dangling(t)
    <2>1. CASE n = 0
        <3>1. Len(t) = L
            BY <1>4, <2>1
        <3>. QED
            BY <1>7, <1>4, <3>1 DEF Dangling
    <2>2. CASE n > 0
        <3>1. Len(t) \in 1..Len(t) /\ Len(t) > L /\ (Len(t) - L) % 2 = 0
            BY <1>4, <2>2
        <3>2. t[Len(t)] = Pay("bg")
            BY <1>6, <3>1
        <3>. QED
            BY <3>1, <3>2 DEF Dangling, Pay
    <2>. QED
        BY <2>1, <2>2
<1>. QED
    BY <1>8, <1>9, <1>10 DEF Framed
-----------------------------------------------------------------------------
(* PublishLive and HoldersLive, for any number of writers.                 *)

USE DEF sessVars, pubVars, bgVars, rdVars, srvVars, fgVars, wVars

\* A writer step adds a read-lock holder only when publishOpen is true:
\* the check under RLock is the only way into the write of a frame.
LEMMA HoldersGrow ==
    ASSUME TypeOK, NEW w \in Writers, WriterStep(w)
    PROVE  RLockHolders' # {} => RLockHolders # {} \/ publishOpen
<1>1. CASE WriterStart(w)
    <2>1. RLockHolders' = RLockHolders
        BY <1>1 DEF WriterStart, RLockHolders, TypeOK
    <2>. QED
        BY <2>1
<1>2. CASE WriteFrameCheck(w)
    <2>1. CASE ~publishOpen /\ publishError = "nil"
        <3>1. wPc' = wPc
            BY <1>2, <2>1, Zenon DEF WriteFrameCheck
        <3>. QED
            BY <3>1 DEF RLockHolders
    <2>2. CASE ~publishOpen /\ publishError # "nil"
        <3>1. wPc' = [wPc EXCEPT ![w] = "stopped"]
            BY <1>2, <2>2, Zenon DEF WriteFrameCheck
        <3>2. RLockHolders' \subseteq RLockHolders
            BY <3>1 DEF RLockHolders, TypeOK
        <3>. QED
            BY <3>2
    <2>. QED
        BY <2>1, <2>2
<1>3. CASE WriteFrameUDP(w) \/ WriteFrameTCPHeader(w)
           \/ WriteFrameTCPPayload(w)
    <2>1. w \in RLockHolders
        BY <1>3 DEF WriteFrameUDP, WriteFrameTCPHeader, WriteFrameTCPPayload,
           RLockHolders
    <2>. QED
        BY <2>1
<1>. QED
    BY <1>1, <1>2, <1>3 DEF WriterStep

\* Every step keeps PublishLive and HoldersLive: Record opens publishing
\* with a fresh loop; only the deferred unpublish moves the loop to done,
\* with publishOpen false and under the write lock; Pause and Close change
\* the state only outside Record or after the loop is done.
LEMMA LiveNext ==
    ASSUME TypeOK, CtlInv, PublishLive, HoldersLive, Next
    PROVE  PublishLive' /\ HoldersLive'
<1>. DEFINE Keep == UNCHANGED <<publishOpen, state, bgPc, wPc>>
<1>1. ASSUME Keep PROVE PublishLive' /\ HoldersLive'
    BY <1>1 DEF PublishLive, HoldersLive, RLockHolders
<1>2. CASE Announce \/ Setup
    BY <1>1, <1>2 DEF Announce, Setup, PublishLive, HoldersLive, RLockHolders
<1>3. CASE Record
    <2>1. CASE state' = "record" /\ publishOpen' = TRUE /\ bgPc' = "start"
        <3>1. state = "preRecord" /\ wPc' = wPc
            BY <1>3 DEF Record
        <3>2. RLockHolders' = RLockHolders /\ RLockHolders = {}
            BY <3>1 DEF HoldersLive, RLockHolders
        <3>. QED
            BY <2>1, <3>2 DEF PublishLive, HoldersLive
    <2>2. CASE ~(state' = "record" /\ publishOpen' = TRUE /\ bgPc' = "start")
        <3>1. UNCHANGED <<state, publishOpen, bgPc>>
            BY <1>3, <2>2, Zenon DEF Record
        <3>. QED
            BY <1>1, <1>3, <3>1 DEF Record
    <2>. QED
        BY <2>1, <2>2
<1>4. CASE BgDeferUnpublish
    <2>1. RLockHolders = {} /\ wPc' = wPc /\ publishOpen' = FALSE
        BY <1>4 DEF BgDeferUnpublish
    <2>. QED
        BY <2>1 DEF PublishLive, HoldersLive, RLockHolders
<1>5. CASE BgStep /\ ~BgDeferUnpublish
    <2>1. UNCHANGED <<publishOpen, state, wPc>> /\ bgPc' # "done"
        BY <1>5 DEF BgStep, BgStartUDP, BgStartTCP, BgSelectTick,
           TickReportsUDP, TickReportsTCP, BgTerminateUDP, BgWaitReader,
           BgReaderDone, BgTerminateTCP
    <2>. QED
        BY <2>1 DEF PublishLive, HoldersLive, RLockHolders, CtlInv
<1>6. ASSUME NEW w \in Writers, WriterStep(w)
      PROVE  PublishLive' /\ HoldersLive'
    <2>1. UNCHANGED <<publishOpen, state, bgPc>>
        BY <1>6 DEF WriterStep, WriterStart, WriteFrameCheck, WriteFrameUDP,
           WriteFrameTCPHeader, WriteFrameTCPPayload
    <2>. QED
        BY <1>6, <2>1, HoldersGrow DEF PublishLive, HoldersLive
<1>7. CASE PauseReply \/ CloseFinish
    <2>1. bgPc = "done" /\ UNCHANGED <<bgPc, wPc>>
          /\ (publishOpen' = FALSE \/ publishOpen' = publishOpen)
        BY <1>7 DEF PauseReply, CloseFinish, CtlInv
    <2>. QED
        BY <2>1 DEF PublishLive, HoldersLive, RLockHolders
<1>8. CASE CloseStart
    <2>1. UNCHANGED <<publishOpen, bgPc, wPc>>
          /\ (state' = state \/ state # "record")
        BY <1>8, Zenon DEF CloseStart
    <2>. QED
        BY <2>1 DEF PublishLive, HoldersLive, RLockHolders
<1>9. CASE ReaderReadResponse \/ ReaderReadError \/ PauseStart \/ PauseDo
           \/ ServerSendResponse \/ ServerHangup
    BY <1>1, <1>9 DEF ReaderReadResponse, ReaderReadError, PauseStart,
       PauseDo, ServerSendResponse, ServerHangup
<1>. QED
    BY <1>2, <1>3, <1>4, <1>5, <1>6, <1>7, <1>8, <1>9 DEF Next
-----------------------------------------------------------------------------
(* The stream part.                                                        *)

\* A step that writes nothing, moves no writer into or out of the payload
\* write, and does not make the connection writable again keeps StreamInv.
LEMMA StreamKeep ==
    ASSUME StreamInv, UNCHANGED tcpStream, Writable' => Writable,
           \A v \in Writers : wPc'[v] = "tcpPay" <=> wPc[v] = "tcpPay"
    PROVE  StreamInv'
BY DEF StreamInv, DanglingOwned, PayPending, Dangling

\* A writer step that leaves frame.Write's payload half alone.
LEMMA PayWritersSame ==
    ASSUME TypeOK, NEW w \in Writers, NEW x, wPc' = [wPc EXCEPT ![w] = x],
           wPc[w] # "tcpPay", x # "tcpPay"
    PROVE  \A v \in Writers : wPc'[v] = "tcpPay" <=> wPc[v] = "tcpPay"
BY DEF TypeOK

\* A complete message (a request, or a tick's RTCP frames) written while no
\* writer is between header and payload keeps StreamInv.
LEMMA StreamMessage ==
    ASSUME TypeOK, StreamInv, Writable,
           \A v \in Writers : wPc[v] # "tcpPay",
           \/ tcpStream' = Append(tcpStream, Req)
           \/ \E n \in Nat : tcpStream' = tcpStream \o ReportFrames(n),
           wPc' = wPc
    PROVE  StreamInv'
<1>1. ~Dangling(tcpStream) /\ Framed(tcpStream) /\ tcpStream \in Seq(Chunk)
    BY DEF StreamInv, DanglingOwned, TypeOK
<1>2. Framed(tcpStream') /\ ~Dangling(tcpStream')
    <2>1. CASE tcpStream' = Append(tcpStream, Req)
        <3>1. Req \in Chunk /\ Req.k # "pay" /\ Req.k # "hdr"
            BY DEF Req, Chunk
        <3>. QED
            BY <1>1, <2>1, <3>1, FramedAppend
    <2>2. CASE \E n \in Nat : tcpStream' = tcpStream \o ReportFrames(n)
        BY <1>1, <2>2, FramedReports
    <2>. QED
        BY <2>1, <2>2
<1>. QED
    BY <1>2 DEF StreamInv, DanglingOwned, PayPending

\* The header write of the only writer: no other writer can have left a
\* header behind while the connection is writable.
LEMMA StreamHeader ==
    ASSUME OneWriter, TypeOK, StreamInv, NEW w \in Writers,
           WriteFrameTCPHeader(w)
    PROVE  StreamInv'
<1>1. \A v \in Writers : v = w /\ wPc[v] = "tcpHdr"
    BY DEF OneWriter, WriteFrameTCPHeader
<1>2. CASE Writable
    <2>1. tcpStream' = Append(tcpStream, Hdr(w))
          /\ wPc' = [wPc EXCEPT ![w] = "tcpPay"]
        BY <1>2, Zenon DEF WriteFrameTCPHeader
    <2>2. ~Dangling(tcpStream) /\ Framed(tcpStream) /\ tcpStream \in Seq(Chunk)
        BY <1>1, <1>2 DEF StreamInv, DanglingOwned, TypeOK
    <2>3. Hdr(w) \in Chunk /\ Hdr(w).k = "hdr"
        BY DEF Hdr, Chunk
    <2>4. Framed(tcpStream') /\ Dangling(tcpStream')
        BY <2>1, <2>2, <2>3, FramedAppend
    <2>5. Len(tcpStream') > 0 /\ tcpStream'[Len(tcpStream')] = Hdr(w)
        BY <2>1, <2>2, <2>3, AppendProperties
    <2>6. wPc'[w] = "tcpPay"
        BY <2>1 DEF TypeOK
    <2>. QED
        BY <1>1, <2>4, <2>5, <2>6 DEF StreamInv, DanglingOwned, PayPending
<1>3. CASE ~Writable
    <2>1. wPc' = [wPc EXCEPT ![w] = "stopped"] /\ UNCHANGED tcpStream
          /\ ~Writable'
        BY <1>3, Zenon DEF WriteFrameTCPHeader, Writable
    <2>. QED
        BY <1>1, <2>1 DEF StreamInv, DanglingOwned, PayPending, TypeOK
<1>. QED
    BY <1>2, <1>3

\* The payload write finds its own header at the end of the stream.
LEMMA StreamPayload ==
    ASSUME OneWriter, TypeOK, StreamInv, NEW w \in Writers,
           WriteFrameTCPPayload(w)
    PROVE  StreamInv'
<1>1. /\ \A v \in Writers : v = w
      /\ Len(tcpStream) > 0 /\ tcpStream[Len(tcpStream)] = Hdr(w)
    BY DEF OneWriter, WriteFrameTCPPayload, StreamInv, PayPending
<1>2. CASE Writable
    <2>1. tcpStream' = Append(tcpStream, Pay(w))
          /\ wPc' = [wPc EXCEPT ![w] = "idle"]
        BY <1>2, Zenon DEF WriteFrameTCPPayload
    <2>2. Framed(tcpStream) /\ tcpStream \in Seq(Chunk)
        BY DEF StreamInv, TypeOK
    <2>3. Pay(w) \in Chunk /\ Pay(w).k = "pay" /\ Pay(w).src = w
          /\ Hdr(w).src = w
        BY DEF Pay, Hdr, Chunk
    <2>4. Framed(tcpStream') /\ ~Dangling(tcpStream')
        BY <1>1, <2>1, <2>2, <2>3, FramedAppend
    <2>5. wPc'[w] = "idle"
        BY <2>1 DEF TypeOK
    <2>. QED
        BY <1>1, <2>4, <2>5 DEF StreamInv, DanglingOwned, PayPending
<1>3. CASE ~Writable
    <2>1. wPc' = [wPc EXCEPT ![w] = "stopped"] /\ UNCHANGED tcpStream
          /\ ~Writable'
        BY <1>3, Zenon DEF WriteFrameTCPPayload, Writable
    <2>. QED
        BY <1>1, <2>1 DEF StreamInv, DanglingOwned, PayPending, TypeOK
<1>. QED
    BY <1>2, <1>3
\* With one writer every step keeps StreamInv.
LEMMA StreamNext ==
    ASSUME OneWriter, TypeOK, CtlInv, HoldersLive, StreamInv, Next
    PROVE  StreamInv'
<1>. DEFINE NoPay == \A v \in Writers : wPc[v] # "tcpPay"
<1>1. ASSUME UNCHANGED <<tcpStream, wPc, connOpen, srvClosed>>
      PROVE  StreamInv'
    BY <1>1, StreamKeep DEF Writable
<1>2. ASSUME RLockHolders = {} PROVE NoPay
    BY <1>2 DEF RLockHolders
<1>3. CASE Announce \/ Setup \/ Record
    <2>1. /\ state \in {"initial", "preRecord"} /\ Writable /\ wPc' = wPc
          /\ tcpStream' = Append(tcpStream, Req)
        BY <1>3 DEF Announce, Setup, Record, SendRequest
    <2>2. NoPay
        BY <1>2, <2>1 DEF HoldersLive
    <2>. QED
        BY <2>1, <2>2, StreamMessage
<1>4. CASE TickReportsTCP
    <2>1. PICK n \in 0..Cardinality(setupTracks) :
              tcpStream' = IF Writable THEN tcpStream \o ReportFrames(n)
                                       ELSE tcpStream
        BY <1>4 DEF TickReportsTCP
    <2>2. RLockHolders = {} /\ UNCHANGED <<wPc, connOpen, srvClosed>>
        BY <1>4 DEF TickReportsTCP
    <2>3. n \in Nat
        BY SetupTracksCard
    <2>4. CASE Writable
        BY <1>2, <2>1, <2>2, <2>3, <2>4, StreamMessage
    <2>5. CASE ~Writable
        BY <1>1, <2>1, <2>2, <2>5
    <2>. QED
        BY <2>4, <2>5
<1>5. CASE BgStep /\ ~TickReportsTCP
    BY <1>1, <1>5 DEF BgStep, BgStartUDP, BgStartTCP, BgSelectTick,
       TickReportsUDP, BgTerminateUDP, BgWaitReader, BgReaderDone,
       BgTerminateTCP, BgDeferUnpublish
<1>6. CASE ReaderReadResponse \/ ReaderReadError \/ PauseStart
           \/ PauseReply \/ CloseFinish \/ ServerSendResponse
    BY <1>1, <1>6 DEF ReaderReadResponse, ReaderReadError, PauseStart,
       PauseReply, CloseFinish, ServerSendResponse
<1>7. CASE PauseDo
    <2>1. bgPc = "done" /\ wPc' = wPc /\ UNCHANGED <<connOpen, srvClosed>>
        BY <1>7 DEF PauseDo
    <2>2. NoPay
        BY <1>2, <2>1 DEF HoldersLive
    <2>3. CASE Writable
        <3>1. tcpStream' = Append(tcpStream, Req)
            BY <1>7, <2>3, Zenon DEF PauseDo
        <3>. QED
            BY <2>1, <2>2, <2>3, <3>1, StreamMessage
    <2>4. CASE ~Writable
        <3>1. UNCHANGED tcpStream
            BY <1>7, <2>4, Zenon DEF PauseDo
        <3>. QED
            BY <1>1, <2>1, <3>1
    <2>. QED
        BY <2>3, <2>4
<1>8. CASE CloseStart \/ ServerHangup
    <2>1. UNCHANGED <<tcpStream, wPc>> /\ ~Writable'
        BY <1>8 DEF CloseStart, ServerHangup, Writable
    <2>. QED
        BY <2>1, StreamKeep
<1>9. ASSUME NEW w \in Writers, WriterStep(w) PROVE StreamInv'
    <2>1. CASE WriterStart(w) \/ WriteFrameUDP(w)
        <3>1. PICK x \in {"idle", "stopped"} : wPc' = [wPc EXCEPT ![w] = x]
            BY <2>1, Zenon DEF WriterStart, WriteFrameUDP
        <3>2. wPc[w] # "tcpPay" /\ UNCHANGED <<tcpStream, connOpen, srvClosed>>
            BY <2>1 DEF WriterStart, WriteFrameUDP
        <3>. QED
            BY <3>1, <3>2, PayWritersSame, StreamKeep DEF Writable
    <2>2. CASE WriteFrameCheck(w)
        <3>1. wPc[w] = "idle" /\ UNCHANGED <<tcpStream, connOpen, srvClosed>>
            BY <2>2 DEF WriteFrameCheck
        <3>2. \/ wPc' = wPc
              \/ \E x \in {"udp", "tcpHdr", "stopped"} :
                     wPc' = [wPc EXCEPT ![w] = x]
            BY <2>2, Zenon DEF WriteFrameCheck
        <3>3. \A v \in Writers : wPc'[v] = "tcpPay" <=> wPc[v] = "tcpPay"
            BY <3>1, <3>2, PayWritersSame
        <3>. QED
            BY <3>1, <3>3, StreamKeep DEF Writable
    <2>3. CASE WriteFrameTCPHeader(w)
        BY <2>3, StreamHeader
    <2>4. CASE WriteFrameTCPPayload(w)
        BY <2>4, StreamPayload
    <2>. QED
        BY <1>9, <2>1, <2>2, <2>3, <2>4 DEF WriterStep
<1>. QED
    BY <1>3, <1>4, <1>5, <1>6, <1>7, <1>8, <1>9 DEF Next

-----------------------------------------------------------------------------

\* FrameInv holds initially: nothing has been written.
LEMMA FrameInvInit ==
    ASSUME Init
    PROVE  FrameInv
<1>1. TypeOK
    BY TypeOKInit
<1>2. Len(tcpStream) = 0
    BY EmptySeq DEF Init
<1>. QED
    BY <1>1, <1>2 DEF Init, FrameInv, CtlInv, ReaderAlive, PublishLive,
       HoldersLive, RLockHolders, StreamInv, Framed, DanglingOwned, Dangling,
       PayPending

\* With one writer, every step or stutter keeps FrameInv.
LEMMA FrameInvNext ==
    ASSUME OneWriter, FrameInv, [Next]_vars
    PROVE  FrameInv'
<1>1. CASE Next
    BY <1>1, TypeOKNext, CtlInvNext, LiveNext, StreamNext DEF FrameInv
<1>2. CASE UNCHANGED vars
    BY <1>2 DEF vars, FrameInv, TypeOK, CtlInv, ReaderAlive, PublishLive,
       HoldersLive, RLockHolders, StreamInv, Framed, DanglingOwned, Dangling,
       Writable, PayPending
<1>. QED
    BY <1>1, <1>2

\* When a single goroutine calls WriteFrame, the control connection of a
\* TCP publisher carries whole messages in every behaviour, for every set
\* of tracks and every bound: each interleaved header is followed by its
\* own payload, because the report ticker, the deferred unpublish and
\* Pause write only when publishWriteMutex has no reader, and a header
\* left alone by a failed payload write is the last thing ever written.
THEOREM WellFramedOneWriter ==
    ASSUME OneWriter
    PROVE  Spec => []WellFramed
<1>1. Init => FrameInv
    BY FrameInvInit
<1>2. FrameInv /\ [Next]_vars => FrameInv'
    BY FrameInvNext
<1>3. FrameInv => WellFramed
    BY DEF FrameInv, StreamInv, Framed, WellFramed
<1>. QED
    BY <1>1, <1>2, <1>3, PTL DEF Spec
=============================================================================
