------------------------ MODULE ClientPublishProofs ------------------------
(***************************************************************************)
(* Proofs about ClientPublish, for every value of the constants.           *)
(***************************************************************************)
EXTENDS ClientPublish, SequenceTheorems, FiniteSetTheorems, TLAPS

\* The RTCP frames a report tick writes are a sequence of chunks.
LEMMA ReportFramesType ==
    ASSUME NEW n \in Nat
    PROVE  ReportFrames(n) \in Seq(Chunk)
<1>1. Hdr("bg") \in Chunk /\ Pay("bg") \in Chunk
    BY DEF Chunk, Hdr, Pay
<1>2. ReportFrames(n) \in [1..2 * n -> Chunk]
    BY <1>1 DEF ReportFrames
<1>. QED
    BY <1>2, SeqDef

\* The number of set-up tracks is a natural number.
LEMMA SetupTracksCard ==
    ASSUME TypeOK
    PROVE  Cardinality(setupTracks) \in Nat
BY ConstantsAssumption, FS_Subset, FS_CardinalityType DEF TypeOK

\* The bounds on the model's counters are natural numbers.
LEMMA BoundsNat ==
    /\ MaxFrames \in Nat /\ MaxReports \in Nat
    /\ MaxRequests \in Nat /\ MaxServerMsgs \in Nat
BY ConstantsAssumption

\* The definitions every type-preservation step expands.
USE DEF sessVars, pubVars, bgVars, rdVars, srvVars, fgVars, wVars

\* Record keeps the types, in both outcomes of the RECORD request.
LEMMA RecordType ==
    ASSUME TypeOK, Record
    PROVE  TypeOK'
<1>1. PICK ok \in BOOLEAN :
          IF ok /\ setupTracks = Tracks
          THEN /\ state' = "record" /\ publishOpen' = TRUE
               /\ terminate' = FALSE /\ bgPc' = "start"
          ELSE UNCHANGED <<state, publishOpen, terminate, bgPc>>
    BY Zenon DEF Record
<1>2. Req \in Chunk
    BY DEF Req, Chunk
<1>3. /\ SendRequest
      /\ UNCHANGED <<setupTracks, streamProtocol, publishError, reports,
                     rdVars, srvVars, fgPc, connOpen, wVars>>
    BY Zenon DEF Record
<1>4. CASE ok /\ setupTracks = Tracks
    <2>1. state' = "record" /\ publishOpen' = TRUE /\ terminate' = FALSE
          /\ bgPc' = "start"
        BY <1>1, <1>4, Zenon
    <2>2. /\ state' \in States /\ publishOpen' \in BOOLEAN
          /\ terminate' \in BOOLEAN
        BY <2>1, Zenon DEF States
    <2>3. reqs' \in Nat /\ tcpStream' \in Seq(Chunk)
        BY <1>2, <1>3, AppendProperties DEF TypeOK, SendRequest
    <2>. QED
        BY <2>1, <2>2, <2>3, <1>3 DEF TypeOK
<1>5. CASE ~(ok /\ setupTracks = Tracks)
    <2>1. UNCHANGED <<state, publishOpen, terminate, bgPc>>
        BY <1>1, <1>5, Zenon
    <2>. QED
        BY <2>1, <1>3, <1>2, BoundsNat, AppendProperties
        DEF TypeOK, SendRequest
<1>. QED
    BY <1>4, <1>5

\* WriteFrame's check under the read lock keeps the types.
LEMMA WriteFrameCheckType ==
    ASSUME TypeOK, NEW w \in Writers, WriteFrameCheck(w)
    PROVE  TypeOK'
<1>. USE BoundsNat DEF TypeOK
<1>1. calls' \in [Writers -> 0..MaxFrames]
    BY DEF WriteFrameCheck
<1>2. CASE publishOpen
    <2>1. /\ wPc' = [wPc EXCEPT ![w] = IF streamProtocol = "udp" THEN "udp"
                                                               ELSE "tcpHdr"]
          /\ oks' = oks
        BY <1>2, Zenon DEF WriteFrameCheck
    <2>. QED
        BY <1>1, <2>1 DEF WriteFrameCheck
<1>3. CASE ~publishOpen /\ publishError = "nil"
    <2>1. oks' = [oks EXCEPT ![w] = @ + 1] /\ wPc' = wPc
        BY <1>3, Zenon DEF WriteFrameCheck
    <2>. QED
        BY <1>1, <2>1 DEF WriteFrameCheck
<1>4. CASE ~publishOpen /\ publishError # "nil"
    <2>1. wPc' = [wPc EXCEPT ![w] = "stopped"] /\ oks' = oks
        BY <1>4, Zenon DEF WriteFrameCheck
    <2>. QED
        BY <1>1, <2>1 DEF WriteFrameCheck
<1>. QED
    BY <1>2, <1>3, <1>4

\* The UDP write keeps the types.
LEMMA WriteFrameUDPType ==
    ASSUME TypeOK, NEW w \in Writers, WriteFrameUDP(w)
    PROVE  TypeOK'
<1>. USE BoundsNat DEF TypeOK
<1>1. CASE connOpen
    <2>1. /\ wPc' = [wPc EXCEPT ![w] = "idle"]
          /\ sent' = [sent EXCEPT ![w] = @ + 1]
          /\ oks' = [oks EXCEPT ![w] = @ + 1]
        BY <1>1, Zenon DEF WriteFrameUDP
    <2>. QED
        BY <2>1 DEF WriteFrameUDP
<1>2. CASE ~connOpen
    <2>1. wPc' = [wPc EXCEPT ![w] = "stopped"] /\ sent' = sent /\ oks' = oks
        BY <1>2, Zenon DEF WriteFrameUDP
    <2>. QED
        BY <2>1 DEF WriteFrameUDP
<1>. QED
    BY <1>1, <1>2

\* The write of an interleaved frame header keeps the types.
LEMMA WriteFrameTCPHeaderType ==
    ASSUME TypeOK, NEW w \in Writers, WriteFrameTCPHeader(w)
    PROVE  TypeOK'
<1>. USE BoundsNat DEF TypeOK
<1>1. Hdr(w) \in Chunk
    BY DEF Hdr, Chunk
<1>2. CASE Writable
    <2>1. tcpStream' = Append(tcpStream, Hdr(w))
          /\ wPc' = [wPc EXCEPT ![w] = "tcpPay"]
        BY <1>2, Zenon DEF WriteFrameTCPHeader
    <2>. QED
        BY <1>1, <2>1, AppendProperties DEF WriteFrameTCPHeader
<1>3. CASE ~Writable
    <2>1. wPc' = [wPc EXCEPT ![w] = "stopped"] /\ tcpStream' = tcpStream
        BY <1>3, Zenon DEF WriteFrameTCPHeader
    <2>. QED
        BY <2>1 DEF WriteFrameTCPHeader
<1>. QED
    BY <1>2, <1>3

\* The write of an interleaved frame payload keeps the types.
LEMMA WriteFrameTCPPayloadType ==
    ASSUME TypeOK, NEW w \in Writers, WriteFrameTCPPayload(w)
    PROVE  TypeOK'
<1>. USE BoundsNat DEF TypeOK
<1>1. Pay(w) \in Chunk
    BY DEF Pay, Chunk
<1>2. CASE Writable
    <2>1. /\ tcpStream' = Append(tcpStream, Pay(w))
          /\ wPc' = [wPc EXCEPT ![w] = "idle"]
          /\ sent' = [sent EXCEPT ![w] = @ + 1]
          /\ oks' = [oks EXCEPT ![w] = @ + 1]
        BY <1>2, Zenon DEF WriteFrameTCPPayload
    <2>. QED
        BY <1>1, <2>1, AppendProperties DEF WriteFrameTCPPayload
<1>3. CASE ~Writable
    <2>1. /\ wPc' = [wPc EXCEPT ![w] = "stopped"]
          /\ UNCHANGED <<tcpStream, sent, oks>>
        BY <1>3, Zenon DEF WriteFrameTCPPayload
    <2>. QED
        BY <2>1 DEF WriteFrameTCPPayload
<1>. QED
    BY <1>2, <1>3

\* PAUSE's request keeps the types, whether or not the write succeeds.
LEMMA PauseDoType ==
    ASSUME TypeOK, PauseDo
    PROVE  TypeOK'
<1>. USE BoundsNat DEF TypeOK
<1>1. Req \in Chunk
    BY DEF Req, Chunk
<1>2. CASE Writable
    <2>1. /\ reqs' = reqs + 1 /\ tcpStream' = Append(tcpStream, Req)
          /\ fgPc' = "pauseDo"
        BY <1>2, Zenon DEF PauseDo
    <2>. QED
        BY <1>1, <2>1, AppendProperties DEF PauseDo
<1>3. CASE ~Writable
    <2>1. fgPc' = "idle" /\ UNCHANGED <<reqs, tcpStream>>
        BY <1>3, Zenon DEF PauseDo
    <2>. QED
        BY <2>1 DEF PauseDo
<1>. QED
    BY <1>2, <1>3

\* Close: connOpen becomes FALSE; in Record the loop is told to stop, in any
\* other state the connection is closed at once.
LEMMA CloseStartType ==
    ASSUME TypeOK, CloseStart
    PROVE  TypeOK'
<1>. USE DEF TypeOK
<1>1. connOpen' = FALSE
    BY Zenon DEF CloseStart
<1>2. CASE state = "record"
    <2>1. terminate' = TRUE /\ fgPc' = "closeWait" /\ state' = state
        BY <1>2, Zenon DEF CloseStart
    <2>. QED
        BY <1>1, <2>1 DEF CloseStart
<1>3. CASE state # "record"
    <2>1. state' = "closed" /\ fgPc' = "closed" /\ terminate' = terminate
        BY <1>3, Zenon DEF CloseStart
    <2>. QED
        BY <1>1, <2>1 DEF CloseStart, States
<1>. QED
    BY <1>2, <1>3

\* The initial state is well typed.
LEMMA TypeOKInit ==
    ASSUME Init
    PROVE  TypeOK
<1>1. tcpStream \in Seq(Chunk)
    BY EmptySeq DEF Init
<1>2. /\ calls \in [Writers -> 0..MaxFrames]
      /\ sent \in [Writers -> Nat] /\ oks \in [Writers -> Nat]
    BY BoundsNat DEF Init
<1>3. reports \in 0..MaxReports /\ srvSent \in 0..MaxServerMsgs
    BY BoundsNat DEF Init
<1>4. state \in States /\ publishError \in ErrorValues
      /\ rdErr \in ErrorValues
    BY DEF Init, States, ErrorValues
<1>. QED
    BY <1>1, <1>2, <1>3, <1>4 DEF Init, TypeOK

\* Every step of Next keeps the types.
LEMMA TypeOKNext ==
    ASSUME TypeOK, Next
    PROVE  TypeOK'
<1>. USE BoundsNat DEF TypeOK
<1>1. Req \in Chunk
    BY DEF Req, Chunk
<1>2. CASE Announce
    BY <1>1, <1>2, AppendProperties DEF Announce, SendRequest, States
<1>3. CASE Setup
    BY <1>1, <1>3, AppendProperties DEF Setup, SendRequest
<1>4. CASE Record
    BY <1>4, RecordType DEF TypeOK
<1>5. CASE BgStartUDP
    BY <1>5 DEF BgStartUDP, ErrorValues
<1>6. CASE BgStartTCP
    BY <1>6 DEF BgStartTCP
<1>7. CASE BgSelectTick
    BY <1>7 DEF BgSelectTick
<1>8. CASE TickReportsUDP
    BY <1>8 DEF TickReportsUDP
<1>9. CASE TickReportsTCP
  <2>1. PICK n \in 0..Cardinality(setupTracks) :
            tcpStream' = IF Writable THEN tcpStream \o ReportFrames(n)
                                     ELSE tcpStream
      BY <1>9 DEF TickReportsTCP
  <2>2. n \in Nat
      BY SetupTracksCard
  <2>3. tcpStream' \in Seq(Chunk)
      BY <2>1, <2>2, ReportFramesType, ConcatProperties
  <2>. QED
      BY <1>9, <2>3 DEF TickReportsTCP
<1>10. CASE BgTerminateUDP
    BY <1>10 DEF BgTerminateUDP
<1>11. CASE BgWaitReader
    BY <1>11 DEF BgWaitReader, ErrorValues
<1>12. CASE BgReaderDone
    BY <1>12 DEF BgReaderDone
<1>13. CASE BgTerminateTCP
    BY <1>13 DEF BgTerminateTCP
<1>14. CASE BgDeferUnpublish
    BY <1>14 DEF BgDeferUnpublish
<1>15. CASE ReaderReadResponse
    BY <1>15 DEF ReaderReadResponse
<1>16. CASE ReaderReadError
    BY <1>16 DEF ReaderReadError, ReadErrors, ErrorValues
<1>17. ASSUME NEW w \in Writers, WriterStep(w) PROVE TypeOK'
  <2>1. CASE WriterStart(w)
      BY <2>1 DEF WriterStart
  <2>. QED
      BY <1>17, <2>1, WriteFrameCheckType, WriteFrameUDPType,
         WriteFrameTCPHeaderType, WriteFrameTCPPayloadType DEF WriterStep
<1>18. CASE PauseStart
    BY <1>18 DEF PauseStart
<1>19. CASE PauseDo
    BY <1>19, PauseDoType
<1>20. CASE PauseReply
    BY <1>20 DEF PauseReply, States
<1>21. CASE CloseStart
    BY <1>21, CloseStartType
<1>22. CASE CloseFinish
    BY <1>22 DEF CloseFinish, States, ErrorValues
<1>23. CASE ServerSendResponse
    BY <1>23 DEF ServerSendResponse
<1>24. CASE ServerHangup
    BY <1>24 DEF ServerHangup
<1>. QED
    BY <1>2, <1>3, <1>4, <1>5, <1>6, <1>7, <1>8, <1>9, <1>10, <1>11,
       <1>12, <1>13, <1>14, <1>15, <1>16, <1>17, <1>18, <1>19, <1>20,
       <1>21, <1>22, <1>23, <1>24 DEF Next, BgStep

\* TypeOK holds in every reachable state.
THEOREM TypeCorrect == Spec => []TypeOK
<1>1. Init => TypeOK
    BY TypeOKInit
<1>2. TypeOK /\ Next => TypeOK'
    BY TypeOKNext
<1>3. TypeOK /\ UNCHANGED vars => TypeOK'
    BY DEF vars, TypeOK
<1>. QED
    BY <1>1, <1>2, <1>3, PTL DEF Spec

-----------------------------------------------------------------------------
(* ReaderConfined: the response reader and the foreground's Do never read *)
(* the connection at the same time.                                        *)

\* The control part of IInv, on which the per-action steps work.
CtlInv ==
    /\ ReaderAlive => /\ bgPc \in {"loop", "tickLock", "waitReader"}
                      /\ streamProtocol = "udp"
    /\ bgPc \in {"start", "loop", "tickLock", "waitReader", "deferLock"}
          => state = "record"
    /\ fgPc = "pauseDo" => bgPc = "done"

\* The inductive invariant behind ReaderConfined: a live response reader
\* belongs to a UDP loop that has not yet passed its readerDone receive; a
\* started loop implies the Record state (Pause and Close change the state
\* only after backgroundDone); and Pause's own Do runs only once the loop
\* is done.
IInv == TypeOK /\ CtlInv

\* Steps that leave the control variables alone keep CtlInv.
LEMMA CtlUnchanged ==
    ASSUME CtlInv, UNCHANGED <<rdPc, bgPc, streamProtocol, state, fgPc>>
    PROVE  CtlInv'
BY DEF CtlInv, ReaderAlive

\* Every step of Next keeps CtlInv.
LEMMA CtlInvNext ==
    ASSUME TypeOK, CtlInv, Next
    PROVE  CtlInv'
<1>. USE DEF CtlInv, ReaderAlive
<1>1. CASE Announce
    BY <1>1 DEF Announce
<1>2. CASE Setup
    BY <1>2 DEF Setup
<1>3. CASE Record
    <2>1. state = "preRecord" /\ fgPc = "idle" /\ fgPc' = fgPc /\ rdPc' = rdPc
          /\ streamProtocol' = streamProtocol
        BY <1>3 DEF Record
    <2>2. bgPc' \in {"start", bgPc} /\ (bgPc' = "start" => state' = "record")
          /\ (bgPc' = bgPc => state' = state)
        BY <1>3, Zenon DEF Record
    <2>3. ~ReaderAlive /\ fgPc # "pauseDo"
        BY <2>1
    <2>4. ~ReaderAlive' /\ fgPc' # "pauseDo"
        BY <2>1, <2>3
    <2>5. bgPc' \in {"start", "loop", "tickLock", "waitReader", "deferLock"}
            => state' = "record"
        BY <2>1, <2>2
    <2>. QED
        BY <2>4, <2>5
<1>4. CASE BgStartUDP \/ BgStartTCP \/ BgSelectTick \/ TickReportsUDP
           \/ TickReportsTCP \/ BgTerminateUDP \/ BgWaitReader
           \/ BgReaderDone \/ BgTerminateTCP \/ BgDeferUnpublish
    BY <1>4 DEF BgStartUDP, BgStartTCP, BgSelectTick, TickReportsUDP,
       TickReportsTCP, BgTerminateUDP, BgWaitReader, BgReaderDone,
       BgTerminateTCP, BgDeferUnpublish
<1>5. CASE ReaderReadResponse \/ ReaderReadError
    BY <1>5 DEF ReaderReadResponse, ReaderReadError
<1>6. CASE \E w \in Writers : WriterStep(w)
    BY <1>6, CtlUnchanged DEF WriterStep, WriterStart, WriteFrameCheck,
       WriteFrameUDP, WriteFrameTCPHeader, WriteFrameTCPPayload
<1>7. CASE PauseStart
    BY <1>7 DEF PauseStart
<1>8. CASE PauseDo
    <2>1. bgPc = "done" /\ fgPc' \in {"pauseDo", "idle"}
          /\ UNCHANGED <<rdPc, bgPc, streamProtocol, state>>
        BY <1>8, Zenon DEF PauseDo
    <2>. QED
        BY <2>1
<1>9. CASE PauseReply
    BY <1>9 DEF PauseReply
<1>10. CASE CloseStart
    <2>1. fgPc = "idle" /\ UNCHANGED <<rdPc, bgPc, streamProtocol>>
          /\ fgPc' \in {"closeWait", "closed"}
          /\ (state # "record" => state' = "closed")
          /\ (state = "record" => state' = state)
        BY <1>10, Zenon DEF CloseStart
    <2>. QED
        BY <2>1
<1>11. CASE CloseFinish
    BY <1>11 DEF CloseFinish
<1>12. CASE ServerSendResponse \/ ServerHangup
    BY <1>12 DEF ServerSendResponse, ServerHangup
<1>. QED
    BY <1>1, <1>2, <1>3, <1>4, <1>5, <1>6, <1>7, <1>8, <1>9, <1>10,
       <1>11, <1>12 DEF Next, BgStep

\* The response reader of backgroundRecordUDP is confined to the Record
\* state and never reads while Pause's Do reads the PAUSE response, in
\* every behaviour and for every number of writers and tracks.
THEOREM ReaderConfinedHolds == Spec => []ReaderConfined
<1>1. Init => IInv
    BY TypeOKInit DEF Init, IInv, CtlInv, ReaderAlive
<1>2. IInv /\ [Next]_vars => IInv'
  <2> SUFFICES ASSUME IInv, [Next]_vars PROVE IInv'
      OBVIOUS
  <2>1. CASE Next
      BY <2>1, TypeOKNext, CtlInvNext DEF IInv
  <2>2. CASE UNCHANGED vars
      BY <2>2, CtlUnchanged DEF IInv, TypeOK, vars
  <2>. QED
      BY <2>1, <2>2
<1>3. IInv => ReaderConfined
    BY DEF IInv, CtlInv, ReaderConfined, ReaderAlive
<1>. QED
    BY <1>1, <1>2, <1>3, PTL DEF Spec

-----------------------------------------------------------------------------
(* NoSilentDrop on UDP: WriteFrame returns nil only for a frame it wrote.   *)

\* Every negotiated stream uses UDP.
UdpOnly == Protocols = {"udp"}

\* publishOpen is false only once an error is stored in publishError.
StopsWithError == publishOpen \/ publishError # "nil"

\* The inductive invariant behind NoSilentDrop on UDP: once Record has
\* succeeded (the state is Record, or a writer has started), publishing
\* stops only with an error stored; the deferred unpublish runs only after
\* the loop stored one; and the reader sends only a real error on
\* readerDone.  publishError is never reset to nil.
SilentInv ==
    /\ NoSilentDrop
    /\ (state = "record" \/ \E w \in Writers : wPc[w] # "off")
          => StopsWithError
    /\ bgPc = "deferLock" => publishError # "nil"
    /\ rdPc = "sending" => rdErr # "nil"

\* A step of a started writer keeps SilentInv: the nil return of the check
\* needs publishOpen false with no error, which SilentInv excludes.
LEMMA SilentWriter ==
    ASSUME TypeOK, SilentInv, NEW w \in Writers, WriterStep(w)
    PROVE  SilentInv'
<1>1. UNCHANGED <<state, publishOpen, publishError, bgPc, rdPc, rdErr>>
    BY DEF WriterStep, WriterStart, WriteFrameCheck, WriteFrameUDP,
       WriteFrameTCPHeader, WriteFrameTCPPayload
<1>2. StopsWithError
    BY DEF WriterStep, WriterStart, WriteFrameCheck, WriteFrameUDP,
       WriteFrameTCPHeader, WriteFrameTCPPayload, SilentInv
<1>3. ASSUME oks' = oks /\ sent' = sent PROVE SilentInv'
    BY <1>1, <1>2, <1>3 DEF SilentInv, NoSilentDrop, StopsWithError
<1>4. ASSUME sent' = [sent EXCEPT ![w] = @ + 1],
             oks' = [oks EXCEPT ![w] = @ + 1]
      PROVE  SilentInv'
    BY <1>1, <1>2, <1>4 DEF SilentInv, NoSilentDrop, StopsWithError, TypeOK
<1>5. CASE WriterStart(w) \/ WriteFrameTCPHeader(w)
    BY <1>3, <1>5 DEF WriterStart, WriteFrameTCPHeader
<1>6. CASE WriteFrameCheck(w)
    <2>1. CASE publishOpen
        <3>1. oks' = oks
            BY <1>6, <2>1, Zenon DEF WriteFrameCheck
        <3>. QED
            BY <1>3, <1>6, <3>1 DEF WriteFrameCheck
    <2>2. CASE ~publishOpen
        <3>1. publishError # "nil"
            BY <1>2, <2>2 DEF StopsWithError
        <3>2. oks' = oks
            BY <1>6, <2>2, <3>1, Zenon DEF WriteFrameCheck
        <3>. QED
            BY <1>3, <1>6, <3>2 DEF WriteFrameCheck
    <2>. QED
        BY <2>1, <2>2
<1>7. CASE WriteFrameUDP(w)
    <2>1. \/ sent' = [sent EXCEPT ![w] = @ + 1]
             /\ oks' = [oks EXCEPT ![w] = @ + 1]
          \/ oks' = oks /\ sent' = sent
        BY <1>7, Zenon DEF WriteFrameUDP
    <2>. QED
        BY <1>3, <1>4, <2>1
<1>8. CASE WriteFrameTCPPayload(w)
    <2>1. \/ sent' = [sent EXCEPT ![w] = @ + 1]
             /\ oks' = [oks EXCEPT ![w] = @ + 1]
          \/ oks' = oks /\ sent' = sent
        BY <1>8, Zenon DEF WriteFrameTCPPayload
    <2>. QED
        BY <1>3, <1>4, <2>1
<1>. QED
    BY <1>5, <1>6, <1>7, <1>8 DEF WriterStep

\* On UDP every step keeps SilentInv.
LEMMA SilentNext ==
    ASSUME UdpOnly, TypeOK, SilentInv, Next
    PROVE  SilentInv'
<1>. DEFINE Started == state = "record" \/ \E w \in Writers : wPc[w] # "off"
<1>1. ASSUME UNCHANGED <<oks, sent, wPc, state, publishOpen, publishError,
                         bgPc, rdPc, rdErr>>
      PROVE  SilentInv'
    BY <1>1 DEF SilentInv, NoSilentDrop, StopsWithError
<1>2. CASE Announce \/ Setup
    BY <1>2 DEF Announce, Setup, SilentInv, NoSilentDrop, StopsWithError
<1>3. CASE Record
    <2>1. UNCHANGED <<oks, sent, wPc, publishError, rdPc, rdErr>>
          /\ state = "preRecord"
        BY <1>3 DEF Record
    <2>2. \/ publishOpen' = TRUE /\ bgPc' = "start"
          \/ UNCHANGED <<state, publishOpen, bgPc>>
        BY <1>3, Zenon DEF Record
    <2>. QED
        BY <1>1, <2>1, <2>2 DEF SilentInv, NoSilentDrop, StopsWithError
<1>4. CASE BgStartUDP \/ BgStartTCP \/ BgSelectTick \/ TickReportsUDP
           \/ TickReportsTCP \/ BgTerminateUDP
    BY <1>4 DEF BgStartUDP, BgStartTCP, BgSelectTick, TickReportsUDP,
       TickReportsTCP, BgTerminateUDP, SilentInv, NoSilentDrop, StopsWithError
<1>5. CASE BgWaitReader \/ BgReaderDone
    <2>1. rdPc = "sending" /\ rdPc' = "exited" /\ bgPc' = "deferLock"
          /\ publishError' \in {"terminated", rdErr}
          /\ UNCHANGED <<oks, sent, wPc, state, publishOpen, rdErr>>
        BY <1>5 DEF BgWaitReader, BgReaderDone
    <2>. QED
        BY <2>1 DEF SilentInv, NoSilentDrop, StopsWithError
<1>6. CASE BgTerminateTCP
    <2>1. streamProtocol \in {"udp", "none"}
        BY DEF UdpOnly, TypeOK
    <2>. QED
        BY <1>6, <2>1 DEF BgTerminateTCP
<1>7. CASE BgDeferUnpublish
    BY <1>7 DEF BgDeferUnpublish, SilentInv, NoSilentDrop, StopsWithError
<1>8. CASE ReaderReadResponse
    BY <1>8 DEF ReaderReadResponse, SilentInv, NoSilentDrop, StopsWithError
<1>9. CASE ReaderReadError
    <2>1. rdErr' \in {"closed", "eof", "timeout"}
        BY <1>9 DEF ReaderReadError, ReadErrors
    <2>. QED
        BY <1>9, <2>1 DEF ReaderReadError, SilentInv, NoSilentDrop,
           StopsWithError
<1>10. ASSUME NEW w \in Writers, WriterStep(w) PROVE SilentInv'
    BY <1>10, SilentWriter
<1>11. CASE PauseStart \/ PauseDo
    <2>1. UNCHANGED <<oks, sent, wPc, state, publishOpen, publishError,
                      bgPc, rdPc, rdErr>>
        BY <1>11, Zenon DEF PauseStart, PauseDo
    <2>. QED
        BY <1>1, <2>1
<1>12. CASE PauseReply \/ CloseStart
    <2>1. UNCHANGED <<oks, sent, wPc, publishOpen, publishError, bgPc, rdPc,
                      rdErr>>
          /\ (state' = "record" => state = "record")
        BY <1>12, Zenon DEF PauseReply, CloseStart
    <2>. QED
        BY <2>1 DEF SilentInv, NoSilentDrop, StopsWithError
<1>13. CASE CloseFinish
    BY <1>13 DEF CloseFinish, SilentInv, NoSilentDrop, StopsWithError
<1>14. CASE ServerSendResponse \/ ServerHangup
    BY <1>1, <1>14 DEF ServerSendResponse, ServerHangup
<1>. QED
    BY <1>2, <1>3, <1>4, <1>5, <1>6, <1>7, <1>8, <1>9, <1>10, <1>11,
       <1>12, <1>13, <1>14 DEF Next, BgStep

\* On a UDP publisher WriteFrame never returns nil for a frame it did not
\* hand to a socket (spec 4.6: once publishing stops, WriteFrame returns
\* the stored publishError), for every number of writers, tracks and
\* bounds: every way the UDP loop ends stores an error before the deferred
\* unpublish closes publishOpen.  (On TCP the terminate case stores none:
\* MCClientPublish_tcp_silent_drop.cfg.)
THEOREM NoSilentDropUdp ==
    ASSUME UdpOnly
    PROVE  Spec => []NoSilentDrop
<1>1. Init => TypeOK /\ SilentInv
    BY TypeOKInit DEF Init, SilentInv, NoSilentDrop
<1>2. TypeOK /\ SilentInv /\ [Next]_vars => TypeOK' /\ SilentInv'
    <2> SUFFICES ASSUME TypeOK, SilentInv, [Next]_vars
                 PROVE  TypeOK' /\ SilentInv'
        OBVIOUS
    <2>1. CASE Next
        BY <2>1, TypeOKNext, SilentNext
    <2>2. CASE UNCHANGED vars
        BY <2>2 DEF vars, TypeOK, SilentInv, NoSilentDrop, StopsWithError
    <2>. QED
        BY <2>1, <2>2
<1>3. SilentInv => NoSilentDrop
    BY DEF SilentInv
<1>. QED
    BY <1>1, <1>2, <1>3, PTL DEF Spec
=============================================================================
