--------------------------- MODULE ClientPublish ---------------------------
(***************************************************************************)
(* The publishing side of a gortsplib ClientConn (src/unnamed/part_000,    *)
(* the file clientconnpublish.go): Announce, Record, the background record *)
(* loops for UDP and TCP, the goroutine that reads RTSP responses while a  *)
(* UDP stream is recorded, and WriteFrame, all ordered by the read/write   *)
(* lock publishWriteMutex.  Setup, Pause and Close live in clientconn.go,  *)
(* which is not part of the source tree; they are modelled from the spec  *)
(* (sections 4.4 and 5) because they start and stop the loops.             *)
(*                                                                         *)
(* Goroutines are the application's foreground goroutine (fgPc), the       *)
(* background record loop (bgPc), the UDP response reader (rdPc) and the   *)
(* application goroutines that call WriteFrame (wPc).  The RTSP server at  *)
(* the other end of the control connection is the environment.             *)
(*                                                                         *)
(* The control TCP connection is modelled by the chunks written to it,     *)
(* in order: an RTSP request written by Do ("req"), and the two halves of  *)
(* an interleaved frame, the 4-byte header and the payload ("hdr", "pay"), *)
(* each tagged with the goroutine that wrote it.                           *)
(***************************************************************************)
EXTENDS Naturals, Sequences, FiniteSets

CONSTANTS
    Writers,        \* application goroutines that call WriteFrame
    Tracks,         \* the ids Announce gives the tracks: 0 .. n-1
    Protocols,      \* the stream protocols Setup may negotiate
    MaxFrames,      \* WriteFrame calls per writer goroutine
    MaxReports,     \* ticks of the RTCP report ticker
    MaxRequests,    \* RTSP requests the foreground sends
    MaxServerMsgs   \* responses the server sends on its own while recording

ASSUME ConstantsAssumption ==
    /\ Tracks # {} /\ Tracks \subseteq Nat /\ IsFiniteSet(Tracks)
    /\ Protocols # {} /\ Protocols \subseteq {"udp", "tcp"}
    /\ "bg" \notin Writers /\ "fg" \notin Writers
    /\ MaxFrames \in Nat /\ MaxReports \in Nat
    /\ MaxRequests \in Nat /\ MaxServerMsgs \in Nat

VARIABLES
    state,          \* c.state
    setupTracks,    \* track ids with a udp listener pair / rtcpSender
    streamProtocol, \* *c.streamProtocol, "none" while nil
    publishOpen,    \* c.publishOpen
    publishError,   \* c.publishError, "nil" while nil
    terminate,      \* c.backgroundTerminate has been closed
    bgPc,           \* the background record goroutine
    rdPc,           \* the response reader goroutine of backgroundRecordUDP
    rdErr,          \* the error the reader is sending on readerDone
    readDeadline,   \* read deadline of c.nconn: "none" or "now"
    reports,        \* report ticks taken so far
    connOpen,       \* c.nconn and the UDP listeners are open
    srvPending,     \* responses the server sent that nobody has read yet
    srvSent,        \* responses the server sent on its own
    srvClosed,      \* the server has closed the TCP connection
    fgPc,           \* the foreground goroutine inside Pause / Close
    reqs,           \* requests sent by the foreground
    tcpStream,      \* chunks written to the control connection, in order
    wPc,            \* per writer goroutine: where it is in WriteFrame
    calls,          \* per writer: WriteFrame calls made
    sent,           \* per writer: frames handed to a socket
    oks             \* per writer: WriteFrame calls that returned nil

sessVars == <<state, setupTracks, streamProtocol>>
pubVars  == <<publishOpen, publishError>>
bgVars   == <<terminate, bgPc, reports>>
rdVars   == <<rdPc, rdErr, readDeadline>>
srvVars  == <<srvPending, srvSent, srvClosed>>
fgVars   == <<fgPc, reqs, connOpen>>
wVars    == <<wPc, calls, sent, oks>>
vars     == <<sessVars, pubVars, bgVars, rdVars, srvVars, fgVars, wVars,
              tcpStream>>

States      == {"initial", "preRecord", "record", "closed"}
ErrorValues == {"nil", "terminated", "eof", "timeout", "closed"}
Chunk       == [k : {"req", "hdr", "pay"}, src : Writers \cup {"bg", "fg"}]
Req         == [k |-> "req", src |-> "fg"]
Hdr(s)      == [k |-> "hdr", src |-> s]
Pay(s)      == [k |-> "pay", src |-> s]

\* The goroutines holding publishWriteMutex in read mode.
RLockHolders == {w \in Writers : wPc[w] \in {"udp", "tcpHdr", "tcpPay"}}

\* A Lock call on publishWriteMutex is pending or held: Go's RWMutex then
\* blocks every new RLock.
WriterWaiting == bgPc \in {"tickLock", "deferLock"}

\* The response reader goroutine has been started and has not returned.
ReaderAlive == rdPc \in {"reading", "sending"}

\* The control connection accepts a write.
Writable == connOpen /\ ~srvClosed

TypeOK ==
    /\ state \in States
    /\ setupTracks \subseteq Tracks
    /\ streamProtocol \in Protocols \cup {"none"}
    /\ publishOpen \in BOOLEAN
    /\ publishError \in ErrorValues
    /\ terminate \in BOOLEAN
    /\ bgPc \in {"none", "start", "loop", "tickLock", "waitReader",
                 "deferLock", "done"}
    /\ reports \in 0..MaxReports
    /\ rdPc \in {"none", "reading", "sending", "exited"}
    /\ rdErr \in ErrorValues
    /\ readDeadline \in {"none", "now"}
    /\ srvPending \in Nat
    /\ srvSent \in 0..MaxServerMsgs
    /\ srvClosed \in BOOLEAN
    /\ fgPc \in {"idle", "pauseWait", "pauseDo", "closeWait", "closed"}
    /\ reqs \in Nat
    /\ connOpen \in BOOLEAN
    /\ tcpStream \in Seq(Chunk)
    /\ wPc \in [Writers -> {"off", "idle", "udp", "tcpHdr", "tcpPay",
                            "stopped"}]
    /\ calls \in [Writers -> 0..MaxFrames]
    /\ sent \in [Writers -> Nat]
    /\ oks \in [Writers -> Nat]

Init ==
    /\ state = "initial" /\ setupTracks = {} /\ streamProtocol = "none"
    /\ publishOpen = FALSE /\ publishError = "nil"
    /\ terminate = FALSE /\ bgPc = "none" /\ reports = 0
    /\ rdPc = "none" /\ rdErr = "nil" /\ readDeadline = "none"
    /\ srvPending = 0 /\ srvSent = 0 /\ srvClosed = FALSE
    /\ fgPc = "idle" /\ reqs = 0 /\ connOpen = TRUE
    /\ wPc = [w \in Writers |-> "off"]
    /\ calls = [w \in Writers |-> 0]
    /\ sent = [w \in Writers |-> 0]
    /\ oks = [w \in Writers |-> 0]
    /\ tcpStream = <<>>

-----------------------------------------------------------------------------
(* Foreground requests.  Do writes the request on the control connection  *)
(* and reads the response; a status other than 200 returns an error and   *)
(* changes nothing else, which is the ok = FALSE branch.  A Do on a        *)
(* connection the server has closed fails before anything is written and  *)
(* is left out.                                                            *)

SendRequest ==
    /\ reqs < MaxRequests /\ Writable
    /\ reqs' = reqs + 1
    /\ tcpStream' = Append(tcpStream, Req)

\* Announce: only from Initial; on 200 the connection is PreRecord.
Announce ==
    /\ fgPc = "idle" /\ state = "initial"
    /\ SendRequest
    /\ \E ok \in BOOLEAN : state' = IF ok THEN "preRecord" ELSE state
    /\ UNCHANGED <<setupTracks, streamProtocol, pubVars, bgVars, rdVars,
                   srvVars, fgPc, connOpen, wVars>>

\* Setup of one announced track in publisher mode; every track of a
\* session uses the protocol of the first one.
Setup ==
    /\ fgPc = "idle" /\ state = "preRecord"
    /\ SendRequest
    /\ \E t \in Tracks \ setupTracks, p \in Protocols, ok \in BOOLEAN :
          /\ streamProtocol \in {"none", p}
          /\ setupTracks' = IF ok THEN setupTracks \cup {t} ELSE setupTracks
          /\ streamProtocol' = IF ok THEN p ELSE streamProtocol
    /\ UNCHANGED <<state, pubVars, bgVars, rdVars, srvVars, fgPc, connOpen,
                   wVars>>

\* Record: only from PreRecord.  The server answers 200 only once every
\* announced track is set up (spec 4.5).  On 200 the state becomes Record,
\* publishOpen is set without taking the lock, new terminate/done channels
\* are made and the background loop of the negotiated protocol is started.
Record ==
    /\ fgPc = "idle" /\ state = "preRecord"
    /\ SendRequest
    /\ \E ok \in BOOLEAN :
          IF ok /\ setupTracks = Tracks
          THEN /\ state' = "record"
               /\ publishOpen' = TRUE
               /\ terminate' = FALSE
               /\ bgPc' = "start"
          ELSE UNCHANGED <<state, publishOpen, terminate, bgPc>>
    /\ UNCHANGED <<setupTracks, streamProtocol, publishError, reports, rdVars,
                   srvVars, fgPc, connOpen, wVars>>

-----------------------------------------------------------------------------
(* backgroundRecordUDP and backgroundRecordTCP.                            *)

\* The first statements of backgroundRecordUDP: the read deadline is
\* cleared and the response reader goroutine is started.
BgStartUDP ==
    /\ bgPc = "start" /\ streamProtocol = "udp"
    /\ bgPc' = "loop"
    /\ rdPc' = "reading" /\ rdErr' = "nil" /\ readDeadline' = "none"
    /\ UNCHANGED <<sessVars, pubVars, terminate, reports, srvVars, fgVars,
                   wVars, tcpStream>>

BgStartTCP ==
    /\ bgPc = "start" /\ streamProtocol = "tcp"
    /\ bgPc' = "loop"
    /\ UNCHANGED <<sessVars, pubVars, terminate, reports, rdVars, srvVars,
                   fgVars, wVars, tcpStream>>

\* The ticker case of the select is taken and publishWriteMutex.Lock() is
\* called, which from then on blocks every new RLock.
BgSelectTick ==
    /\ bgPc = "loop" /\ reports < MaxReports
    /\ bgPc' = "tickLock" /\ reports' = reports + 1
    /\ UNCHANGED <<sessVars, pubVars, terminate, rdVars, srvVars, fgVars,
                   wVars, tcpStream>>

\* The lock is acquired once the last RLock holder has left; for every
\* track Report may produce a packet, written to the track's RTCP UDP
\* socket (no trace in the model); the lock is released.
TickReportsUDP ==
    /\ bgPc = "tickLock" /\ streamProtocol = "udp"
    /\ RLockHolders = {}
    /\ bgPc' = "loop"
    /\ UNCHANGED <<sessVars, pubVars, terminate, reports, rdVars, srvVars,
                   fgVars, wVars, tcpStream>>

\* n interleaved RTCP frames, as frame.Write puts them on the connection.
ReportFrames(n) ==
    [i \in 1..2 * n |-> IF i % 2 = 1 THEN Hdr("bg") ELSE Pay("bg")]


\* Mutant: the report ticker writes without taking publishWriteMutex.
TickReportsTCPNoLock ==
    /\ bgPc = "tickLock" /\ streamProtocol = "tcp"
    /\ bgPc' = "loop"
    /\ \E n \in 0..Cardinality(setupTracks) :
          tcpStream' = IF Writable THEN tcpStream \o ReportFrames(n)
                                   ELSE tcpStream
    /\ UNCHANGED <<sessVars, pubVars, terminate, reports, rdVars, srvVars,
                   fgVars, wVars>>

\* TCP: under the lock, for each track whose Report is not nil, an
\* interleaved RTCP frame is written on the control connection; a write
\* error is ignored.
TickReportsTCP ==
    /\ bgPc = "tickLock" /\ streamProtocol = "tcp"
    /\ RLockHolders = {}
    /\ bgPc' = "loop"
    /\ \E n \in 0..Cardinality(setupTracks) :
          tcpStream' = IF Writable THEN tcpStream \o ReportFrames(n)
                                   ELSE tcpStream
    /\ UNCHANGED <<sessVars, pubVars, terminate, reports, rdVars, srvVars,
                   fgVars, wVars>>


\* Mutant: the terminate case returns without waiting on readerDone.
BgTerminateUDPNoJoin ==
    /\ bgPc = "loop" /\ streamProtocol = "udp" /\ terminate
    /\ bgPc' = "deferLock" /\ readDeadline' = "now"
    /\ publishError' = "terminated"
    /\ UNCHANGED <<sessVars, publishOpen, terminate, reports, rdPc, rdErr,
                   srvVars, fgVars, wVars, tcpStream>>

\* Mutant: the terminate case waits on readerDone without moving the
\* read deadline.
BgTerminateUDPNoDeadline ==
    /\ bgPc = "loop" /\ streamProtocol = "udp" /\ terminate
    /\ bgPc' = "waitReader"
    /\ UNCHANGED <<sessVars, pubVars, terminate, reports, rdVars, srvVars,
                   fgVars, wVars, tcpStream>>

\* UDP, terminate case: the read deadline is set to now so that the reader
\* returns, and the loop then waits on readerDone.
BgTerminateUDP ==
    /\ bgPc = "loop" /\ streamProtocol = "udp" /\ terminate
    /\ bgPc' = "waitReader" /\ readDeadline' = "now"
    /\ UNCHANGED <<sessVars, pubVars, terminate, reports, rdPc, rdErr,
                   srvVars, fgVars, wVars, tcpStream>>

\* <-readerDone after a terminate; publishError = "terminated"; return.
BgWaitReader ==
    /\ bgPc = "waitReader" /\ rdPc = "sending"
    /\ rdPc' = "exited"
    /\ publishError' = "terminated"
    /\ bgPc' = "deferLock"
    /\ UNCHANGED <<sessVars, publishOpen, terminate, reports, rdErr,
                   readDeadline, srvVars, fgVars, wVars, tcpStream>>


\* Mutant: the readerDone case returns without storing the error.
BgReaderDoneNoError ==
    /\ bgPc = "loop" /\ rdPc = "sending"
    /\ rdPc' = "exited"
    /\ bgPc' = "deferLock"
    /\ UNCHANGED <<sessVars, pubVars, terminate, reports, rdErr,
                   readDeadline, srvVars, fgVars, wVars, tcpStream>>

\* UDP, readerDone case: the reader's error becomes publishError; return.
BgReaderDone ==
    /\ bgPc = "loop" /\ rdPc = "sending"
    /\ rdPc' = "exited"
    /\ publishError' = rdErr
    /\ bgPc' = "deferLock"
    /\ UNCHANGED <<sessVars, publishOpen, terminate, reports, rdErr,
                   readDeadline, srvVars, fgVars, wVars, tcpStream>>

\* TCP, terminate case: return; publishError is left as it is.
BgTerminateTCP ==
    /\ bgPc = "loop" /\ streamProtocol = "tcp" /\ terminate
    /\ bgPc' = "deferLock"
    /\ UNCHANGED <<sessVars, pubVars, terminate, reports, rdVars, srvVars,
                   fgVars, wVars, tcpStream>>

\* Mutant: the deferred function sets publishOpen = false without taking
\* the write lock, so WriteFrame calls already past the check go on.
BgDeferUnpublishNoLock ==
    /\ bgPc = "deferLock"
    /\ publishOpen' = FALSE
    /\ bgPc' = "done"
    /\ UNCHANGED <<sessVars, publishError, terminate, reports, rdVars,
                   srvVars, fgVars, wVars, tcpStream>>

\* The deferred function of both loops: publishOpen = false under the
\* write lock, then close(c.backgroundDone).
BgDeferUnpublish ==
    /\ bgPc = "deferLock"
    /\ RLockHolders = {}
    /\ publishOpen' = FALSE
    /\ bgPc' = "done"
    /\ UNCHANGED <<sessVars, publishError, terminate, reports, rdVars,
                   srvVars, fgVars, wVars, tcpStream>>

-----------------------------------------------------------------------------
(* The response reader of backgroundRecordUDP: res.Read in a loop; a       *)
(* response is dropped and the loop goes on; the first error is sent on    *)
(* the unbuffered channel readerDone.                                      *)

\* The errors a read may return now: the connection was closed locally,
\* the server hung up and nothing is left to read, the deadline passed.
ReadErrors ==
    (IF ~connOpen THEN {"closed"} ELSE {})
    \cup (IF srvClosed /\ srvPending = 0 THEN {"eof"} ELSE {})
    \cup (IF readDeadline = "now" THEN {"timeout"} ELSE {})

ReaderReadResponse ==
    /\ rdPc = "reading" /\ connOpen /\ srvPending > 0
    /\ srvPending' = srvPending - 1
    /\ UNCHANGED <<sessVars, pubVars, bgVars, rdVars, srvSent, srvClosed,
                   fgVars, wVars, tcpStream>>


\* Mutant: the reader takes io.EOF for the end of a message and reads on.
ReaderReadErrorNoEOF ==
    /\ rdPc = "reading"
    /\ \E e \in ReadErrors \ {"eof"} : rdErr' = e
    /\ rdPc' = "sending"
    /\ UNCHANGED <<sessVars, pubVars, bgVars, readDeadline, srvVars, fgVars,
                   wVars, tcpStream>>

ReaderReadError ==
    /\ rdPc = "reading"
    /\ \E e \in ReadErrors : rdErr' = e
    /\ rdPc' = "sending"
    /\ UNCHANGED <<sessVars, pubVars, bgVars, readDeadline, srvVars, fgVars,
                   wVars, tcpStream>>

-----------------------------------------------------------------------------
(* WriteFrame, called by the application's writer goroutines once Record   *)
(* has returned.  A writer calls it until it returns an error.             *)

WriterStart(w) ==
    /\ wPc[w] = "off" /\ state = "record"
    /\ wPc' = [wPc EXCEPT ![w] = "idle"]
    /\ UNCHANGED <<sessVars, pubVars, bgVars, rdVars, srvVars, fgVars,
                   calls, sent, oks, tcpStream>>

\* RLock, then: if !publishOpen return publishError (nil included);
\* otherwise ProcessFrame and go on to the write of the protocol.
WriteFrameCheck(w) ==
    /\ wPc[w] = "idle" /\ calls[w] < MaxFrames /\ ~WriterWaiting
    /\ calls' = [calls EXCEPT ![w] = @ + 1]
    /\ IF publishOpen
       THEN /\ wPc' = [wPc EXCEPT ![w] =
                         IF streamProtocol = "udp" THEN "udp" ELSE "tcpHdr"]
            /\ UNCHANGED oks
       ELSE IF publishError = "nil"
            THEN /\ oks' = [oks EXCEPT ![w] = @ + 1]
                 /\ UNCHANGED wPc
            ELSE /\ wPc' = [wPc EXCEPT ![w] = "stopped"]
                 /\ UNCHANGED oks
    /\ UNCHANGED <<sessVars, pubVars, bgVars, rdVars, srvVars, fgVars, sent,
                   tcpStream>>

\* UDP: the payload goes to the track's RTP or RTCP listener; RUnlock.
WriteFrameUDP(w) ==
    /\ wPc[w] = "udp"
    /\ IF connOpen
       THEN /\ wPc' = [wPc EXCEPT ![w] = "idle"]
            /\ sent' = [sent EXCEPT ![w] = @ + 1]
            /\ oks' = [oks EXCEPT ![w] = @ + 1]
       ELSE /\ wPc' = [wPc EXCEPT ![w] = "stopped"]
            /\ UNCHANGED <<sent, oks>>
    /\ UNCHANGED <<sessVars, pubVars, bgVars, rdVars, srvVars, fgVars, calls,
                   tcpStream>>

\* TCP: the write deadline is set and frame.Write writes the interleaved
\* header, then the payload; an error ends the call (RUnlock).
WriteFrameTCPHeader(w) ==
    /\ wPc[w] = "tcpHdr"
    /\ IF Writable
       THEN /\ tcpStream' = Append(tcpStream, Hdr(w))
            /\ wPc' = [wPc EXCEPT ![w] = "tcpPay"]
       ELSE /\ wPc' = [wPc EXCEPT ![w] = "stopped"]
            /\ UNCHANGED tcpStream
    /\ UNCHANGED <<sessVars, pubVars, bgVars, rdVars, srvVars, fgVars, calls,
                   sent, oks>>

WriteFrameTCPPayload(w) ==
    /\ wPc[w] = "tcpPay"
    /\ IF Writable
       THEN /\ tcpStream' = Append(tcpStream, Pay(w))
            /\ wPc' = [wPc EXCEPT ![w] = "idle"]
            /\ sent' = [sent EXCEPT ![w] = @ + 1]
            /\ oks' = [oks EXCEPT ![w] = @ + 1]
       ELSE /\ wPc' = [wPc EXCEPT ![w] = "stopped"]
            /\ UNCHANGED <<tcpStream, sent, oks>>
    /\ UNCHANGED <<sessVars, pubVars, bgVars, rdVars, srvVars, fgVars, calls>>

-----------------------------------------------------------------------------
(* Pause and Close (clientconn.go, modelled from spec 4.4 and 5).          *)

\* Pause from Record: close(backgroundTerminate), then wait for
\* backgroundDone.
PauseStart ==
    /\ fgPc = "idle" /\ state = "record" /\ reqs < MaxRequests
    /\ terminate' = TRUE
    /\ fgPc' = "pauseWait"
    /\ UNCHANGED <<sessVars, pubVars, bgPc, reports, rdVars, srvVars, reqs,
                   connOpen, wVars, tcpStream>>

\* backgroundDone is closed: the PAUSE request is written and its response
\* is read; a failed write returns the error at once.
PauseDo ==
    /\ fgPc = "pauseWait" /\ bgPc = "done"
    /\ IF Writable
       THEN /\ reqs' = reqs + 1
            /\ tcpStream' = Append(tcpStream, Req)
            /\ fgPc' = "pauseDo"
       ELSE /\ fgPc' = "idle"
            /\ UNCHANGED <<reqs, tcpStream>>
    /\ UNCHANGED <<sessVars, pubVars, bgVars, rdVars, srvVars, connOpen,
                   wVars>>

\* The response to PAUSE: on 200 the state is PreRecord again.
PauseReply ==
    /\ fgPc = "pauseDo"
    /\ \E ok \in BOOLEAN : state' = IF ok THEN "preRecord" ELSE state
    /\ fgPc' = "idle"
    /\ UNCHANGED <<setupTracks, streamProtocol, pubVars, bgVars, rdVars,
                   srvVars, reqs, connOpen, wVars, tcpStream>>

\* Close: the sockets are closed first; a recording connection then
\* signals terminate and waits for the loop.
CloseStart ==
    /\ fgPc = "idle" /\ state # "closed"
    /\ connOpen' = FALSE
    /\ IF state = "record"
       THEN /\ terminate' = TRUE /\ fgPc' = "closeWait"
            /\ UNCHANGED state
       ELSE /\ state' = "closed" /\ fgPc' = "closed"
            /\ UNCHANGED terminate
    /\ UNCHANGED <<setupTracks, streamProtocol, pubVars, bgPc, reports,
                   rdVars, srvVars, reqs, wVars, tcpStream>>

\* The loop is done: publishOpen = false, publishError = "terminated".
CloseFinish ==
    /\ fgPc = "closeWait" /\ bgPc = "done"
    /\ publishOpen' = FALSE /\ publishError' = "terminated"
    /\ state' = "closed" /\ fgPc' = "closed"
    /\ UNCHANGED <<setupTracks, streamProtocol, bgVars, rdVars, srvVars, reqs,
                   connOpen, wVars, tcpStream>>

-----------------------------------------------------------------------------
(* The RTSP server.                                                        *)

\* While the stream is recorded the server writes a response on its own
\* (a keep-alive rejection, a server-side TEARDOWN).
ServerSendResponse ==
    /\ state = "record" /\ Writable /\ srvSent < MaxServerMsgs
    /\ srvPending' = srvPending + 1 /\ srvSent' = srvSent + 1
    /\ UNCHANGED <<sessVars, pubVars, bgVars, rdVars, srvClosed, fgVars,
                   wVars, tcpStream>>

\* The server closes the TCP connection.
ServerHangup ==
    /\ Writable
    /\ srvClosed' = TRUE
    /\ UNCHANGED <<sessVars, pubVars, bgVars, rdVars, srvPending, srvSent,
                   fgVars, wVars, tcpStream>>

-----------------------------------------------------------------------------

BgStep ==
    \/ BgStartUDP \/ BgStartTCP \/ BgSelectTick \/ TickReportsUDP
    \/ TickReportsTCP \/ BgTerminateUDP \/ BgWaitReader \/ BgReaderDone
    \/ BgTerminateTCP \/ BgDeferUnpublish

WriterStep(w) ==
    \/ WriterStart(w) \/ WriteFrameCheck(w) \/ WriteFrameUDP(w)
    \/ WriteFrameTCPHeader(w) \/ WriteFrameTCPPayload(w)

Next ==
    \/ Announce \/ Setup \/ Record
    \/ BgStep
    \/ ReaderReadResponse \/ ReaderReadError
    \/ \E w \in Writers : WriterStep(w)
    \/ PauseStart \/ PauseDo \/ PauseReply \/ CloseStart \/ CloseFinish
    \/ ServerSendResponse \/ ServerHangup

\* Every goroutine of the library that can run eventually runs (Go's
\* scheduler); a select whose case is ready infinitely often takes it
\* (cases are chosen at random).  The application's calls and the server
\* get no fairness.
Fairness ==
    /\ WF_vars(BgStartUDP) /\ WF_vars(BgStartTCP)
    /\ WF_vars(TickReportsUDP) /\ WF_vars(TickReportsTCP)
    /\ SF_vars(BgTerminateUDP) /\ SF_vars(BgTerminateTCP)
    /\ SF_vars(BgReaderDone) /\ WF_vars(BgWaitReader)
    /\ WF_vars(BgDeferUnpublish)
    /\ WF_vars(ReaderReadResponse) /\ WF_vars(ReaderReadError)
    /\ \A w \in Writers : /\ WF_vars(WriteFrameUDP(w))
                          /\ WF_vars(WriteFrameTCPHeader(w))
                          /\ WF_vars(WriteFrameTCPPayload(w))
    /\ WF_vars(PauseDo) /\ WF_vars(PauseReply) /\ WF_vars(CloseFinish)

Spec == Init /\ [][Next]_vars
FairSpec == Spec /\ Fairness

-----------------------------------------------------------------------------
(* Properties.                                                             *)

\* The publish session of spec 4.4 and 4.6 (module PublishSession), seen
\* through the connection state, publishOpen and the frames sent.
Session == INSTANCE PublishSession WITH publishing <- publishOpen

\* ClientConn implements the publish session: the state moves only along
\* the transitions of spec 4.4, Pause and Close leave Record only after the
\* loop's deferred function has cleared publishOpen, and WriteFrame hands a
\* frame to a socket only while recording with publishOpen set, i.e. the
\* write lock of the deferred function fences every frame in flight.
SessionRefinement == Session!Spec

\* The control connection carries whole messages: every interleaved frame
\* header is followed directly by its own payload, so the server never
\* parses a request or another frame inside a frame.  This is what the
\* publishWriteMutex (WriteFrame's RLock against the report ticker's and
\* the deferred function's Lock) has to guarantee on TCP.
WellFramed ==
    \A i \in 1..Len(tcpStream) :
        /\ tcpStream[i].k = "pay" =>
              i > 1 /\ tcpStream[i - 1] = Hdr(tcpStream[i].src)
        /\ (tcpStream[i].k = "hdr" /\ i < Len(tcpStream)) =>
              tcpStream[i + 1] = Pay(tcpStream[i].src)

\* The response reader of backgroundRecordUDP never outlives the Record
\* state it was started for and never runs while Pause's Do reads the
\* PAUSE response from the same buffered reader.
ReaderConfined ==
    ReaderAlive => state = "record" /\ fgPc # "pauseDo"

\* A WriteFrame call that returns nil has handed its frame to a socket:
\* no frame is dropped without an error (spec 4.6: once publishing stops
\* WriteFrame returns the stored publishError).
NoSilentDrop ==
    \A w \in Writers : oks[w] = sent[w]

\* Pause returns: the loop stops, its reader is unblocked by the read
\* deadline, and the PAUSE exchange completes.
PauseTerminates ==
    fgPc = "pauseWait" ~> fgPc = "idle"

\* When the server hangs up during a UDP record, publishing stops: the
\* reader sees EOF and the loop closes publishOpen.
PeerHangupStopsPublishing ==
    (srvClosed /\ publishOpen /\ streamProtocol = "udp") ~> ~publishOpen

\* Spec 4.6: during a UDP record, an RTSP response arriving on the control
\* connection is surfaced as an error and publishing stops.
ServerReplySurfaced ==
    (srvSent > srvPending /\ streamProtocol = "udp") ~> ~publishOpen

=============================================================================
