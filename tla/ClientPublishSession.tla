----------------------- MODULE ClientPublishSession -------------------------
(***************************************************************************)
(* ClientConn implements the publish session of module PublishSession, for *)
(* every number of writers and tracks, both protocols and every bound.    *)
(* The refinement mapping is the identity on state and sent and maps      *)
(* publishing to publishOpen (Session in ClientPublish).  Its steps:      *)
(*   Announce, Record and Pause on 200     -> Announce, Record, Pause      *)
(*   the deferred unpublish                -> Stop                         *)
(*   Close (CloseStart outside Record,     -> Close                        *)
(*   CloseFinish in it)                                                    *)
(*   a frame handed to a UDP or TCP socket -> Send                         *)
(* and every other step stutters.                                          *)
(***************************************************************************)
EXTENDS ClientPublishFraming, TLAPS

USE DEF sessVars, pubVars, bgVars, rdVars, srvVars, fgVars, wVars

\* A writer holding the read lock passed the publishOpen check, and the
\* deferred unpublish clears publishOpen only once no writer holds it.
HoldersOpen ==
    RLockHolders # {} => publishOpen

\* While Pause or Close waits for the loop or for the PAUSE response the
\* connection is still in Record.
FgRecord ==
    fgPc \in {"pauseWait", "pauseDo", "closeWait"} => state = "record"

\* The inductive invariant behind the refinement.  Send needs a writer in
\* a socket write to find publishOpen set in Record (HoldersOpen with
\* HoldersLive); Pause and Close need publishOpen cleared (PublishLive, with
\* CtlInv's bgPc = "done" under pauseDo) and the state still Record when
\* the foreground resumes (FgRecord).
SessInv ==
    /\ TypeOK
    /\ CtlInv
    /\ PublishLive
    /\ HoldersLive
    /\ HoldersOpen
    /\ FgRecord

-----------------------------------------------------------------------------
(* The invariant.                                                          *)

LEMMA SessInvInit ==
    ASSUME Init
    PROVE  SessInv
<1>1. FrameInv
    BY FrameInvInit
<1>2. RLockHolders = {} /\ fgPc = "idle"
    BY DEF Init, RLockHolders
<1>. QED
    BY <1>1, <1>2 DEF FrameInv, SessInv, HoldersOpen, FgRecord

\* Only WriteFrame's check adds a read-lock holder, and only when
\* publishOpen is set; publishOpen is cleared only with no holder left.
LEMMA HoldersOpenNext ==
    ASSUME TypeOK, HoldersLive, HoldersOpen, Next
    PROVE  HoldersOpen'
<1>1. ASSUME UNCHANGED <<publishOpen, wPc>> PROVE HoldersOpen'
    BY <1>1 DEF HoldersOpen, RLockHolders
<1>2. CASE Record
    <2>1. wPc' = wPc /\ (publishOpen' = TRUE \/ publishOpen' = publishOpen)
        BY <1>2, Zenon DEF Record
    <2>. QED
        BY <2>1 DEF HoldersOpen, RLockHolders
<1>3. CASE BgDeferUnpublish \/ CloseFinish
    <2>1. BgDeferUnpublish => RLockHolders = {}
        BY DEF BgDeferUnpublish
    <2>2. CloseFinish => RLockHolders = {}
        BY DEF CloseFinish, HoldersLive
    <2>4. RLockHolders = {}
        BY <1>3, <2>1, <2>2
    <2>3. wPc' = wPc
        BY <1>3 DEF BgDeferUnpublish, CloseFinish
    <2>. QED
        BY <2>3, <2>4 DEF HoldersOpen, RLockHolders
<1>4. CASE BgStep /\ ~BgDeferUnpublish
    BY <1>1, <1>4 DEF BgStep, BgStartUDP, BgStartTCP, BgSelectTick,
       TickReportsUDP, TickReportsTCP, BgTerminateUDP, BgWaitReader,
       BgReaderDone, BgTerminateTCP
<1>5. ASSUME NEW w \in Writers, WriterStep(w) PROVE HoldersOpen'
    <2>1. publishOpen' = publishOpen
        BY <1>5 DEF WriterStep, WriterStart, WriteFrameCheck, WriteFrameUDP,
           WriteFrameTCPHeader, WriteFrameTCPPayload
    <2>. QED
        BY <1>5, <2>1, HoldersGrow DEF HoldersOpen
<1>6. CASE Announce \/ Setup \/ ReaderReadResponse \/ ReaderReadError
           \/ PauseStart \/ PauseDo \/ PauseReply \/ CloseStart
           \/ ServerSendResponse \/ ServerHangup
    BY <1>1, <1>6 DEF Announce, Setup, ReaderReadResponse, ReaderReadError,
       PauseStart, PauseDo, PauseReply, CloseStart, ServerSendResponse,
       ServerHangup
<1>. QED
    BY <1>2, <1>3, <1>4, <1>5, <1>6 DEF Next

\* Pause and Close leave Record only as they return to the foreground.
LEMMA FgRecordNext ==
    ASSUME FgRecord, Next
    PROVE  FgRecord'
<1>1. ASSUME UNCHANGED <<state, fgPc>> PROVE FgRecord'
    BY <1>1 DEF FgRecord
<1>2. CASE Announce \/ Setup \/ Record \/ PauseReply \/ CloseFinish
    BY <1>2 DEF Announce, Setup, Record, PauseReply, CloseFinish, FgRecord
<1>3. CASE PauseStart \/ PauseDo
    BY <1>3 DEF PauseStart, PauseDo, FgRecord
<1>4. CASE CloseStart
    BY <1>4, Zenon DEF CloseStart, FgRecord
<1>5. CASE BgStep
    BY <1>1, <1>5 DEF BgStep, BgStartUDP, BgStartTCP, BgSelectTick,
       TickReportsUDP, TickReportsTCP, BgTerminateUDP, BgWaitReader,
       BgReaderDone, BgTerminateTCP, BgDeferUnpublish
<1>6. ASSUME NEW w \in Writers, WriterStep(w) PROVE FgRecord'
    BY <1>1, <1>6 DEF WriterStep, WriterStart, WriteFrameCheck,
       WriteFrameUDP, WriteFrameTCPHeader, WriteFrameTCPPayload
<1>7. CASE ReaderReadResponse \/ ReaderReadError \/ ServerSendResponse
           \/ ServerHangup
    BY <1>1, <1>7 DEF ReaderReadResponse, ReaderReadError,
       ServerSendResponse, ServerHangup
<1>. QED
    BY <1>2, <1>3, <1>4, <1>5, <1>6, <1>7 DEF Next

LEMMA SessInvNext ==
    ASSUME SessInv, [Next]_vars
    PROVE  SessInv'
<1>1. CASE Next
    BY <1>1, TypeOKNext, CtlInvNext, LiveNext, HoldersOpenNext, FgRecordNext
    DEF SessInv
<1>2. CASE UNCHANGED vars
    BY <1>2 DEF vars, SessInv, TypeOK, CtlInv, ReaderAlive, PublishLive,
       HoldersLive, HoldersOpen, FgRecord, RLockHolders
<1>. QED
    BY <1>1, <1>2

LEMMA SessInvHolds ==
    Spec => []SessInv
BY SessInvInit, SessInvNext, PTL DEF Spec

-----------------------------------------------------------------------------
(* The refinement.                                                         *)

\* A step that leaves state, publishOpen and sent alone stutters.
Stutter == UNCHANGED Session!vars

LEMMA SessionInit ==
    Init => Session!Init
BY DEF Init, Session!Init

\* The requests: on 200 ANNOUNCE and RECORD are the abstract steps, SETUP
\* and every failed request stutter.
LEMMA SessionRequests ==
    ASSUME Announce \/ Setup \/ Record
    PROVE  Session!Announce \/ Session!Record \/ Stutter
<1>1. CASE Announce
    BY <1>1, Zenon DEF Announce, Session!Announce, Stutter, Session!vars
<1>2. CASE Setup
    BY <1>2 DEF Setup, Stutter, Session!vars
<1>3. CASE Record
    <2>1. PICK ok \in BOOLEAN :
              IF ok /\ setupTracks = Tracks
              THEN /\ state' = "record" /\ publishOpen' = TRUE
                   /\ terminate' = FALSE /\ bgPc' = "start"
              ELSE UNCHANGED <<state, publishOpen, terminate, bgPc>>
        BY <1>3 DEF Record
    <2>2. state = "preRecord" /\ sent' = sent
        BY <1>3 DEF Record
    <2>3. CASE ok /\ setupTracks = Tracks
        BY <2>1, <2>2, <2>3 DEF Session!Record
    <2>4. CASE ~(ok /\ setupTracks = Tracks)
        BY <2>1, <2>2, <2>4 DEF Stutter, Session!vars
    <2>. QED
        BY <2>3, <2>4
<1>. QED
    BY <1>1, <1>2, <1>3

\* The deferred unpublish is the abstract Stop (publishOpen was set in
\* Record) or, if publishOpen was already clear, a stutter.
LEMMA SessionUnpublish ==
    ASSUME TypeOK, PublishLive, BgDeferUnpublish
    PROVE  Session!Stop \/ Stutter
<1>1. publishOpen' = FALSE /\ UNCHANGED <<state, sent>>
    BY DEF BgDeferUnpublish
<1>2. CASE publishOpen
    BY <1>1, <1>2 DEF PublishLive, Session!Stop
<1>3. CASE ~publishOpen
    BY <1>1, <1>3 DEF Stutter, Session!vars, TypeOK
<1>. QED
    BY <1>2, <1>3

\* A frame handed to a socket is a Send: the writer holds the read lock,
\* so publishOpen is set and the connection records.
LEMMA SessionWriter ==
    ASSUME TypeOK, HoldersLive, HoldersOpen, NEW w \in Writers, WriterStep(w)
    PROVE  Session!Send(w) \/ Stutter
<1>1. ASSUME w \in RLockHolders PROVE state = "record" /\ publishOpen
    BY <1>1 DEF HoldersLive, HoldersOpen
<1>2. UNCHANGED <<state, publishOpen>>
    BY DEF WriterStep, WriterStart, WriteFrameCheck, WriteFrameUDP,
       WriteFrameTCPHeader, WriteFrameTCPPayload
<1>3. CASE WriterStart(w) \/ WriteFrameCheck(w) \/ WriteFrameTCPHeader(w)
    BY <1>2, <1>3 DEF WriterStart, WriteFrameCheck, WriteFrameTCPHeader,
       Stutter, Session!vars
<1>4. CASE WriteFrameUDP(w)
    <2>1. w \in RLockHolders
        BY <1>4 DEF WriteFrameUDP, RLockHolders
    <2>2. sent' = [sent EXCEPT ![w] = @ + 1] \/ sent' = sent
        BY <1>4, Zenon DEF WriteFrameUDP
    <2>. QED
        BY <1>1, <1>2, <2>1, <2>2 DEF Session!Send, Stutter, Session!vars
<1>5. CASE WriteFrameTCPPayload(w)
    <2>1. w \in RLockHolders
        BY <1>5 DEF WriteFrameTCPPayload, RLockHolders
    <2>2. sent' = [sent EXCEPT ![w] = @ + 1] \/ sent' = sent
        BY <1>5, Zenon DEF WriteFrameTCPPayload
    <2>. QED
        BY <1>1, <1>2, <2>1, <2>2 DEF Session!Send, Stutter, Session!vars
<1>. QED
    BY <1>3, <1>4, <1>5 DEF WriterStep

\* Pause's 200 and Close leave Record only once the loop is done, hence
\* with publishOpen clear.
LEMMA SessionForeground ==
    ASSUME TypeOK, CtlInv, PublishLive, FgRecord,
           PauseReply \/ CloseStart \/ CloseFinish
    PROVE  Session!Pause \/ Session!Close \/ Stutter
<1>1. CASE PauseReply
    <2>1. state = "record" /\ ~publishOpen
        BY <1>1 DEF PauseReply, CtlInv, PublishLive, FgRecord
    <2>2. UNCHANGED <<publishOpen, sent>>
          /\ (state' = "preRecord" \/ state' = state)
        BY <1>1 DEF PauseReply
    <2>. QED
        BY <2>1, <2>2 DEF Session!Pause, Stutter, Session!vars
<1>2. CASE CloseStart
    <2>1. UNCHANGED <<publishOpen, sent>> /\ state # "closed"
        BY <1>2 DEF CloseStart
    <2>2. CASE state = "record"
        BY <1>2, <2>1, <2>2 DEF CloseStart, Stutter, Session!vars
    <2>3. CASE state # "record"
        <3>1. state' = "closed" /\ ~publishOpen
            BY <1>2, <2>3 DEF CloseStart, PublishLive
        <3>. QED
            BY <2>1, <3>1 DEF Session!Close
    <2>. QED
        BY <2>2, <2>3
<1>3. CASE CloseFinish
    <2>1. state = "record" /\ ~publishOpen
        BY <1>3 DEF CloseFinish, PublishLive, FgRecord
    <2>2. state' = "closed" /\ publishOpen' = FALSE /\ sent' = sent
        BY <1>3 DEF CloseFinish
    <2>. QED
        BY <2>1, <2>2 DEF Session!Close, TypeOK
<1>. QED
    BY <1>1, <1>2, <1>3

\* Every step of ClientConn is a step of the publish session or leaves
\* its variables alone.
LEMMA SessionNext ==
    ASSUME SessInv, [Next]_vars
    PROVE  [Session!Next]_Session!vars
<1>. USE DEF SessInv
<1>1. ASSUME Stutter PROVE [Session!Next]_Session!vars
    BY <1>1 DEF Stutter
<1>2. CASE UNCHANGED vars
    BY <1>1, <1>2 DEF vars, Stutter, Session!vars
<1>3. CASE Announce \/ Setup \/ Record
    BY <1>1, <1>3, SessionRequests DEF Session!Next
<1>4. CASE BgDeferUnpublish
    BY <1>1, <1>4, SessionUnpublish DEF Session!Next
<1>5. CASE BgStep /\ ~BgDeferUnpublish
    <2>1. Stutter
        BY <1>5 DEF BgStep, BgStartUDP, BgStartTCP, BgSelectTick,
           TickReportsUDP, TickReportsTCP, BgTerminateUDP, BgWaitReader,
           BgReaderDone, BgTerminateTCP, Stutter, Session!vars
    <2>. QED
        BY <1>1, <2>1
<1>6. ASSUME NEW w \in Writers, WriterStep(w)
      PROVE  [Session!Next]_Session!vars
    BY <1>1, <1>6, SessionWriter DEF Session!Next
<1>7. CASE PauseReply \/ CloseStart \/ CloseFinish
    BY <1>1, <1>7, SessionForeground DEF Session!Next
<1>8. CASE ReaderReadResponse \/ ReaderReadError \/ PauseStart \/ PauseDo
           \/ ServerSendResponse \/ ServerHangup
    <2>1. Stutter
        BY <1>8 DEF ReaderReadResponse, ReaderReadError, PauseStart,
           PauseDo, ServerSendResponse, ServerHangup, Stutter, Session!vars
    <2>. QED
        BY <1>1, <2>1
<1>. QED
    BY <1>2, <1>3, <1>4, <1>5, <1>6, <1>7, <1>8 DEF Next

\* ClientConn implements the publish session of spec 4.4 and 4.6 for every
\* number of writer goroutines, tracks and bounds and both protocols: the
\* connection state moves only along the legal transitions, Pause and
\* Close leave Record only after the loop's deferred function has cleared
\* publishOpen, and no WriteFrame call hands a frame to a socket outside
\* Record or after publishOpen was cleared, because the deferred function
\* takes publishWriteMutex's write lock only when no WriteFrame holds the
\* read lock.
THEOREM SessionRefinementHolds == Spec => SessionRefinement
<1>1. Init => Session!Init
    BY SessionInit
<1>2. SessInv /\ [Next]_vars => [Session!Next]_Session!vars
    BY SessionNext
<1>. QED
    BY <1>1, <1>2, SessInvHolds, PTL DEF SessionRefinement, Session!Spec, Spec

=============================================================================
