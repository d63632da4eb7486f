----------------------- MODULE ExampleServerProofs -------------------------
(***************************************************************************)
(* Proofs about ExampleServer, for every set of connections, tracks and   *)
(* paths: the registry invariants PublisherOwnsSession, ReadersLive and   *)
(* RecordingMatchesSdp, and that handleConn implements RelayRegistry.     *)
(***************************************************************************)
EXTENDS ExampleServer, TLAPS

\* The invariant the proofs carry: the properties the runs check, with what
\* the record side keeps between RECORD and the clean-up.
RecordComplete ==
    \A c \in Conns : state[c] = "Record" => setupTracks[c] = announced[c]
SdpOfPublisher ==
    publisher # NoConn => sdp = announced[publisher]

IInv ==
    /\ TypeOK
    /\ PublisherOwnsSession
    /\ ReadersLive
    /\ RecordComplete
    /\ SdpOfPublisher

USE ServerAssumption DEF vars, connVars, globalVars

\* A SETUP URL names a track of Tracks, with or without a trackID suffix.
LEMMA SetupTrackIDType ==
    ASSUME NEW t \in Tracks \cup {NoTrackID}
    PROVE  SetupTrackID(t) \in Tracks
BY DEF SetupTrackID, NoTrackID

\* The states that admit each method.
LEMMA AllowedValues ==
    /\ Allowed["DESCRIBE"] = {"Initial"}
    /\ Allowed["ANNOUNCE"] = {"Initial"}
    /\ Allowed["SETUP"] = {"Initial", "PrePlay", "PreRecord"}
    /\ Allowed["PLAY"] = {"PrePlay", "Play"}
    /\ Allowed["RECORD"] = {"PreRecord"}
BY DEF Allowed, Methods

LEMMA IInvInit ==
    Init => IInv
BY DEF Init, IInv, TypeOK, PublisherOwnsSession, ReadersLive, RecordComplete,
       SdpOfPublisher, ConnStates

LEMMA AcceptInv ==
    ASSUME IInv, NEW c \in Conns, Accept(c)
    PROVE  IInv'
BY DEF IInv, Accept, FreshConn, TypeOK, PublisherOwnsSession, ReadersLive,
       RecordComplete, SdpOfPublisher, ConnStates

LEMMA WrongStateInv ==
    ASSUME IInv, NEW c \in Conns, WrongState(c)
    PROVE  IInv'
BY DEF IInv, WrongState, Reply, EndRead, TypeOK, PublisherOwnsSession,
       ReadersLive, RecordComplete, SdpOfPublisher

LEMMA OnDescribeInv ==
    ASSUME IInv, NEW c \in Conns, OnDescribe(c)
    PROVE  IInv'
BY DEF IInv, OnDescribe, Reply, TypeOK, PublisherOwnsSession,
       ReadersLive, RecordComplete, SdpOfPublisher

LEMMA OnAnnounceInv ==
    ASSUME IInv, NEW c \in Conns, NEW ts \in SUBSET Tracks \ {{}},
           OnAnnounce(c, ts)
    PROVE  IInv'
BY AllowedValues DEF IInv, OnAnnounce, Reply, EndRead, TypeOK, ConnStates,
       PublisherOwnsSession, ReadersLive, RecordComplete, SdpOfPublisher

LEMMA OnSetupInv ==
    ASSUME IInv, NEW c \in Conns, NEW t \in Tracks, NEW p \in Paths,
           OnSetup(c, t, p)
    PROVE  IInv'
BY AllowedValues DEF IInv, OnSetup, Reply, EndRead, TypeOK, ConnStates,
       PublisherOwnsSession, ReadersLive, RecordComplete, SdpOfPublisher

LEMMA OnPlayInv ==
    ASSUME IInv, NEW c \in Conns, OnPlay(c)
    PROVE  IInv'
BY AllowedValues DEF IInv, OnPlay, TypeOK, PublisherOwnsSession, ReadersLive,
       RecordComplete, SdpOfPublisher

LEMMA PlayReplyInv ==
    ASSUME IInv, NEW c \in Conns, PlayReply(c)
    PROVE  IInv'
BY DEF IInv, PlayReply, Reply, TypeOK, ConnStates, PublisherOwnsSession,
       ReadersLive, RecordComplete, SdpOfPublisher

LEMMA OnRecordInv ==
    ASSUME IInv, NEW c \in Conns, OnRecord(c)
    PROVE  IInv'
BY AllowedValues DEF IInv, OnRecord, Reply, EndRead, TypeOK, ConnStates,
       PublisherOwnsSession, ReadersLive, RecordComplete, SdpOfPublisher

LEMMA OnPauseInv ==
    ASSUME IInv, NEW c \in Conns, OnPause(c)
    PROVE  IInv'
BY DEF IInv, OnPause, Reply, TypeOK, ConnStates,
       PublisherOwnsSession, ReadersLive, RecordComplete, SdpOfPublisher

LEMMA OnFrameInv ==
    ASSUME IInv, NEW c \in Conns, NEW t \in Tracks, OnFrame(c, t)
    PROVE  IInv'
BY DEF IInv, OnFrame, ServerWriteFrame, TypeOK, PublisherOwnsSession,
       ReadersLive, RecordComplete, SdpOfPublisher

LEMMA ReadEndsInv ==
    ASSUME IInv, NEW c \in Conns, ReadEnds(c)
    PROVE  IInv'
BY DEF IInv, ReadEnds, EndRead, TypeOK, PublisherOwnsSession,
       ReadersLive, RecordComplete, SdpOfPublisher

LEMMA CleanupInv ==
    ASSUME IInv, NEW c \in Conns, Cleanup(c)
    PROVE  IInv'
BY DEF IInv, Cleanup, TypeOK, PublisherOwnsSession, ReadersLive,
       RecordComplete, SdpOfPublisher

LEMMA CloseConnInv ==
    ASSUME IInv, NEW c \in Conns, CloseConn(c)
    PROVE  IInv'
BY DEF IInv, CloseConn, TypeOK, ConnStates, PublisherOwnsSession,
       ReadersLive, RecordComplete, SdpOfPublisher

LEMMA IInvNext ==
    ASSUME IInv, [Next]_vars
    PROVE  IInv'
<1>1. CASE UNCHANGED vars
    BY <1>1 DEF IInv, TypeOK, PublisherOwnsSession, ReadersLive,
                RecordComplete, SdpOfPublisher
<1>2. CASE Next
    <2>1. PICK c \in Conns : ConnNext(c)
        BY <1>2 DEF Next
    <2>2. CASE Accept(c)
        BY <2>2, AcceptInv
    <2>3. CASE WrongState(c)
        BY <2>3, WrongStateInv
    <2>4. CASE OnDescribe(c)
        BY <2>4, OnDescribeInv
    <2>5. CASE \E ts \in SUBSET Tracks \ {{}} : OnAnnounce(c, ts)
        BY <2>5, OnAnnounceInv
    <2>6. CASE \E t \in Tracks \cup {NoTrackID}, p \in Paths :
                  OnSetup(c, SetupTrackID(t), p)
        BY <2>6, OnSetupInv, SetupTrackIDType
    <2>7. CASE OnPlay(c)
        BY <2>7, OnPlayInv
    <2>8. CASE PlayReply(c)
        BY <2>8, PlayReplyInv
    <2>9. CASE OnRecord(c)
        BY <2>9, OnRecordInv
    <2>10. CASE OnPause(c)
        BY <2>10, OnPauseInv
    <2>11. CASE \E t \in Tracks : OnFrame(c, t)
        BY <2>11, OnFrameInv
    <2>12. CASE ReadEnds(c)
        BY <2>12, ReadEndsInv
    <2>13. CASE Cleanup(c)
        BY <2>13, CleanupInv
    <2>14. CASE CloseConn(c)
        BY <2>14, CloseConnInv
    <2>. QED
        BY <2>1, <2>2, <2>3, <2>4, <2>5, <2>6, <2>7, <2>8, <2>9, <2>10,
           <2>11, <2>12, <2>13, <2>14 DEF ConnNext
<1>. QED
    BY <1>1, <1>2

\* The strengthened invariant holds in every reachable state.
THEOREM IInvHolds == Spec => []IInv
<1>1. Init => IInv
    BY IInvInit
<1>2. IInv /\ [Next]_vars => IInv'
    BY IInvNext
<1>. QED
    BY <1>1, <1>2, PTL DEF Spec

\* For any number of connections and tracks, the publisher slot belongs to
\* the one live session on the record side (onAnnounce's check and the
\* clean-up's publisher = nil).
THEOREM PublisherOwnsSessionHolds == Spec => []PublisherOwnsSession
<1>1. IInv => PublisherOwnsSession
    BY DEF IInv
<1>. QED
    BY <1>1, IInvHolds, PTL

\* For any number of connections, readers holds only live play-side
\* sessions, so onFrame never writes to a connection after its clean-up.
THEOREM ReadersLiveHolds == Spec => []ReadersLive
<1>1. IInv => ReadersLive
    BY DEF IInv
<1>. QED
    BY <1>1, IInvHolds, PTL

\* For any tracks, a recording publisher has set up exactly the tracks of
\* the sdp DESCRIBE serves (ServerConn's RECORD completeness check).
THEOREM RecordingMatchesSdpHolds == Spec => []RecordingMatchesSdp
<1>1. IInv => RecordingMatchesSdp
    BY DEF IInv, PublisherOwnsSession, RecordComplete, SdpOfPublisher,
           RecordingMatchesSdp, TypeOK
<1>. QED
    BY <1>1, IInvHolds, PTL

\* A step of onFrame forwards only a track of the current sdp: the sender
\* is the publisher in Record, whose set-up tracks are the announced ones
\* (RecordComplete), which are the sdp (SdpOfPublisher).
LEMMA OnFrameFromSdp ==
    ASSUME IInv, NEW c \in Conns, NEW t \in Tracks, OnFrame(c, t)
    PROVE  \A r \in Conns : written'[r] \subseteq written[r] \cup sdp
<1>1. CASE c = publisher
    <2>1. t \in sdp
        BY <1>1 DEF OnFrame, IInv, RecordComplete, SdpOfPublisher
    <2>. QED
        BY <1>1, <2>1 DEF OnFrame, ServerWriteFrame
<1>2. CASE c # publisher
    BY <1>2 DEF OnFrame
<1>. QED
    BY <1>1, <1>2

\* For any number of connections and tracks, every frame onFrame routes to
\* a reader is of a track of the sdp DESCRIBE serves at that moment: the
\* clean-up clears sdp exactly when it clears publisher, and ServerConn
\* delivers only frames of tracks the publisher set up, all announced.
THEOREM FramesFromPublicationHolds == Spec => FramesFromPublication
<1>1. IInv /\ [Next]_vars
        => [\A r \in Conns : written'[r] \subseteq written[r] \cup sdp]_vars
    <2> SUFFICES ASSUME IInv, Next
                 PROVE  \A r \in Conns : written'[r] \subseteq written[r] \cup sdp
        OBVIOUS
    <2>1. PICK c \in Conns : ConnNext(c)
        BY DEF Next
    <2>2. CASE Accept(c)
        BY <2>2 DEF Accept, FreshConn, IInv, TypeOK
    <2>3. CASE \E t \in Tracks : OnFrame(c, t)
        BY <2>3, OnFrameFromSdp
    <2>4. CASE ~Accept(c) /\ ~\E t \in Tracks : OnFrame(c, t)
        <3>1. written' = written
            BY <2>1, <2>4 DEF ConnNext, WrongState, OnDescribe, OnAnnounce,
               OnSetup, OnPlay, PlayReply, OnRecord, OnPause, ReadEnds,
               Cleanup, CloseConn
        <3>. QED
            BY <3>1
    <2>. QED
        BY <2>2, <2>3, <2>4
<1>. QED
    BY <1>1, IInvHolds, PTL DEF Spec, FramesFromPublication

-----------------------------------------------------------------------------
(* handleConn implements the safety part of RelayRegistry.  A connection *)
(* is open while its handleConn waits on Read; a successful onAnnounce     *)
(* claims the slot, onPlay subscribes, an error or a hang-up leaves, the   *)
(* clean-up releases; every other step leaves the registry as it is.       *)

RegOpen == {x \in Conns : hpc[x] \in {"read", "playReply"}}

LEMMA RegistryInit ==
    Init => Registry!Init
BY DEF Init, Registry!Init

\* The steps that change nothing the registry sees.
LEMMA RegistryStutter ==
    ASSUME IInv, NEW c \in Conns,
           \/ OnDescribe(c)
           \/ \E t \in Tracks, p \in Paths :
                 OnSetup(c, t, p) /\ hpc' = hpc
           \/ PlayReply(c)
           \/ OnRecord(c) /\ hpc' = hpc
           \/ OnPause(c)
           \/ \E t \in Tracks : OnFrame(c, t)
           \/ CloseConn(c)
    PROVE  UNCHANGED Registry!vars
<1>1. RegOpen' = RegOpen
    BY DEF IInv, TypeOK, OnDescribe, OnSetup, PlayReply, OnRecord, OnPause,
           OnFrame, CloseConn, RegOpen
<1>2. publisher' = publisher /\ readers' = readers
    BY DEF OnDescribe, OnSetup, PlayReply, OnRecord, OnPause, OnFrame,
           CloseConn
<1>. QED
    BY <1>1, <1>2 DEF Registry!vars, RegOpen

\* Accept opens a connection that holds nothing: an idle connection is
\* neither the publisher nor a reader.
LEMMA RegistryAccept ==
    ASSUME IInv, NEW c \in Conns, Accept(c)
    PROVE  Registry!Join(c)
BY DEF IInv, TypeOK, PublisherOwnsSession, ReadersLive, Accept, Registry!Join

\* A request that ends Read (a wrong state, an error reply, a hang-up)
\* leaves; the registry is cleaned up only afterwards.
LEMMA RegistryLeave ==
    ASSUME IInv, NEW c \in Conns,
           hpc[c] = "read", hpc' = [hpc EXCEPT ![c] = "cleanup"],
           publisher' = publisher, readers' = readers
    PROVE  Registry!Leave(c)
BY DEF IInv, TypeOK, Registry!Leave

\* A successful onAnnounce claims the free slot.
LEMMA RegistryClaim ==
    ASSUME IInv, NEW c \in Conns, NEW ts \in SUBSET Tracks,
           OnAnnounce(c, ts), publisher = NoConn
    PROVE  Registry!Claim(c)
BY DEF IInv, TypeOK, OnAnnounce, Registry!Claim

\* onPlay subscribes a connection on the play side, never the publisher.
LEMMA RegistrySubscribe ==
    ASSUME IInv, NEW c \in Conns, OnPlay(c)
    PROVE  Registry!Subscribe(c)
<1>1. c # publisher
    BY AllowedValues DEF IInv, PublisherOwnsSession, OnPlay
<1>. QED
    BY <1>1 DEF IInv, TypeOK, OnPlay, Registry!Subscribe

\* The clean-up releases what c held, or changes nothing if it held nothing.
LEMMA RegistryCleanup ==
    ASSUME IInv, NEW c \in Conns, Cleanup(c)
    PROVE  Registry!Release(c) \/ UNCHANGED Registry!vars
<1>1. c \notin RegOpen /\ RegOpen' = RegOpen
    BY DEF IInv, TypeOK, Cleanup, RegOpen
<1>2. CASE c = publisher
    <2>1. publisher' = NoConn /\ readers' = readers
        BY <1>2 DEF Cleanup
    <2>. QED
        BY <1>1, <1>2, <2>1 DEF Registry!Release, RegOpen
<1>3. CASE c # publisher /\ c \in readers
    <2>1. readers' = readers \ {c} /\ publisher' = publisher
        BY <1>3 DEF Cleanup
    <2>. QED
        BY <1>1, <1>3, <2>1 DEF Registry!Release, RegOpen
<1>4. CASE c # publisher /\ c \notin readers
    <2>1. readers' = readers /\ publisher' = publisher
        BY <1>4 DEF Cleanup
    <2>. QED
        BY <1>1, <2>1 DEF Registry!vars, RegOpen
<1>. QED
    BY <1>2, <1>3, <1>4

LEMMA RegistryNext ==
    ASSUME IInv, [Next]_vars
    PROVE  [Registry!Next]_Registry!vars
<1>1. CASE UNCHANGED vars
    BY <1>1 DEF Registry!vars
<1>2. CASE Next
    <2>1. PICK c \in Conns : ConnNext(c)
        BY <1>2 DEF Next
    <2>2. CASE Accept(c)
        BY <2>2, RegistryAccept DEF Registry!Next
    <2>3. CASE WrongState(c)
        BY <2>3, RegistryLeave DEF WrongState, EndRead, Registry!Next
    <2>4. CASE \E ts \in SUBSET Tracks \ {{}} : OnAnnounce(c, ts)
        <3>1. PICK ts \in SUBSET Tracks \ {{}} : OnAnnounce(c, ts)
            BY <2>4
        <3>2. CASE publisher = NoConn
            BY <3>1, <3>2, RegistryClaim DEF Registry!Next
        <3>3. CASE publisher # NoConn
            <4>1. hpc[c] = "read" /\ hpc' = [hpc EXCEPT ![c] = "cleanup"]
                  /\ publisher' = publisher /\ readers' = readers
                BY <3>1, <3>3 DEF OnAnnounce, EndRead
            <4>. QED
                BY <4>1, RegistryLeave DEF Registry!Next
        <3>. QED
            BY <3>2, <3>3
    <2>5. CASE \E t \in Tracks \cup {NoTrackID}, p \in Paths :
                  OnSetup(c, SetupTrackID(t), p)
        <3>1. PICK t \in Tracks, p \in Paths : OnSetup(c, t, p)
            BY <2>5, SetupTrackIDType
        <3>2. CASE hpc' = hpc
            BY <3>1, <3>2, RegistryStutter
        <3>3. CASE hpc' # hpc
            <4>1. hpc[c] = "read" /\ hpc' = [hpc EXCEPT ![c] = "cleanup"]
                  /\ publisher' = publisher /\ readers' = readers
                BY <3>1, <3>3 DEF OnSetup, EndRead
            <4>. QED
                BY <4>1, RegistryLeave DEF Registry!Next
        <3>. QED
            BY <3>2, <3>3
    <2>6. CASE OnPlay(c)
        BY <2>6, RegistrySubscribe DEF Registry!Next
    <2>7. CASE OnRecord(c)
        <3>1. CASE hpc' = hpc
            BY <2>7, <3>1, RegistryStutter
        <3>2. CASE hpc' # hpc
            <4>1. hpc[c] = "read" /\ hpc' = [hpc EXCEPT ![c] = "cleanup"]
                  /\ publisher' = publisher /\ readers' = readers
                BY <2>7, <3>2 DEF OnRecord, EndRead
            <4>. QED
                BY <4>1, RegistryLeave DEF Registry!Next
        <3>. QED
            BY <3>1, <3>2
    <2>8. CASE ReadEnds(c)
        BY <2>8, RegistryLeave DEF ReadEnds, EndRead, Registry!Next
    <2>9. CASE Cleanup(c)
        BY <2>9, RegistryCleanup DEF Registry!Next
    <2>10. CASE OnDescribe(c) \/ PlayReply(c) \/ OnPause(c)
                \/ (\E t \in Tracks : OnFrame(c, t)) \/ CloseConn(c)
        BY <2>10, RegistryStutter
    <2>. QED
        BY <2>1, <2>2, <2>3, <2>4, <2>5, <2>6, <2>7, <2>8, <2>9, <2>10
        DEF ConnNext
<1>. QED
    BY <1>1, <1>2

\* For any connections and tracks, the registry handleConn keeps behaves as
\* RelayRegistry allows: a slot claimed only while free, subscriptions only
\* of non-publishers, releases only after the session left.  The liveness
\* half, WF of Release, is checked by TLC in RegistryRefinement.
THEOREM RegistrySafeRefinement == Spec => Registry!SafeSpec
<1>1. Init => Registry!Init
    BY RegistryInit
<1>2. IInv /\ [Next]_vars => [Registry!Next]_Registry!vars
    BY RegistryNext
<1>. QED
    BY <1>1, <1>2, IInvHolds, PTL DEF Registry!SafeSpec, Spec
=============================================================================
