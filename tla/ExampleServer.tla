--------------------------- MODULE ExampleServer ---------------------------
(***************************************************************************)
(* The example RTSP server of examples/server-udp/main.go: one goroutine  *)
(* handleConn per accepted ServerConn, a global mutex, one publisher, the *)
(* set of readers and the publisher's SDP.  Each callback runs under the  *)
(* mutex and is one atomic step.  The ServerConn state machine that calls *)
(* the callbacks (serverconn.go, not in this repository) is modelled from *)
(* spec 4.5 and from the ServerConn tests at the end of main.go.          *)
(*                                                                         *)
(* A connection slot c of Conns is reused after its handler returned, so  *)
(* the model has the endless Accept loop of main with |Conns| connections *)
(* open at a time.  A frame is abstracted to the track it belongs to.     *)
(***************************************************************************)
EXTENDS Integers

CONSTANTS
    Conns,      \* connection slots (model values)
    Tracks,     \* track ids a client may name (0 and 1 suffice)
    Paths,      \* stream paths a SETUP URL may carry
    NoConn,     \* publisher == nil
    NoPath      \* no SETUP has fixed the session's path yet

ASSUME ServerAssumption ==
    /\ NoConn \notin Conns
    /\ NoPath \notin Paths
    /\ 0 \in Tracks

VARIABLES
    hpc,        \* where handleConn(c) is: idle, read (blocked on <-conn.Read),
                \* playReply (onPlay returned, response not yet written),
                \* cleanup (Read returned), close (deferred conn.Close)
    state,      \* ServerConn state of c
    setupTracks,\* tracks c has set up in this session
    connPath,   \* base path fixed by c's first SETUP
    announced,  \* tracks of the SDP c announced
    resp,       \* status code of the last response written to c (0: none)
    written,    \* tracks for which WriteFrame(c, track) reached c in Play
    publisher,  \* var publisher *gortsplib.ServerConn
    sdp,        \* var sdp []byte, abstracted to its tracks ({} is nil)
    readers     \* var readers map[*gortsplib.ServerConn]struct{}

connVars == <<hpc, state, setupTracks, connPath, announced, resp, written>>
globalVars == <<publisher, sdp, readers>>
vars == <<connVars, globalVars>>

ConnStates == {"Initial", "PrePlay", "Play", "PreRecord", "Record", "Closed"}
Methods == {"DESCRIBE", "ANNOUNCE", "SETUP", "PLAY", "RECORD", "PAUSE"}

\* The states in which ServerConn accepts each method; any other is
\* answered 400 with WrongState and ends Read.
Allowed == [m \in Methods |->
    CASE m \in {"DESCRIBE", "ANNOUNCE"} -> {"Initial"}
      [] m = "SETUP"  -> {"Initial", "PrePlay", "PreRecord"}
      [] m = "PLAY"   -> {"PrePlay", "Play"}
      [] m = "RECORD" -> {"PreRecord"}
      [] m = "PAUSE"  -> {"PrePlay", "Play", "PreRecord", "Record"}]

\* A SETUP URL without a trackID suffix names track 0 (the "without track
\* id" cases of TestServerReadSetupPath).
NoTrackID == -1
SetupTrackID(t) == IF t = NoTrackID THEN 0 ELSE t

TypeOK ==
    /\ hpc \in [Conns -> {"idle", "read", "playReply", "cleanup", "close"}]
    /\ state \in [Conns -> ConnStates]
    /\ setupTracks \in [Conns -> SUBSET Tracks]
    /\ connPath \in [Conns -> Paths \cup {NoPath}]
    /\ announced \in [Conns -> SUBSET Tracks]
    /\ resp \in [Conns -> {0, 200, 400, 404}]
    /\ written \in [Conns -> SUBSET Tracks]
    /\ publisher \in Conns \cup {NoConn}
    /\ sdp \in SUBSET Tracks
    /\ readers \in SUBSET Conns

FreshConn(c) ==
    /\ state' = [state EXCEPT ![c] = "Initial"]
    /\ setupTracks' = [setupTracks EXCEPT ![c] = {}]
    /\ connPath' = [connPath EXCEPT ![c] = NoPath]
    /\ announced' = [announced EXCEPT ![c] = {}]
    /\ resp' = [resp EXCEPT ![c] = 0]
    /\ written' = [written EXCEPT ![c] = {}]

Init ==
    /\ hpc = [c \in Conns |-> "idle"]
    /\ state = [c \in Conns |-> "Initial"]
    /\ setupTracks = [c \in Conns |-> {}]
    /\ connPath = [c \in Conns |-> NoPath]
    /\ announced = [c \in Conns |-> {}]
    /\ resp = [c \in Conns |-> 0]
    /\ written = [c \in Conns |-> {}]
    /\ publisher = NoConn
    /\ sdp = {}
    /\ readers = {}

\* The reply to a request: write status code s and keep reading, or (when
\* the handler returned an error) write it and end Read.
Reply(c, s) == resp' = [resp EXCEPT ![c] = s]
EndRead(c) == hpc' = [hpc EXCEPT ![c] = "cleanup"]

-----------------------------------------------------------------------------
(* main: s.Accept() then go handleConn(conn).                              *)
Accept(c) ==
    /\ hpc[c] = "idle"
    /\ hpc' = [hpc EXCEPT ![c] = "read"]
    /\ FreshConn(c)
    /\ UNCHANGED globalVars

\* A request in a state that does not allow its method.
WrongState(c) ==
    /\ hpc[c] = "read"
    /\ \E m \in Methods : state[c] \notin Allowed[m]
    /\ Reply(c, 400) /\ EndRead(c)
    /\ UNCHANGED <<state, setupTracks, connPath, announced, written, globalVars>>

\* onDescribe: 404 without error while no one publishes, else 200 and sdp.
OnDescribe(c) ==
    /\ hpc[c] = "read"
    /\ state[c] \in Allowed["DESCRIBE"]
    /\ Reply(c, IF publisher = NoConn THEN 404 ELSE 200)
    /\ UNCHANGED <<hpc, state, setupTracks, connPath, announced, written,
                   globalVars>>

\* Mutant: onAnnounce without the publisher != nil check.
OnAnnounceNoGuard(c, ts) ==
    /\ hpc[c] = "read"
    /\ state[c] \in Allowed["ANNOUNCE"]
    /\ publisher' = c
    /\ sdp' = ts
    /\ announced' = [announced EXCEPT ![c] = ts]
    /\ state' = [state EXCEPT ![c] = "PreRecord"]
    /\ Reply(c, 200)
    /\ UNCHANGED <<hpc, setupTracks, connPath, written, readers>>

\* onAnnounce: 400 and an error if someone publishes, else c becomes the
\* publisher with the announced tracks as sdp, and the state PreRecord.
OnAnnounce(c, ts) ==
    /\ hpc[c] = "read"
    /\ state[c] \in Allowed["ANNOUNCE"]
    /\ IF publisher # NoConn
         THEN /\ Reply(c, 400) /\ EndRead(c)
              /\ UNCHANGED <<state, announced, publisher, sdp>>
         ELSE /\ publisher' = c
              /\ sdp' = ts
              /\ announced' = [announced EXCEPT ![c] = ts]
              /\ state' = [state EXCEPT ![c] = "PreRecord"]
              /\ Reply(c, 200)
              /\ UNCHANGED hpc
    /\ UNCHANGED <<setupTracks, connPath, written, readers>>

\* SETUP of track t on path p.  ServerConn rejects, before onSetup, a path
\* other than the session's, a track already set up, and on the publisher
\* side a track that was not announced (400, Read ends).  onSetup answers
\* 200; the first SETUP from Initial moves to PrePlay.
OnSetup(c, t, p) ==
    /\ hpc[c] = "read"
    /\ state[c] \in Allowed["SETUP"]
    /\ IF \/ connPath[c] \notin {NoPath, p}
          \/ t \in setupTracks[c]
          \/ state[c] = "PreRecord" /\ t \notin announced[c]
         THEN /\ Reply(c, 400) /\ EndRead(c)
              /\ UNCHANGED <<state, setupTracks, connPath>>
         ELSE /\ setupTracks' = [setupTracks EXCEPT ![c] = @ \cup {t}]
              /\ connPath' = [connPath EXCEPT ![c] = p]
              /\ state' = [state EXCEPT ![c] =
                              IF @ = "Initial" THEN "PrePlay" ELSE @]
              /\ Reply(c, 200)
              /\ UNCHANGED hpc
    /\ UNCHANGED <<announced, written, globalVars>>

\* onPlay: readers[conn] = struct{}{} under the mutex.  ServerConn writes
\* the 200 response and enters Play only after the callback returned.
OnPlay(c) ==
    /\ hpc[c] = "read"
    /\ state[c] \in Allowed["PLAY"]
    /\ readers' = readers \cup {c}
    /\ hpc' = [hpc EXCEPT ![c] = "playReply"]
    /\ UNCHANGED <<state, setupTracks, connPath, announced, resp, written,
                   publisher, sdp>>

PlayReply(c) ==
    /\ hpc[c] = "playReply"
    /\ state' = [state EXCEPT ![c] = "Play"]
    /\ Reply(c, 200)
    /\ hpc' = [hpc EXCEPT ![c] = "read"]
    /\ UNCHANGED <<setupTracks, connPath, announced, written, globalVars>>

\* Mutant: RECORD without the every-announced-track-set-up check.
OnRecordNoCompleteness(c) ==
    /\ hpc[c] = "read"
    /\ state[c] \in Allowed["RECORD"]
    /\ IF c # publisher
         THEN Reply(c, 400) /\ EndRead(c) /\ UNCHANGED state
         ELSE /\ state' = [state EXCEPT ![c] = "Record"]
              /\ Reply(c, 200)
              /\ UNCHANGED hpc
    /\ UNCHANGED <<setupTracks, connPath, announced, written, globalVars>>

\* RECORD: ServerConn requires every announced track set up; onRecord
\* answers 400 and an error unless c is the publisher.
OnRecord(c) ==
    /\ hpc[c] = "read"
    /\ state[c] \in Allowed["RECORD"]
    /\ IF setupTracks[c] # announced[c] \/ c # publisher
         THEN Reply(c, 400) /\ EndRead(c) /\ UNCHANGED state
         ELSE /\ state' = [state EXCEPT ![c] = "Record"]
              /\ Reply(c, 200)
              /\ UNCHANGED hpc
    /\ UNCHANGED <<setupTracks, connPath, announced, written, globalVars>>

\* PAUSE (the example sets no OnPause): 200, Play -> PrePlay and
\* Record -> PreRecord.  The example leaves c in readers.
OnPause(c) ==
    /\ hpc[c] = "read"
    /\ state[c] \in Allowed["PAUSE"]
    /\ state' = [state EXCEPT ![c] = CASE @ = "Play"   -> "PrePlay"
                                       [] @ = "Record" -> "PreRecord"
                                       [] OTHER        -> @]
    /\ Reply(c, 200)
    /\ UNCHANGED <<hpc, setupTracks, connPath, announced, written, globalVars>>

\* ServerConn.WriteFrame(track t) on r: the frame reaches the client only
\* once r is in Play, after its PLAY response (TestServerReadTCPResponse-
\* BeforeFrames).
ServerWriteFrame(r, t) ==
    IF state[r] = "Play" THEN written[r] \cup {t} ELSE written[r]

\* A frame of track t received from c in Record; onFrame routes it, under
\* the mutex, to every reader if c is the publisher.
OnFrame(c, t) ==
    /\ hpc[c] = "read"
    /\ state[c] = "Record"
    /\ t \in setupTracks[c]
    /\ written' = IF c = publisher
                    THEN [r \in Conns |-> IF r \in readers
                                            THEN ServerWriteFrame(r, t)
                                            ELSE written[r]]
                    ELSE written
    /\ UNCHANGED <<hpc, state, setupTracks, connPath, announced, resp,
                   globalVars>>

\* The client hangs up or sends TEARDOWN: Read returns.
ReadEnds(c) ==
    /\ hpc[c] = "read"
    /\ EndRead(c)
    /\ UNCHANGED <<state, setupTracks, connPath, announced, resp, written,
                   globalVars>>

\* Mutant: the clean-up forgets delete(readers, conn).
CleanupNoDelete(c) ==
    /\ hpc[c] = "cleanup"
    /\ IF c = publisher
         THEN publisher' = NoConn /\ sdp' = {}
         ELSE UNCHANGED <<publisher, sdp>>
    /\ hpc' = [hpc EXCEPT ![c] = "close"]
    /\ UNCHANGED <<readers, state, setupTracks, connPath, announced, resp,
                   written>>

\* Mutant: the clean-up sets sdp = nil outside the publisher branch.
CleanupClearsSdp(c) ==
    /\ hpc[c] = "cleanup"
    /\ IF c = publisher
         THEN publisher' = NoConn /\ UNCHANGED readers
         ELSE readers' = readers \ {c} /\ UNCHANGED publisher
    /\ sdp' = {}
    /\ hpc' = [hpc EXCEPT ![c] = "close"]
    /\ UNCHANGED <<state, setupTracks, connPath, announced, resp, written>>

\* After Read: under the mutex, clear the publisher and sdp if c was the
\* publisher, else delete c from readers.
Cleanup(c) ==
    /\ hpc[c] = "cleanup"
    /\ IF c = publisher
         THEN publisher' = NoConn /\ sdp' = {} /\ UNCHANGED readers
         ELSE readers' = readers \ {c} /\ UNCHANGED <<publisher, sdp>>
    /\ hpc' = [hpc EXCEPT ![c] = "close"]
    /\ UNCHANGED <<state, setupTracks, connPath, announced, resp, written>>

\* The deferred conn.Close(), after the mutex was released.
CloseConn(c) ==
    /\ hpc[c] = "close"
    /\ state' = [state EXCEPT ![c] = "Closed"]
    /\ hpc' = [hpc EXCEPT ![c] = "idle"]
    /\ UNCHANGED <<setupTracks, connPath, announced, resp, written, globalVars>>

-----------------------------------------------------------------------------
ConnNext(c) ==
    \/ Accept(c)
    \/ WrongState(c)
    \/ OnDescribe(c)
    \/ \E ts \in SUBSET Tracks \ {{}} : OnAnnounce(c, ts)
    \/ \E t \in Tracks \cup {NoTrackID}, p \in Paths :
          OnSetup(c, SetupTrackID(t), p)
    \/ OnPlay(c)
    \/ PlayReply(c)
    \/ OnRecord(c)
    \/ OnPause(c)
    \/ \E t \in Tracks : OnFrame(c, t)
    \/ ReadEnds(c)
    \/ Cleanup(c)
    \/ CloseConn(c)

Next == \E c \in Conns : ConnNext(c)

\* The handler goroutine, once Read returned, is scheduled: it takes the
\* mutex (held only for bounded callbacks), cleans up and closes.
Fairness == \A c \in Conns : WF_vars(Cleanup(c)) /\ WF_vars(CloseConn(c))

Spec == Init /\ [][Next]_vars /\ Fairness

-----------------------------------------------------------------------------
(* Properties                                                              *)

\* The registry the handlers keep, seen as RelayRegistry: the publisher
\* variable is the slot, readers the subscriptions, and a connection is open
\* while its handleConn waits on Read.
Registry == INSTANCE RelayRegistry WITH
    owner <- publisher,
    subs <- readers,
    open <- {c \in Conns : hpc[c] \in {"read", "playReply"}}

\* handleConn implements RelayRegistry: onAnnounce claims the publisher slot
\* only while it is free, onPlay subscribes only a non-publishing session,
\* and the clean-up after Read releases what the connection held.
RegistryRefinement == Registry!Spec

\* The publisher slot belongs to one live session: while publisher is set,
\* its handleConn has not finished and its ServerConn is on the record side;
\* and every connection still reading on the record side is the publisher.
\* Breaks if onAnnounce lets a second client take over, or if the clean-up
\* after Read forgets publisher = nil (the slot then points to a closed or
\* reused connection and no one can ever publish again).
PublisherOwnsSession ==
    /\ publisher # NoConn =>
          /\ hpc[publisher] \in {"read", "cleanup"}
          /\ state[publisher] \in {"PreRecord", "Record"}
    /\ \A c \in Conns :
          hpc[c] = "read" /\ state[c] \in {"PreRecord", "Record"} =>
              publisher = c

\* onFrame only writes to live readers: every connection in readers has a
\* running handleConn and a ServerConn on the play side, so the deferred
\* conn.Close() never closes a connection that onFrame can still reach.
ReadersLive ==
    \A r \in readers :
        /\ hpc[r] \in {"read", "playReply", "cleanup"}
        /\ state[r] \in {"PrePlay", "Play"}

\* A recording publisher has set up exactly the tracks of the sdp that
\* DESCRIBE hands to readers, so every track a reader learns of is fed.
RecordingMatchesSdp ==
    \A c \in Conns :
        hpc[c] = "read" /\ state[c] = "Record" => setupTracks[c] = sdp

\* onFrame routes to the readers only tracks of the current publication:
\* every frame a step delivers to a reader is of a track of the sdp that
\* DESCRIBE serves at that moment.  It rests on ServerConn delivering only
\* frames of set-up tracks, on the RECORD completeness check, and on the
\* clean-up clearing sdp exactly when it clears publisher.
FramesFromPublication ==
    [][\A r \in Conns : written'[r] \subseteq written[r] \cup sdp]_vars

\* A connection is only sent frames of tracks it has set up: onFrame calls
\* r.WriteFrame(trackID, ...) for every reader whatever tracks r set up.
ForwardOnlySetupTracks ==
    \A c \in Conns : written[c] \subseteq setupTracks[c]
=============================================================================
