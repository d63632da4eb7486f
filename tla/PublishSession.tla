--------------------------- MODULE PublishSession ---------------------------
(***************************************************************************)
(* What a publishing ClientConn promises (spec 4.4 and 4.6), without the  *)
(* goroutines, locks and sockets that implement it.                        *)
(*                                                                         *)
(*   Initial --ANNOUNCE--> PreRecord --SETUP--> PreRecord                  *)
(*   PreRecord --RECORD--> Record (publishing starts)                      *)
(*   Record --PAUSE--> PreRecord, any --TEARDOWN/Close--> Closed           *)
(*                                                                         *)
(* Publishing stops by itself (an error, a terminate signal) before the   *)
(* connection leaves Record, and a frame is handed to a socket only while *)
(* the connection records and publishing has not stopped.  SETUP and the  *)
(* failed requests change nothing visible here and are stuttering steps.  *)
(***************************************************************************)
EXTENDS Naturals

CONSTANT Writers

VARIABLES
    state,        \* Initial, PreRecord, Record or Closed
    publishing,   \* frames are accepted (publishOpen)
    sent          \* per writer: frames handed to a socket

vars == <<state, publishing, sent>>

States == {"initial", "preRecord", "record", "closed"}

TypeOK ==
    /\ state \in States
    /\ publishing \in BOOLEAN
    /\ sent \in [Writers -> Nat]

Init ==
    /\ state = "initial"
    /\ publishing = FALSE
    /\ sent = [w \in Writers |-> 0]

Announce ==
    /\ state = "initial"
    /\ state' = "preRecord"
    /\ UNCHANGED <<publishing, sent>>

Record ==
    /\ state = "preRecord"
    /\ state' = "record" /\ publishing' = TRUE
    /\ UNCHANGED sent

\* Publishing ends: the loop's deferred unpublish.
Stop ==
    /\ state = "record" /\ publishing
    /\ publishing' = FALSE
    /\ UNCHANGED <<state, sent>>

\* Pause returns to PreRecord only once publishing has stopped.
Pause ==
    /\ state = "record" /\ ~publishing
    /\ state' = "preRecord"
    /\ UNCHANGED <<publishing, sent>>

\* Close from any state but Closed, once publishing has stopped.
Close ==
    /\ state # "closed" /\ ~publishing
    /\ state' = "closed"
    /\ UNCHANGED <<publishing, sent>>

\* A frame of writer w reaches a socket.
Send(w) ==
    /\ state = "record" /\ publishing
    /\ sent' = [sent EXCEPT ![w] = @ + 1]
    /\ UNCHANGED <<state, publishing>>

Next ==
    \/ Announce \/ Record \/ Stop \/ Pause \/ Close
    \/ \E w \in Writers : Send(w)

Spec == Init /\ [][Next]_vars

=============================================================================
