--------------------------- MODULE RelayRegistry ---------------------------
(***************************************************************************)
(* What the registry of the example server promises, without the RTSP    *)
(* state machine: connections open and leave; an open connection may     *)
(* claim the single publisher slot when it is free, or subscribe as a     *)
(* reader; once a connection has left, its claim or subscription is       *)
(* released.  ExampleServer implements this specification under the      *)
(* mapping given there (ExampleServer!Registry).                           *)
(***************************************************************************)
CONSTANTS Conns, NoConn

VARIABLES
    owner,  \* the connection holding the publisher slot, or NoConn
    subs,   \* the subscribed readers
    open    \* connections whose session is running

vars == <<owner, subs, open>>

TypeOK ==
    /\ owner \in Conns \cup {NoConn}
    /\ subs \subseteq Conns
    /\ open \subseteq Conns

Init ==
    /\ owner = NoConn
    /\ subs = {}
    /\ open = {}

\* A new connection, holding nothing.
Join(c) ==
    /\ c \notin open /\ c \notin subs /\ c # owner
    /\ open' = open \cup {c}
    /\ UNCHANGED <<owner, subs>>

\* An open connection takes the free publisher slot.
Claim(c) ==
    /\ c \in open /\ owner = NoConn
    /\ owner' = c
    /\ UNCHANGED <<subs, open>>

\* An open connection that does not publish subscribes.
Subscribe(c) ==
    /\ c \in open /\ c # owner
    /\ subs' = subs \cup {c}
    /\ UNCHANGED <<owner, open>>

\* The session of c ends.
Leave(c) ==
    /\ c \in open
    /\ open' = open \ {c}
    /\ UNCHANGED <<owner, subs>>

\* What c held is released after it left.
Release(c) ==
    /\ c \notin open
    /\ c = owner \/ c \in subs
    /\ IF c = owner THEN owner' = NoConn /\ UNCHANGED subs
                    ELSE subs' = subs \ {c} /\ UNCHANGED owner
    /\ UNCHANGED open

Next == \E c \in Conns :
    Join(c) \/ Claim(c) \/ Subscribe(c) \/ Leave(c) \/ Release(c)

SafeSpec == Init /\ [][Next]_vars

\* A connection that left does not hold the slot or a subscription forever.
Spec == SafeSpec /\ \A c \in Conns : WF_vars(Release(c))
=============================================================================
