------------------------------ MODULE RtpInfo -------------------------------
(***************************************************************************)
(* The RTP-Info header of pkg/headers (encoder.go 96-193): RTPInfo.Write  *)
(* builds the header a server puts in its PLAY response, RTPInfo.Read     *)
(* parses it on the client.  A string is a sequence of tokens: the        *)
(* separators ",", ";" and "=", and words (runs of other characters), so  *)
(* strings.Split and strings.SplitN are modelled by what they do on the   *)
(* separators, and a URL's String() by the tokens it is made of.         *)
(*                                                                         *)
(* The model is a round of a PLAY response: a server writes the header of *)
(* an RTPInfo (or, a server of another make, any header value), the      *)
(* client Reads it, and forwards what it read by Writing it again, as a   *)
(* proxy re-publishing the stream does.                                   *)
(***************************************************************************)
EXTENDS Integers, SequencesExt, TLC

CONSTANTS
    URLs,         \* URL strings (token sequences) the server may name
    URLHeads,     \* words with which base.ParseURL accepts a string
    SeqValues,    \* sequence numbers of entries (uint16)
    TsValues,     \* rtptime values of entries (uint32)
    NumDomain,    \* the numbers a word may spell
    RtpTimeBits,  \* width of Timestamp (32 in the code)
    MaxEntries,   \* entries of an RTPInfo the server writes
    ForeignValues \* header values written by other servers

ASSUME RtpInfoAssumption ==
    /\ RtpTimeBits \in Nat \ {0}
    /\ MaxEntries \in Nat \ {0}
    /\ SeqValues \cup TsValues \subseteq NumDomain
    /\ NumDomain \subseteq Nat

\* e.URL == nil; ParseURL never returns the empty string.
NoURL == <<>>

Entries == [url : URLs, seq : SeqValues, ts : TsValues]
\* The RTPInfos a server writes: one entry per track, each with its url.
Infos == UNION {[1..n -> Entries] : n \in 1..MaxEntries}

-----------------------------------------------------------------------------
(* strings.Split, strings.SplitN(_, _, 2) and strings.Join on tokens.      *)

Split(s, sep) ==
    LET pos == SetToSortSeq({i \in DOMAIN s : s[i] = sep}, <)
        b == <<0>> \o pos \o <<Len(s) + 1>>
    IN [k \in 1..Len(b) - 1 |-> SubSeq(s, b[k] + 1, b[k + 1] - 1)]

SplitN2(s, sep) ==
    LET pos == {i \in DOMAIN s : s[i] = sep}
    IN IF pos = {} THEN <<s>>
       ELSE <<SubSeq(s, 1, Min(pos) - 1), SubSeq(s, Min(pos) + 1, Len(s))>>

Join(ps, sep) ==
    IF ps = <<>> THEN <<>>
    ELSE FlattenSeq([i \in 1..2 * Len(ps) - 1 |->
                        IF i % 2 = 1 THEN ps[(i + 1) \div 2] ELSE <<sep>>])

\* strconv.FormatUint(n, 10) and strconv.ParseUint(v, 10, bits).
FormatUint(n) == <<ToString(n)>>
IsUint(v, bits) ==
    /\ Len(v) = 1
    /\ \E n \in NumDomain : ToString(n) = v[1] /\ n < 2^bits
UintOf(v) == CHOOSE n \in NumDomain : ToString(n) = v[1]

\* base.ParseURL accepts a string that starts like a URL.
IsURL(v) == Len(v) >= 1 /\ v[1] \in URLHeads

-----------------------------------------------------------------------------
(* RTPInfo.Read                                                            *)

\* One "key=value" of an entry: SplitN must give two parts and the key
\* must be url, seq or rtptime with a value that parses.
KVOK(kv) ==
    LET p == SplitN2(kv, "=")
    IN /\ Len(p) = 2
       /\ \/ p[1] = <<"url">> /\ IsURL(p[2])
          \/ p[1] = <<"seq">> /\ IsUint(p[2], 16)
          \/ p[1] = <<"rtptime">> /\ IsUint(p[2], RtpTimeBits)

EntryOK(piece) == \A i \in DOMAIN Split(piece, ";") : KVOK(Split(piece, ";")[i])

\* The entry an accepted piece gives: each key's last value wins, and the
\* fields a piece does not name keep their zero value.
EntryOf(piece) ==
    LET kvs == Split(piece, ";")
        Val(k) == LET is == {i \in DOMAIN kvs : SplitN2(kvs[i], "=")[1] = <<k>>}
                  IN IF is = {} THEN NoURL ELSE SplitN2(kvs[Max(is)], "=")[2]
    IN [url |-> Val("url"),
        seq |-> IF Val("seq") = NoURL THEN 0 ELSE UintOf(Val("seq")),
        ts  |-> IF Val("rtptime") = NoURL THEN 0 ELSE UintOf(Val("rtptime"))]

\* Read(v) into h: an error unless v has exactly one value; otherwise the
\* entries separated by "," are appended to h one by one, up to the first
\* that fails.
ReadInto(h, v) ==
    IF Len(v) # 1 THEN [ok |-> FALSE, h |-> h]
    ELSE LET ps == Split(v[1], ",")
             bad == {i \in DOMAIN ps : ~EntryOK(ps[i])}
             f == IF bad = {} THEN Len(ps) + 1 ELSE Min(bad)
         IN [ok |-> bad = {}, h |-> h \o [i \in 1..f - 1 |-> EntryOf(ps[i])]]

-----------------------------------------------------------------------------
(* RTPInfo.Write                                                           *)

EntryTokens(e) ==
    <<"url", "=">> \o e.url \o <<";", "seq", "=">> \o FormatUint(e.seq)
        \o <<";", "rtptime", "=">> \o FormatUint(e.ts)

\* Mutant: Write joins the entries with ";" instead of ",".
WriteSemicolon(h) ==
    [panics |-> \E i \in DOMAIN h : h[i].url = NoURL,
     v |-> <<Join([i \in DOMAIN h |-> EntryTokens(h[i])], ";")>>]

\* "url=" + e.URL.String() + ...: a nil URL is dereferenced and panics.
\* The header value is the one string base.HeaderValue{...}.
Write(h) ==
    [panics |-> \E i \in DOMAIN h : h[i].url = NoURL,
     v |-> <<Join([i \in DOMAIN h |-> EntryTokens(h[i])], ",")>>]

-----------------------------------------------------------------------------
VARIABLES
    sent,   \* the RTPInfo the server wrote (<<>> for a foreign value)
    value,  \* the header value on the wire
    got,    \* the client's Read result
    out,    \* the client's Write of what it read ([panics, v])
    phase   \* "idle", "sent", "read", "forwarded"

vars == <<sent, value, got, out, phase>>

NoResult == [ok |-> FALSE, h |-> <<>>]
NoWrite == [panics |-> FALSE, v |-> <<>>]

Init ==
    /\ sent = <<>>
    /\ value = <<>>
    /\ got = NoResult
    /\ out = NoWrite
    /\ phase = "idle"

\* The server answers PLAY with RTP-Info: Write(h) of one entry per track.
ServerWrite(h) ==
    /\ phase \in {"idle", "forwarded"}
    /\ sent' = h
    /\ value' = Write(h).v
    /\ got' = NoResult /\ out' = NoWrite
    /\ phase' = "sent"

\* A server of another make sends a header value of its own.
ForeignSend(v) ==
    /\ phase \in {"idle", "forwarded"}
    /\ sent' = <<>>
    /\ value' = v
    /\ got' = NoResult /\ out' = NoWrite
    /\ phase' = "sent"

\* The client: var ri headers.RTPInfo; err := ri.Read(value).
ClientRead ==
    /\ phase = "sent"
    /\ got' = ReadInto(<<>>, value)
    /\ phase' = "read"
    /\ UNCHANGED <<sent, value, out>>

\* The client forwards the header it read: ri.Write(), when Read succeeded.
Forward ==
    /\ phase = "read"
    /\ got.ok
    /\ out' = Write(got.h)
    /\ phase' = "forwarded"
    /\ UNCHANGED <<sent, value, got>>

\* A failed Read ends the round.
Drop ==
    /\ phase = "read"
    /\ ~got.ok
    /\ phase' = "forwarded"
    /\ UNCHANGED <<sent, value, got, out>>

Next ==
    \/ \E h \in Infos : ServerWrite(h)
    \/ \E v \in ForeignValues : ForeignSend(v)
    \/ ClientRead
    \/ Forward
    \/ Drop

Spec == Init /\ [][Next]_vars

-----------------------------------------------------------------------------
(* Properties                                                              *)

\* Read gives back exactly the RTPInfo that Write encoded, URLs, sequence
\* numbers and timestamps at their limits included.
RoundTrip ==
    phase = "read" /\ sent # <<>> => got = [ok |-> TRUE, h |-> sent]

\* Writing an RTPInfo that Read accepted never panics: every header Read
\* accepts can be written back.
ForwardNeverPanics ==
    ~out.panics
=============================================================================
