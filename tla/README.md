# TLA+ models of gortsplib

This directory holds TLA+ models of the gortsplib RTSP library
(`majoyz/gortsplib`), the TLC configurations that check them on small
instances, and TLAPS proofs of some of their properties for every value of the
constants. The source files are under `src/`. The design document is
`spec.md`.

## 1. The system and its parts

| Part | Source | What it does |
|---|---|---|
| Client publish path | `src/unnamed/part_000` (`clientconnpublish.go`) | `Announce`, `Record`, the background record loops (UDP and TCP), the UDP response reader, `WriteFrame` |
| Client connection core | `clientconn.go`, not in `src/` | `Do`, `Setup`, `Pause`, `Close`, the play side. Only described in spec §4.4, §4.6 and §5 |
| Server connection | `serverconn.go`, not in `src/` | Server state machine (spec §4.5). Exercised by the tests in `src/unnamed/part_002` and `src/examples/server-udp/main.go:357-1121` |
| Example server | `src/examples/server-udp/main.go:1-342` | `handleConn` callbacks: one publisher, many readers, shared mutex, frame fan-out. There is a plain and a TLS copy |
| AAC RTP encoder | `src/pkg/rtpaac/encoder.go` | `Encoder` (size check, AU-header, sequence numbers, timestamps), `RTPInfo` header `Read`/`Write` |
| H.264 NALU types | `src/unnamed/part_001` | `NALUType.String()` |
| Wire codec, RTCP helper | not in `src/` | Request/response/frame serialization, RTCP reports (spec §4.1, §4.3) |

### How the parts of the publish path interact

A publishing `ClientConn` involves four kinds of goroutine:

- **The foreground goroutine.** It is the application calling `Announce`, `Setup`, `Record`, `Pause` and `Close`. Each call goes through `Do`, which writes a request on the control TCP connection and reads the response from the same buffered reader `c.br`.
- **The background record loop.** `Record` starts `backgroundRecordUDP` or `backgroundRecordTCP`. The loop `select`s on:
  - the terminate channel, closed by `Pause` and `Close`;
  - a report ticker, which takes `publishWriteMutex` in write mode and writes RTCP reports;
  - (UDP only) the `readerDone` channel.

  On exit a deferred function takes the write lock, clears `publishOpen`, and then closes `backgroundDone`.
- **The response reader (UDP only).** It reads RTSP responses from `c.br` in a loop. It drops every successfully read response. It sends its first error on the unbuffered `readerDone`. To stop the reader, the loop sets the read deadline to "now".
- **The application's writer goroutines.** They call `WriteFrame`, which takes `publishWriteMutex` in read mode.
  - If `publishOpen` is false it returns `publishError`.
  - Otherwise it writes the frame. On UDP it goes to a per-track socket. On TCP it is written as an interleaved frame (4-byte header, then payload) on the control connection, the same byte stream that carries RTSP requests and the ticker's RTCP frames.

Go's `sync.RWMutex` gives writers preference: once `Lock` is pending, new `RLock`s block.

### What is hard about it

- **Interleaving on the control stream.** Frame headers and payloads from the writers, RTCP frames from the ticker, and requests from the foreground all go to one byte stream. The server can parse it only if no frame is split.
- **Two readers of one buffered reader.** The UDP response reader and the foreground's `Do` both read `c.br`. The reader must be gone before `Pause` sends PAUSE.
- **Stopping a blocked reader.** The loop can only stop the reader by moving the read deadline, and then it must receive from the unbuffered `readerDone`.
- **Error hand-off.** `publishOpen` and `publishError` form a "live to dead" hand-off under the lock (spec §9). `WriteFrame` must never report success for a frame it did not send.
- **Server actions.** The server may hang up, or send an unsolicited response, in the middle of all this.

## 2. Modules

### `ClientPublish.tla`: the client publish path

The state follows the fields and goroutines of the code:

| Variable | Code |
|---|---|
| `state`, `setupTracks`, `streamProtocol` | `c.state`, the keys of `c.rtcpSenders`, `*c.streamProtocol` |
| `publishOpen`, `publishError` | `c.publishOpen`, `c.publishError` (`"nil"` for nil) |
| `terminate` | `c.backgroundTerminate` closed |
| `bgPc`, `reports` | where the record loop is; ticks taken |
| `rdPc`, `rdErr`, `readDeadline` | the response reader goroutine, the error it sends, `c.nconn`'s read deadline |
| `wPc`, `calls`, `sent`, `oks` | per writer goroutine: where it is in `WriteFrame`, calls made, frames handed to a socket, calls that returned nil |
| `tcpStream` | the chunks written to the control connection, in order: `req` (a request), `hdr` and `pay` (the two halves of an interleaved frame), each tagged with its writer |
| `fgPc`, `reqs`, `connOpen` | the foreground inside `Pause`/`Close`; requests sent; `c.nconn` and listeners open |
| `srvPending`, `srvSent`, `srvClosed` | the server: unread responses, unsolicited responses sent, hang-up |

The actions are:

- `Announce` and `Record` come from the code.
- `Setup`, `PauseStart`/`PauseDo`/`PauseReply` and `CloseStart`/`CloseFinish` come from spec §4.4 and §5, because `clientconn.go` is not in the tree. They are marked `spec_modelled` in the map.
- Each branch of the record loops is an action:
  - `BgStartUDP`, `BgStartTCP`;
  - `BgSelectTick`, then `TickReportsUDP` or `TickReportsTCP` once the last read-lock holder is gone;
  - `BgTerminateUDP`, then `BgWaitReader`;
  - `BgReaderDone`, `BgTerminateTCP`;
  - `BgDeferUnpublish`.
- The reader has `ReaderReadResponse` and `ReaderReadError`.
- `WriteFrame` is split at its blocking points:
  - `WriteFrameCheck`: `RLock` and the `publishOpen` test;
  - `WriteFrameUDP`;
  - `WriteFrameTCPHeader` and `WriteFrameTCPPayload`: the two writes of `frame.Write`.

Data is abstracted in three ways:

- A frame's payload and track do not appear. Only who wrote which chunk does.
- An RTCP report is a `hdr`/`pay` pair for each of 0 to `Cardinality(setupTracks)` tracks. `Report` may return nil for any track.
- A response's status is a nondeterministic `ok`.

### `MCClientPublish.tla`

`MCClientPublish.tla` gives the constants small values:

- one or two writer goroutines, as model values;
- one or two tracks;
- one or both protocols.

### `ClientPublishProofs.tla`

`ClientPublishProofs.tla` holds the TLAPS proofs of type correctness, `ReaderConfined` and `NoSilentDrop` on UDP. `ClientPublishFraming.tla` extends it with the proof of `WellFramed` for one writer. `ClientPublishSession.tla` extends that with the proof that ClientConn implements `PublishSession` (section 5).

### `PublishSession.tla`: what a publishing connection promises

`PublishSession.tla` is the abstract specification of the publish side of a ClientConn, from spec §4.4 and §4.6. Its state is `state`, `publishing` and `sent` (frames handed to a socket, per writer). Its actions are:

- `Announce`: Initial → PreRecord;
- `Record`: PreRecord → Record, and publishing starts;
- `Stop`: publishing ends while in Record;
- `Pause`: Record → PreRecord, only once publishing has stopped;
- `Close`: any state but Closed → Closed, only once publishing has stopped;
- `Send(w)`: a frame of writer `w` reaches a socket, only in Record while publishing.

SETUP and failed requests change none of these variables, so they are stuttering steps. `ClientPublish` instantiates the module as `Session`, mapping `publishing <- publishOpen`; `state` and `sent` map to themselves. It checks `Session!Spec` as the property `SessionRefinement`.

### `ExampleServer.tla`: the example server and the server connection

`ExampleServer.tla` models `handleConn` of `main.go` (lines 23-143, and the identical TLS copy at 192-312). It also models the part of the `ServerConn` state machine that the callbacks depend on. `serverconn.go` is not in the tree, so that part is taken from spec §4.5 and from the ServerConn tests at `main.go:343-1121`.

A connection slot `c` of `Conns` is reused after its handler returns. This gives `main`'s endless `Accept` loop with up to `|Conns|` connections open at once. Each callback takes the global `mutex` for its whole body, so each callback is one atomic step.

| Variable | Code |
|---|---|
| `publisher`, `readers`, `sdp` | the globals at `main.go:17-20`. `sdp` is abstracted to the announced tracks |
| `hpc[c]` | where `handleConn(c)` is: `idle`, `read` (blocked on `<-conn.Read`), `playReply` (`onPlay` returned, response not yet written), `cleanup` (Read returned), `close` (the deferred `conn.Close`) |
| `state[c]`, `setupTracks[c]`, `connPath[c]`, `announced[c]` | the ServerConn's state, set-up tracks, session path, and announced tracks |
| `resp[c]`, `written[c]` | the last status code written to `c`; the tracks of frames `WriteFrame` delivered to `c` |

The actions:

- `Accept` is main's accept loop.
- Each callback is an action: `OnDescribe`, `OnAnnounce` (a 400 and an error when someone publishes), `OnSetup`, `OnPlay`, `OnRecord` and `OnFrame`.
- `WrongState` is the ServerConn's 400 for a method its state does not allow. It uses the `Allowed` table.
- `PlayReply` writes the PLAY response after `onPlay` returned, and enters Play.
- `OnPause` is the library's default PAUSE handling.
- `ReadEnds` covers a hang-up or TEARDOWN.
- `Cleanup` is the locked block after Read (`main.go:134-142`).
- `CloseConn` is the deferred `conn.Close`.
- A callback error, or one of the library's checks failing, writes 400 and ends Read (`EndRead`). SETUP has three such checks: a different path, a track set up twice, and a track not announced. RECORD has one: not every announced track set up.
- `ServerWriteFrame` delivers a frame only to a connection in Play (`TestServerReadTCPResponseBeforeFrames`).

### `RelayRegistry.tla`: what the registry promises

`RelayRegistry.tla` is the abstract specification. Its state is `owner`, `subs` and `open`. Its actions are:

- `Join`: a connection opens;
- `Claim`: an open connection takes the free publisher slot;
- `Subscribe`: an open non-owner subscribes;
- `Leave`: the session ends;
- `Release`: once a connection has left, what it held is freed. `Release` is weakly fair.

`ExampleServer` instantiates it with `owner <- publisher`, `subs <- readers` and `open <-` the connections whose handler is in `read` or `playReply`. It checks `Registry!Spec` as the property `RegistryRefinement`.

### `RtpAacEncoder.tla`: `rtpaac.Encoder`

The state is `sequenceNumber` and `initialTs`, the last two packets returned (`last`, `prev`), and the last call's outcome. `Init` allows any initial sequence number and timestamp, as `NewEncoder` draws them at random.

`Encode(len, ticks)` works as follows:

- It fails above `rtpPayloadMaxSize`.
- Otherwise it returns a packet with:
  - the current sequence number, which then increments modulo `2^SeqBits`;
  - the AU-header `uint16(len)<<3`, modulo 2^16;
  - the timestamp `initialTs + ToUint32(ticks)`, modulo `2^TsBits`.

`ToUint32` models Go's `uint32(float64)` for values that do not fit. The value depends on the build (the constant `Platform`): amd64 keeps the low 32 bits, and arm64 saturates.

The widths are the constants `SeqBits` and `TsBits`. They are 16 and 32 in the code. TLC's integers are 32-bit and the interesting states lie at the wrap, so the runs use 2 and 3 bits. `Encode` never reads a width except through the modulus, so the wrap behaves the same at every width.

### `RtpInfo.tla`: the RTP-Info header

A header string is a sequence of tokens: the separators `,` `;` `=` and words. On that representation:

- `strings.Split`, `SplitN(…, 2)` and `Join` are modelled by what they do.
- `strconv` parsing and formatting work on number words.
- `base.ParseURL` accepts a string that starts with a URL scheme word.

`ReadInto` follows `RTPInfo.Read` line by line:

- an error unless there is exactly one value;
- then per entry and per key: two parts, a known key, a value that parses;
- the last value of a key wins;
- it appends entries until the first error.

`Write` builds `url=…;seq=…;rtptime=…` joined by `,`, and panics when a URL is nil.

The model is one PLAY round:

1. A server writes an RTPInfo, or a foreign server sends any value.
2. The client reads it.
3. The client forwards it by writing it again.

## 3. Runs

All runs use `FairSpec` and the bounds `MaxFrames = 2`, `MaxReports = 2`, `MaxRequests = 6` and `MaxServerMsgs = 1`.

| Run | Instance | Checks | Result |
|---|---|---|---|
| `framing` | 1 writer, 2 tracks, UDP or TCP | `WellFramed`, `ReaderConfined`, `PauseTerminates`, `SessionRefinement` | pass, about 50k states |
| `udp` | 2 writers, 1 track, UDP | `NoSilentDrop`, `PeerHangupStopsPublishing` | pass, about 135k states |
| `tcp_two_writers` | 2 writers, TCP | `WellFramed` | violation (finding) |
| `tcp_silent_drop` | 1 writer, TCP | `NoSilentDrop` | violation (finding) |
| `udp_reply` | 1 writer, UDP | `ServerReplySurfaced` | violation (finding) |

What each property says:

- **`WellFramed`**: every interleaved header on the control stream is directly followed by its own payload. It guards the mutex discipline between `WriteFrame` and the ticker. The mutant that drops the ticker's `Lock` breaks it.
- **`ReaderConfined`**: the UDP response reader is alive only in `Record`, and never while Pause's `Do` reads the PAUSE reply. The mutant that returns from the terminate case without waiting on `readerDone` breaks it.
- **`PauseTerminates`**: `Pause` returns.
  - It needs the read deadline to unblock the reader.
  - It needs a pending `Lock` to wait only for writers that will finish.
  - The mutant that never moves the deadline breaks it.
- **`SessionRefinement`**: the connection implements `PublishSession`.
  - The state changes only along the transitions of spec §4.4.
  - Pause and Close leave Record only after the loop's deferred function has cleared `publishOpen`.
  - No frame reaches a socket outside Record or after `publishOpen` was cleared.

  The mutant whose deferred function clears `publishOpen` without taking the write lock breaks it: a writer already past the check sends after publishing stopped.
- **`NoSilentDrop`**: a `WriteFrame` that returns nil has handed its frame to a socket. The mutant that drops `c.publishError = err` breaks it.
- **`PeerHangupStopsPublishing`**: on UDP, a server hang-up ends publishing, because the reader sees EOF. The mutant that treats EOF as non-fatal breaks it.

Why the bounds are enough:

- Two frames per writer and two ticks make every ordering possible:
  - a report between the header and payload of a frame;
  - a `Lock` pending while a writer is inside `WriteFrame`;
  - a terminate racing a tick or a reader error.
- Six requests cover `Announce`, `Setup` ×2, `Record`, `Pause`, and a second round.
- One unsolicited server response is enough to show it being consumed or dropped.
- The violation traces are 6 to 12 steps long.

### Runs of the server, the encoder and RTP-Info

| Run | Instance | Checks | Result |
|---|---|---|---|
| `es_registry` | 2 connection slots, tracks {0,1}, 2 paths | `PublisherOwnsSession`, `ReadersLive`, `RecordingMatchesSdp`, `RegistryRefinement`, `FramesFromPublication` | pass, 171,784 states |
| `es_tracks` | 2 slots | `ForwardOnlySetupTracks` | violation (finding 4) |
| `enc_amd64` | `SeqBits = 2`, `TsBits = 3`, lengths {0, 1460, 1461, 8192}, ticks {0,1,7,9,17} | `AUSizeExact`, `SeqConsecutive`, `TimestampTracksTime` | pass, 7,104 states |
| `enc_arm64` | same, arm64 | `TimestampTracksTime` | violation (finding 5) |
| `rtpinfo_roundtrip` | up to 2 entries, seq {0, 65535}, rtptime {0, 2^20-1} at width 20, URLs with `=` in them, malformed foreign values | `RoundTrip` | pass, 229 states |
| `rtpinfo_nourl` | a foreign `seq=1;rtptime=0` | `ForwardNeverPanics` | violation (finding 6) |
| `rtpinfo_query` | a URL with `;` in its query | `RoundTrip` | violation (finding 7) |

What each property says:

- **`PublisherOwnsSession`** has two parts:
  - while `publisher` is set, its handler has not finished and its ServerConn is on the record side;
  - every connection reading on the record side is the publisher.

  Dropping onAnnounce's `publisher != nil` check breaks it.
- **`ReadersLive`**: every member of `readers` is a live play-side session. Without it, `onFrame` writes to closed connections. Forgetting `delete(readers, conn)` breaks it.
- **`RecordingMatchesSdp`**: a recording publisher has set up exactly the tracks of the sdp served to readers. Dropping ServerConn's completeness check breaks it.
- **`FramesFromPublication`** (action property): a step delivers frames to readers only of tracks of the sdp DESCRIBE serves at that moment. A clean-up that sets `sdp = nil` outside the `conn == publisher` branch breaks it: a reader's hang-up then empties the sdp of a publisher that goes on recording.
- **`RegistryRefinement`**: the registry behaves as `RelayRegistry`, including the liveness of `Release`: a connection that left does not keep the publisher slot or a subscription forever. No separate leads-to states that: the clean-up is enabled once Read has returned and is weakly fair, so such a property would only restate `main.go:138` under the fairness assumed.
- **`AUSizeExact`**, **`SeqConsecutive`** and **`TimestampTracksTime`**:
  - each packet's AU-size equals its unit's length;
  - consecutive packets have consecutive sequence numbers, across the wrap and across rejected units;
  - timestamp differences equal tick differences modulo 2^TsBits.

  Their mutants are: no size check; the sequence number taken before the size check; a saturating timestamp sum.
- **`RoundTrip`**: reading what `Write` produced gives back the same entries. Joining entries with `;` breaks it.

Why the bounds are enough:

- **Two connection slots.** These already give a publisher and a reader at once, or two announcers racing. The endless reuse of slots also gives a stale `readers` entry of a finished handler, a republish after the publisher left, and PAUSE/PLAY cycles.
- **Two tracks.** These make partial SETUP and tracks not set up possible.
- **The encoder's widths.** Widths of 2 and 3 bits wrap the counters within four packets. The tick values 9 and 17 exceed `2^TsBits`. The lengths 1461 and 8192 hit the size check and the `<<3` overflow.

### Findings

1. **TCP `Pause` leaves `publishError` nil** (`part_000:161-162`). `backgroundRecordTCP` returns from the terminate case without setting `publishError`. After `Pause`, a `WriteFrame` then sees `publishOpen = false` and returns `publishError`, which is nil, although it writes nothing. Spec §4.6 says it returns the stored error ("terminated"). UDP sets it at line 126.
2. **Two TCP writers can split a frame** (`part_000:187, 205-211`). `WriteFrame` takes only the read lock, so two writer goroutines may both be inside `frame.Write` on the same `c.bw`. Their header and payload writes interleave. Spec §5 calls concurrent `WriteFrame`s safe, but that holds for UDP only.
3. **Unsolicited responses are dropped** (`part_000:107-116`). The UDP reader discards every successfully read response. Spec §4.6 says it surfaces them as an error, for example a server-side TEARDOWN. Spec §9 lists this as an open question.

4. **Frames of any track go to every reader** (`main.go:118-119`). `onFrame` writes each frame the publisher sends to every reader, whatever tracks that reader set up. A reader that set up only track 1 is handed track 0. The spec does not say which tracks a reader receives. That `ServerConn` then writes the frame to the reader is an assumption about `serverconn.go`, which is not in the tree; only its "deliver only in Play" rule is backed by a test. The trace: the publisher records track 0; a reader sets up track 1 and plays; the reader gets track 0.
5. **On arm64 the RTP timestamp freezes** (`encoder.go:57`). `uint32(ts.Seconds()*e.clockRate)` of a value above 2^32-1 is implementation-defined in Go. arm64 saturates, so after 2^32 ticks every packet has the same timestamp. That is 13.2 h at 90 kHz, or 24.8 h at 48 kHz. amd64 wraps, as RFC 3550 expects.
6. **Forwarding an RTP-Info without url panics** (`encoder.go:187`). `Read` accepts an entry with no `url` key and leaves `URL` nil. `Write` then calls `e.URL.String()`.
7. **URLs are not quoted** (`encoder.go:187`). A URL whose query holds `;` or `,` is written as is. `Read` splits it at lines 126/129 and fails, so a header `Write` produced cannot be read back.

## 4. Fairness

Weak fairness applies to the library's goroutine steps: loop start, ticker writes, `BgWaitReader`, the deferred unpublish, the reader's reads, a writer's in-progress writes, and the continuation of `Pause` and `Close`. Go's scheduler runs every runnable goroutine. Each of these steps, once enabled, stays enabled until taken.

Strong fairness applies to the `select` cases `BgTerminateUDP`, `BgTerminateTCP` and `BgReaderDone`. The ticker case can pre-empt them repeatedly, and Go picks uniformly among ready cases.

The application (`Announce`, `Setup`, `Record`, `PauseStart`, `CloseStart`, new `WriteFrame` calls) and the server get no fairness.

The weak fairness of a writer's in-progress writes assumes that a socket write returns. The code bounds a TCP write with a write deadline (`part_000:205`), which the model does not have. So the half of the hazard at `part_000:151` where a writer blocked inside `WriteFrame` would hang Pause is assumed away, not checked.

In `ExampleServer`, only `Cleanup` and `CloseConn` are weakly fair. Once `Read` has returned, the handler goroutine is runnable. It waits only for `mutex`, which every holder releases after a bounded callback. Then it runs the clean-up and the deferred `Close`. Clients and the other callbacks get no fairness: a client need not send anything.

## 5. Proofs

### `ClientPublishProofs.tla`

- **`TypeCorrect`**: `Spec => []TypeOK`.
  - The proof has one lemma per action with an `IF`. Zenon extracts the branch's primed values, then SMT checks the types.
  - `TypeOKNext` covers every disjunct of `Next`.
  - It assumes only `ConstantsAssumption`: tracks a finite set of naturals, protocols in {udp, tcp}, the bounds natural numbers.
- **`ReaderConfinedHolds`**: `Spec => []ReaderConfined`, for any number of writers and tracks and any bounds.
  - `ReaderConfined` is not inductive on its own. A reader could be alive in a state from which `PauseReply` leaves Record.
  - The inductive invariant is `IInv == TypeOK /\ CtlInv`. `CtlInv` says three things:
    1. a live reader implies a UDP loop in `loop`, `tickLock` or `waitReader`;
    2. a started and unfinished loop implies `state = "record"`;
    3. Pause's `Do` runs only once the loop is `done`.
  - TLC checked `IInv` as an invariant (3.5 million states, two writers, both protocols) before the proof.
  - `CtlInvNext` shows that every action keeps `CtlInv`. The key cases are:
    - `Record` (the loop starts only from PreRecord, where conjunct 2 rules out a live loop);
    - `PauseDo` (needs `bgPc = "done"`);
    - `CloseStart` (leaves the state alone in Record).
- **`NoSilentDropUdp`**: `UdpOnly => (Spec => []NoSilentDrop)`, where `UdpOnly` is `Protocols = {"udp"}`. It holds for any number of writers and tracks and any bounds.
  - The hypothesis is the instance the property holds on: on TCP the terminate case stores no error, and the `tcp_silent_drop` run shows the violation (finding 1).
  - `NoSilentDrop` is not inductive. A writer could be idle with `publishOpen` false and `publishError` nil.
  - The inductive invariant is `TypeOK /\ SilentInv`. `SilentInv` adds three things:
    1. once Record has succeeded (the state is Record, or a writer has started), `publishOpen \/ publishError # "nil"`;
    2. the deferred unpublish (`bgPc = "deferLock"`) runs only with an error stored;
    3. the reader sends only a real error on `readerDone`.
  - `publishError` is never reset to nil, and `BgTerminateTCP` is excluded by `UdpOnly`. With these, the `nil` branch of WriteFrame's check is unreachable for a started writer.
  - TLC checked `SilentInv` first, as an invariant of the `udp` instance (135,496 states).

### `ClientPublishFraming.tla`

- **`WellFramedOneWriter`**: `OneWriter => (Spec => []WellFramed)`, where `OneWriter` says that all members of `Writers` are equal. It holds for every set of tracks and every bound.
  - With two writers WriteFrame's read lock lets both write at once, and `tcp_two_writers` shows the violation (finding 2). So the hypothesis states the case the code protects, not a weakening.
  - The inductive invariant `FrameInv` is `TypeOK`, `CtlInv` and five more conjuncts:
    - `PublishLive`: `publishOpen` implies Record with an unfinished loop;
    - `HoldersLive`: a read-lock holder implies the same;
    - `Framed(tcpStream)`;
    - `DanglingOwned`: a header at the end of the stream belongs to a writer about to write its payload, or the connection no longer accepts writes;
    - `PayPending`: a writer between header and payload finds its header last.
  - Why `Framed` alone is not inductive: a request or a report tick must not find a half-written frame at the end of the stream. The writers of requests and reports (Announce, Setup, Record, the ticker, Pause) run only with no read-lock holder, and `HoldersLive` turns that into "no writer in the payload write".
  - A payload write that fails leaves its header dangling. `Writable` never becomes true again, so nothing is appended after it.
  - The stream lemmas are `FramedAppend` and `FramedReports`. The first covers one chunk appended. The second covers a tick's `ReportFrames(n)`, by the parity of the positions.
  - `LiveNext` and `HoldersGrow` prove `PublishLive` and `HoldersLive` for any number of writers. `OneWriter` is used only in the header and payload steps (`StreamHeader`, `StreamPayload`).
  - TLC checked `FrameInv` first, as an invariant of the framing instance (49,710 states).

### `ClientPublishSession.tla`

- **`SessionRefinementHolds`**: `Spec => SessionRefinement`, for every number of writers and tracks, both protocols and every bound.
  - The refinement mapping is `publishing <- publishOpen`.
  - Each step maps as follows:
    - `Announce` and `Record` on 200 → `Announce` and `Record`;
    - `BgDeferUnpublish` → `Stop`, or a stutter if `publishOpen` was already clear;
    - a frame written by `WriteFrameUDP` or `WriteFrameTCPPayload` → `Send(w)`;
    - `PauseReply` on 200 → `Pause`;
    - `CloseStart` outside Record, and `CloseFinish` → `Close`;
    - every other step → a stutter.
  - The inductive invariant is `SessInv`. It is `TypeOK`, `CtlInv`, `PublishLive` and `HoldersLive`, plus two new conjuncts:
    - `HoldersOpen`: a read-lock holder implies `publishOpen`. WriteFrame's check adds a holder only when `publishOpen` is set. The deferred function clears it only with no holder left.
    - `FgRecord`: while Pause or Close waits, the state is Record.
  - `Send` needs `HoldersOpen` and `HoldersLive`: the writing goroutine holds the read lock.
  - `Pause` and `Close` need `PublishLive` and `FgRecord`. Their foreground step runs once the loop is `done`, so `publishOpen` is clear and the state is still Record.
  - TLC checked `SessInv` and the refinement first, on two writers and both protocols (3.5 million states).

### `ExampleServerProofs.tla`

These proofs hold for every set of connections, tracks and paths. They assume only `ServerAssumption`: `NoConn` and `NoPath` are not real values, and track 0 exists.

- **The inductive invariant.** `IInv` is `TypeOK` and the three checked invariants, plus two more:
  - `RecordComplete`: a connection in Record has set up exactly what it announced;
  - `SdpOfPublisher`: `sdp` is what the publisher announced.

  `RecordingMatchesSdp` is not inductive on its own. A recording connection must be known to be the publisher, and its `sdp` known to be its announcement.
- **`IInvNext`.** One lemma per action (`AcceptInv` … `CloseConnInv`). `AllowedValues` evaluates the method table.
- **`IInvHolds`.** From `IInvHolds` follow `PublisherOwnsSessionHolds`, `ReadersLiveHolds` and `RecordingMatchesSdpHolds`.
- **`RegistrySafeRefinement`**: `Spec => Registry!SafeSpec`. Each step maps to a RelayRegistry step:
  - `Accept` → `Join`;
  - a successful `OnAnnounce` → `Claim`;
  - `OnPlay` → `Subscribe`. This relies on `PublisherOwnsSession`: a play-side connection is not the publisher.
  - every error reply, `WrongState` and `ReadEnds` → `Leave`;
  - `Cleanup` → `Release`, or a stutter when the connection held nothing;
  - every other action → a stutter.

  The liveness half (`WF` of `Release`) is checked by TLC only.
- **`FramesFromPublicationHolds`**: `Spec => FramesFromPublication`, the action property, from `IInv`.
  - Only `Accept` (which empties `written[c]`) and `OnFrame` change `written`.
  - `OnFrame` forwards a track the publisher set up. In Record its set-up tracks are its announced ones (`RecordComplete`), and those are `sdp` (`SdpOfPublisher`).

### `RtpAacEncoderProofs.tla`

- **`AUSizeExactHolds` and `SeqConsecutiveHolds`** hold for every width and every set of lengths and ticks.
  - `SeqInv` keeps `sequenceNumber = last.seq + 1`. With that, `SeqConsecutive` needs no arithmetic on the modulus.
  - `AUInv` keeps `last.len <= 1460`. For such lengths, `AUHeaderRoundTrip` shows that `(len*8 mod 2^16) div 8 = len`.
- **`TimestampTracksTimeHolds`** is stated for the code's `TsBits = 32` on amd64.
  - `TsInv` keeps every packet's timestamp equal to `(initialTs + ticks) mod 2^32`.
  - The provers reason about `mod` with a constant modulus. With a symbolic `2^TsBits` they cannot prove `(a+x) mod M - (a+y) mod M ≡ x-y`.
  - TLC checks the small widths. The arm64 case is false (finding 5).

### What stays with TLC

- **Liveness.** `PauseTerminates`, `PeerHangupStopsPublishing`, and the fairness half of `RegistryRefinement`. TLAPS does not handle fairness and `ENABLED`.
- **`RoundTrip`**. `RtpInfo` uses `SequencesExt`'s folds over string tokens. A proof would need induction over sequences.
- **`WellFramed` with two writers, and `NoSilentDrop` on TCP.** Both are false there, and the violation runs show it. The theorems cover the instances on which they hold.

## 6. Not modelled

- **The rest of `ServerConn`.** This covers transports, UDP listeners, keep-alive, timeouts and response headers. `serverconn.go` is not in the tree. Only the states and checks the example server depends on are modelled, from spec §4.5 and the tests.
- **The example's blocking writes.** `onFrame` holds the global mutex while it writes to every reader (`main.go:117`). A reader whose TCP buffer is full would stall every callback. The model treats `WriteFrame` as non-blocking, because the transport buffers are in `serverconn.go`.
- **`RTPInfo.Clone`.** It changes no state. The SSRC and payload type are passed through unchanged and are left out.
- **`NALUType.String`.** It is pure formatting with no state.
- **The wire codec and the RTCP helper.** They are not in the tree. They are abstracted to chunks and to "a report may or may not be produced".
- **The client play side.** It is not in the tree.
