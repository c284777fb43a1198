# n6bagent in TLA+

n6bagent is an HTTP proxy reached over a websocket.  `server.go` accepts a
websocket, runs the server side of a yamux session on it, and serves HTTP proxy
requests (goproxy) on the streams of that session:

    client == websocket == yamux.Session == stream == http.Serve == goproxy == the web

This directory models that program in TLA+, checks the models with TLC and
proves theorems about them with TLAPS.  Paths below are relative to
`src/Godeps/_workspace/src/`; `yamux/` is `github.com/hashicorp/yamux/`,
`websocket/` is `code.google.com/p/go.net/websocket/` and `goproxy/` is
`github.com/elazarl/goproxy/`.

## 1. Inventory

| Component | State | Operations | Works with | What is hard | What makes it correct |
|---|---|---|---|---|---|
| yamux stream (`yamux/stream.go`) | `state`, `sendWindow`, `recvWindow`, `recvBuf`, two notify channels, four locks | `Read`, `Write`, `Close`, deadlines, `forceClose`; `processFlags`, `incrSendWindow`, `readData` run by recv | the session's `waitForSendErr`, `closeStream` | every user is a goroutine of its own; windows are counted on both ends at different times; closes of both ends overlap | bytes arrive once and in order; the windows of both ends agree; no lost wakeup; the half-close arrives once |
| yamux session (`yamux/session.go`) | `streams`, `acceptCh`, `sendCh`, `shutdown`, `shutdownErr`, `shutdownCh`, the two go-away flags, the next id, the pings | `OpenStream`, `AcceptStream`, `GoAway`, `Ping`, `Close`; goroutines `recv`, `send`, `keepalive` | the connection; every stream | three kinds of lock, a queue that both blocks and is waited on, three ways to end | an end reaches every stream and every waiting caller; the first error is kept; nobody deadlocks |
| websocket connection (`websocket/websocket.go`, `hybi.go`) | the frame being read, a read lock, a write lock | `Read`, `Write`, `Close`; `HandleFrame`, `WritePong`, `WriteClose` | yamux uses it as its connection | a reader that answers pings writes; `Close` writes a frame first | fragments read as one byte stream; frames are written whole; `Close` closes |
| websocket handshake (`websocket/server.go`, `client.go`, `hybi.go`) | none | one request and response | `net/http` | the server refuses for reasons it finds at different moments | both ends agree whether there is a websocket |
| agent (`src/server.go`) | one session per websocket | `websocketCallback` | all of the above | who closes what when `Serve` returns | no session or connection is left behind |
| goproxy dispatch (`goproxy/proxy.go`, `dispatcher.go`, `actions.go`, `ctx.go`) | the handler lists, a session counter | `ServeHTTP`, `filterRequest`, `filterResponse` | handlers, the transport | what a handler returns replaces what the next one sees | each handler's result counts; each response passes the handlers once |
| goproxy CONNECT (`goproxy/https.go`, `chunked.go`) | the hijacked connection and the one to the target | `handleHttps`, `copyAndClose` | hijacked stream, dialer, certificates | two goroutines per tunnel, many error paths | both connections are closed in the end |
| goproxy transport (`goproxy/transport/transport.go`) | the pool of idle connections; per connection `numExpectedResponses`, `broken`, `reqch` | `RoundTrip`, `getConn`, `getIdleConn`, `putIdleConn`, `readLoop`, the end-of-body callback | the network | a goroutine per connection races the pool | a response goes to its request; a connection has one user; a caller is answered |
| regretable reader (`goproxy/regretable/`) | a buffer, two indices, an overflow flag | `Read`, `Regret`, `Forget` | a reader under it | indices that part at the buffer's end | after `Regret` the same bytes come again |
| certificates (`signer.go`, `counterecryptor.go`, `certs.go`), canned responses, `ext/`, `examples/` | none | pure functions | | cryptography, wording | not a matter of states |

`PROJECT.json` lists the hazards of this code line by line, with the properties
that stand guard over each.

## 2. Plan

Done:

1. `YamuxStream`: one stream, both ends, with its abstract promise `ByteStream`;
   `YamuxStreamProofs`: flow control for every window size; `YamuxStreamPipeProofs`: the
   handshake, the bytes, the wakeups, and that both directions implement `ByteStream`.
2. `YamuxSession`: the goroutines and locks of one end and its shutdown;
   `YamuxSessionProofs`: how a session ends, what a reply means and where a session may stop, for
   every number of streams.
3. `WebSocket`: the handshake, the connection, and the agent on it (the session's use of its
   connection and the handler around it); `WebSocketProofs`: the handshake, both directions, pongs,
   and where the agent may stop.
4. `Transport`: the connection pool against readLoop and the callers; `TransportProofs`: a
   connection has one user, an answer goes to its request, and who may be left waiting.
5. `Proxy`: a client connection in each of its modes: the handler chains, the tunnels, the men
   in the middle; `ProxyProofs`: what a tunnel keeps and what it loses, requests and answers keep
   their order, and what the proxy owes nobody where it stops.
6. `RegretableReader`, with its abstract promise `ReplayReader`, and `RegretableReaderProofs`.
7. `YamuxLink`: both sessions of a connection with finite queues: stream ids (parity,
   compare-and-swap, exhaustion), refusals, the go-away, pings and keepalive, and the two recv
   goroutines that wait for each other; `YamuxLinkProofs`: what a go-away stops, the one fate
   of every stream id and every ping, and that those two goroutines are the only ones stuck.

Left:

8. Proofs: `WindowErrorOnlyInGap` joined with the pipes, so that the one way a correct session
   breaks is named in the refinement.

Each state machine keeps its bounds in CONSTANTS, has one action per operation or
blocking point and no RECURSIVE operator, so that it can be proved about.

## 3. Modules

### Streams

**`YamuxStream`** is one stream seen from both ends, `opener` and `acceptor`.  For each end
the variables are the fields of `Stream` (`state`, `sendWindow`, `recvWindow`, `recvBuf`, the
two notify channels) and what of the session touches it (`registered`, `queued`,
`shutdownErr`).  `ctl` is `controlHdrLock` with the header it protects.  `pc` holds where the
tasks are: `setup` (OpenStream or AcceptStream), the readers, one writer (`sendLock`) and the
closer.  The actions are the stretches between two points where a task can wait or be
overtaken:

| Code | Actions |
|---|---|
| `OpenStream`, `AcceptStream` | `OpenCheck`, `OpenRegister`, `AcceptStream`, `AcceptShutdown` |
| `sendWindowUpdate`, `sendClose`, `waitForSendErr` | `LoadUpdate`, `LoadClose`, `SendControl`, `ControlSent`, `ControlFailed` |
| `Read` | `ReadCall`, `ReadCheck`, `ReadTake`, `ReadWake`, `ReadTimeout` |
| `Write`, `write` | `WriteCall`, `WriteCheck`, `WriteSend`, `WriteSent`, `WriteFailed`, `WriteWake`, `WriteTimeout` |
| `Stream.Close` | `CloseCall` |
| `Session.Close`, `exitErr` | `SessionClose`, `RecvEOF`, `SendFail`, `RecvRefuse` through `Shutdown` |
| `recv`, `handleStreamMessage`, `incomingStream`, `incrSendWindow`, `readData`, `processFlags` | `RecvSYN`, `RecvReject`, `RecvMissing`, `RecvWindow`, `RecvData`, `RecvRefuse`, `RecvShort` |

`wire[e]` is one FIFO for `sendCh`, the send goroutine and the connection; that a frame has
been *written*, which its sender waits for, is a separate step that may come before or after
the peer handles it.  A payload byte is its position in the stream, so loss, repetition and
reordering show.  `sent`, `rcvd`, `granted`, `credit` and the field `from` of a frame are
history that no guard of the code reads.  `Shutdown` is one step here; its parts
are `YamuxSession`'s subject.  When a connection breaks, each end's frames may be cut
anywhere, and inside a data frame (`RecvShort`).

**`ByteStream`** is what one direction of a stream promises: a pipe whose reader gets a
prefix of what was written, and hears of the end after the last byte or because the pipe
broke.  **`YamuxStreamPipe`** gives the refinement mapping in both directions.

### Sessions

**`YamuxSession`** is one end: the goroutines `recv` and `send`, a user that closes the
session, and users that open a stream, accept one, announce a go-away, and close, write and
read an existing stream.  A region under a lock is one step when it cannot block inside; `Close`
(`shutdownLock`, then `streamLock`, then each `stateLock`), `Stream.Close` and `processFlags`
(a `stateLock`, then `streamLock`), `incomingStream` (`streamLock` during `sendNoWait`) and
`sendClose` and `sendWindowUpdate` (`controlHdrLock` during `waitForSendErr`) take and release
theirs in separate steps; `lock` and `controlHdrLock` hold who has which.  What others read
without a lock, they may read between any two steps: `Close` sets `shutdownErr` in one and closes
`shutdownCh` in the next.  The peer is whatever may arrive on the connection, faults included.
The states `Init` to `Established`, which an end of the session treats alike, are `Open`; windows
never run out here.  `Roles` holds groups of users, of which one is there: who shares a lock or a
channel is what makes a group worth having.

| Code | Actions |
|---|---|
| `Session.Close`, `exitErr`, `forceClose` | `CloseCall`, `ExitErr`, `CloseBegin`, `CloseNotify`, `HangUp`, `CloseLock`, `ForceClose`, `CloseEnd` |
| `waitForSendErr`, `send`, `asyncSendErr` | `Enqueue`, `Await`, `GiveUp`; `SendTake`, `SendWrite`, `SendError`, `SendStop` with `Reply` |
| `OpenStream`, `AcceptStream`, `GoAway` | `OpenStream`, `OpenRegister`, `AcceptStream`, `AcceptShutdown`, `GoAway` |
| `Stream.Close`, `Read` and `write` as the session sees them | `StreamClose`, `StreamUnregister`, `StreamRead`, `StreamWrite`; `Control` is the lock of `sendClose` and `sendWindowUpdate` |
| `recv` and its handlers | `RecvFrame`, `RecvGoAway`, `RecvError`, `RecvLookup`, `RecvFlags`, `RecvUnregister`, `RecvIncoming` |
| `sendNoWait` | `SendNoWait`, `NoWaitShutdown` |

`Chan` says who shares a reply channel: the Writes of a stream its `sendErr`, the window updates
of its reader and its Close its `controlErr`, as `newStream` makes them.  `late` is history: the
frames whose callers returned before the reply to them was there.

**`YamuxLink`** is both ends, `client` and `server`, while both are up: `streams`, `acceptCh`,
the next id, the go-away flags, the pings and `sendCh` of each, and the frames between
(`wire`).  A task is a goroutine, written as its end and a name, and may make several kinds of
call; `req` is the frame its present call sends.

| Code | Actions |
|---|---|
| `OpenStream` | `OpenCheck`, `OpenLoad`, `OpenSwap`, `OpenRegister` |
| `AcceptStream`, `GoAway` | `AcceptStream`, `GoAway` |
| `Ping`, `keepalive` | `Ping`, `PingReturns` |
| `waitForSendErr`, `send` | `Enqueue`, `SendTake`, `SendDone` |
| `recv`, `handleStreamMessage`, `incomingStream`, `processFlags`, `handlePing`, `handleGoAway` | `RecvSyn`, `RecvAck`, `RecvRst`, `RecvPing`, `RecvPong`, `RecvGoAway` |
| `sendNoWait` | `SendNoWait` |

A frame is what it says, an id and the task that sent it.  `late` and `resets` are history:
the streams registered after the peer's go-away, and those the peer refused.  `streamLock` is
in the state because a refusal holds it while it waits for room.  Streams carry nothing and are
never closed here.

### The websocket and the agent on it

**`WebSocket`** follows one connection from the dial to its release.  Its tasks are the
goroutines of the agent: `recv` reads, `send` writes, and `serve` is the handler
`websocketCallback` inside `serveWebSocket`, which waits for `http.Serve` to end.  After the
handshake the peer is whatever may arrive.

| Code | Actions |
|---|---|
| `DialConfig`, `hybiClientHandshake` | `SendRequest`, `Dialed` with `ClientHandshake` |
| `newServerConn`, `ReadHandshake`, `Origin`, `checkOrigin`, `AcceptHandshake`, `serveWebSocket` | `ServeWebSocket` with `NewServerConn`, `ReadHandshake`, `OriginRefused`, `ManyProtocols`; its deferred `rwc.Close` is `Return` |
| `Conn.Read`, `hybiFrameReader.Read`, `HandleFrame` | `ReadFrame` with `HandleFrame`, `ReadPayload`, `ReadFails` |
| `Conn.Write`, `WritePong`, `WriteClose`, `hybiFrameWriter.Write` | `StartFrame` (takes `wio`), `WritePart`, `WriteFails`, `EndFrame` (releases it) with `After` for where each caller goes on |
| `Session.Close` on this connection, `Conn.Close` | `SessionClose`, the close frame as any frame, `HangUp`, `SessionClosed` |
| `Session.send`, `http.Serve` and the defers of `websocketCallback` | `SendData`, `SendStops`, `ServeEnds` |

The connection under the websocket takes `Window` parts while the peer reads none, which is
what makes a writer block.  A frame of `Write` is one part or two, as it does or does not fit
the `bufio.Writer`; a failed writer keeps its error (`failed`).

### The proxy

**`Proxy`** is one client connection of goproxy, whatever becomes of it: plain requests, or
after a CONNECT each of the five `ConnectActionLiteral`s.

| Code | Actions |
|---|---|
| `handleHttps`, `connectDial`, `NewConnectDialToProxy`, `httpError` | `Start` with `ConnectAction`, `Dial`, `DialUpstream`, `Tunnel`, `MitmHandshake`, `CloseClient` |
| `copyAndClose` | `CopyRead`, `CopyWrite`, `CopyEnds`, `CopyClose` |
| `ServeHTTP`, the loops of `ConnectHTTPMitm` and `ConnectMitm` | `ReadRequest`, `LastRequest`, `RoundTrip`, `RoundTripFails`, `Filter`, `WriteResponse`; `Ahead` is what the reader holds |
| `filterRequest`, `filterResponse`, `ReqProxyConds.Do`, `ProxyConds.Do` | `FilterRequest` with `HandleReq`, `Answerers` and `LastHandler`, `FilterResponse` with `Heard`, `CtxReq` |
| the client and the target | `SideSends`, `SideReads`, `SideEnds` |

A handler is a record: the kinds of request its conditions let through, and what it does with
them; the chains are constants.  Bytes that the proxy reads ahead of what it needs may be dropped with
the reader that holds them.  `DropReader` does that twice: `Hijack` returns the reader of `net/http`,
and `handleHttps` drops it with what the client sent behind its CONNECT (`https.go:72`), for it
need not wait for the answer; `NewConnectDialToProxy` drops the one that read the upstream proxy's
answer.  `lost` counts what went with them.  A TLS handshake that misses its first bytes fails.  The loops over the handlers are written by what they find (the
first that answers, the last that has an opinion, those whose conditions hold), which the
proofs can use.  An item a side sends is its number and its kind.

**`Transport`** is `goproxy/transport/transport.go`: a task per caller of `RoundTrip`, who also
reads the body, a `readLoop` per connection, and the pool between them.

| Code | Actions |
|---|---|
| `getIdleConn`, `putIdleConn`, `CloseIdleConnections`, `closeLocked` | `GetIdleConn` with `Newest`, `PutIdle` with `Kept`, `CloseIdleConnections`, `CloseConn` |
| `getConn` | `Dial`, `DialFails`, `SetupFails` |
| `persistConn.roundTrip` | `Count`, `Write`, `WriteFails`, `Enqueue`, `Receive` |
| `bodyEOFSignal` and its callback | `BodyEOF`, `BodyClose`, `Put`, `Notify`, `Clear` |
| `readLoop`, `ReadResponse` | `Peek`, `CheckExpected`, `TakeRequest`, `CloseLastBody`, `ReadResponse`, `ReadFails`, `Deliver` |
| the server | `Respond`, `HangUp`, `RespondUnasked` |

A request dials at most one connection, which goes by the request's name.  What a request says
to its server is its name, so an answer that goes astray shows.

**`RegretableReader`** is the buffer of `goproxy/regretable`: `ReadThrough`, `ReadReplayed` and
`ReadBuffered` are the three cases of `Read`; `Regret`, `Forget` and `Close` are themselves.  The
two panics are guards.  A byte is its place in the source.  **`ReplayReader`** is the promise: a
source with a position and a mark, to which `Regret` goes back.

**`MC...`** modules hold the functions, requests, frames and handler chains the configurations
need.  Operators whose comment calls them mutants are slips of the code kept beside the
definition they would spoil, and each property is known to fail with one; no specification
uses them, but for `LastHandler`, which is the mutant of the `FilterRequest` that it is part of.

The models meet at the interfaces the code has.  `WebSocket` is the connection that
`YamuxSession` calls: its `SessionClose` is the session's `Close` seen from below, and its `Full`
is the session's write that takes for ever.  `YamuxSession` is the `Shutdown` of `YamuxStream`,
and `YamuxLink` what comes before it: there a stream gets its id and a place at both ends.
`Proxy` reads its client from a stream as `ByteStream` promises it (in order, with an end).  Its
`RoundTrip` goes through `net/http`'s Transport (`proxy.go:25`), so it is any answer or a failure;
`goproxy/transport` is a package of its own, which a handler may set as a context's `RoundTripper`
(`examples/httpdump`).

## 4. Runs

| Run | Question | Bounds |
|---|---|---|
| `StreamDuplex` | Do the books of flow control balance on both ends, with both writing, reading and closing? Is every half-close in one place, every flag expected, the acceptor's direction a pipe? | initial window 1, maximum 2, 2 bytes one way and 1 the other |
| `StreamReliable` | Do two readers that share a stream get each byte once and in order, the end only at the end, and every wakeup, when the stream may be refused, a deadline may fire, or a session may break? Is the opener's direction a pipe? | window 1, 2 bytes, 2 readers |
| `StreamProgress` | Do writes end, bytes arrive, closed streams go and blocked readers return? | window 1, maximum 2, 3 bytes, fair |
| `SessionShutdown` | Does a session that ends from anywhere end everywhere? Where may it stop? What does a nil of `waitForSendErr` say when calls share a channel? | one open and one new stream, one frame of any kind but SYN, a queue of 1; besides the user that ends it, one that opens and one that closes, or one that closes and one that reads or writes twice |
| `SessionProgress` | The same against incoming streams: is the error there in time, and does everyone return? | two incoming streams, backlog 1, queue 1, two frames, fair |
| `Link` | Has every stream id and every ping one fate, does a go-away stop what it must, and can two sessions stop with a call waiting? | ids up to 7 (three for the client, the limit reached), a queue of 1, a connection that holds no frame, a backlog of 1; two goroutines at each end, one of which opens or pings and one of which accepts or leaves; one ping from each end |
| `WebSocket` | Do both ends agree on the handshake, do frames stay whole and in order with pings among them, is the connection released, and where may the agent stop? | a good request and one for each way to be refused; frames of every kind, empty and unmasked ones too; two from the peer, two writes, a connection that takes 1 part; fair |
| `Transport` | Has a connection one user, does each caller get its own answer, and one at all? Who may be left waiting? | two requests to one https host behind a proxy, a pool of 1; bodies none, whole or cut; a server that may hang up or answer unasked, a user that may close idle connections; fair |
| `Proxy` | Are answers in order and requests sent once in every mode, does a tunnel lose nothing once it has begun, and is it released? What is owed where the proxy stops? | six CONNECT chains, three request handlers and two response handlers, an upstream proxy, three items from each side, a side that takes 1; fair |
| `RegretReplay` | Do the same bytes come again after a Regret, if the user does not Forget behind itself? Does the buffer overflow exactly when it must? | a buffer of 3, a source of 7, reads of up to 3 |
| `SessionLockOrder`, `TransportCallback` | Two things the documents say and the code does not do (section 6) | a small instance that shows it |

Why the bounds are enough: a window of one or two bytes and two or three bytes to write make
the writer block, the update race the data and a frame be split; more bytes repeat that
cycle, and the proofs cover every size.  Two readers are what sharing a notify channel takes.
A queue of one is full as soon as two goroutines send, as 64 is when 65 do.  One frame is
enough to hold any handler in any place while the session ends; two incoming streams fill the
backlog and collide.  Two goroutines that open race for an id, take all there are and fill
the backlog; with an accepter that leaves and a ping from each end they bring both recv
goroutines to `sendNoWait` at once (`Crossed` is reached), which a longer queue or a connection
that holds frames only takes more of the same for.  On the websocket three
goroutines write, one part fills the connection, and the second of two frames is what the first leaves the reader to meet.  Two callers are what
a pooled connection takes to be handed over, meet a full pool and break in between; an https
host behind a proxy takes every branch of `getConn`.  A tunnel item in a copier's hand, one in
the side's connection and one unsent are three.  Seven bytes fill a buffer of three, overflow
it, and do so again after a Forget.

Deadlock checking is off in every configuration: users may stop calling, and then nothing
happens.  Where a component may stop is a property of its own instead, of the same shape in five
modules: *something can move, or nobody waits for anything the code owes, or this one thing has
happened* (`StopsReleased`, `StopsReturned`, `StopsClosed`, `StopsAnswered`, `StopsSettled`).  They
are the safe halves of the liveness properties, and unlike those they can be proved.  "Can
move" is written by the guards of the actions that fairness speaks of (in `YamuxLink`, that go on
with what has begun), because the prover does not treat `ENABLED`; TLC found the two equal in
every state of these instances.  That a step taken leads anywhere is what the liveness properties
add.  `YamuxLink` has none of those and needs no fairness: every behaviour of it is finite.

Fairness.  Everywhere: a goroutine that can go on does, because Go schedules every runnable
goroutine; nothing makes a user begin, a peer send or read.  In particular:

- `YamuxStream!Fairness`: calls already begun go on, and an application reads what it
  accepted; nothing makes a user write, close or end a session, and no deadline need fire.
- `YamuxSession!Fairness`: the peer need not send, not even an invalid header, and a write to an
  open connection may take for ever, so a full queue may stay full.
- `WebSocket!Fairness`: the peer need not read, so a Write may block for ever; recv gives up on
  a closed connection, and otherwise when it likes.
- `Proxy!FairSpec`: the handler is one sequential goroutine and so has one condition; sides
  need not send, read or end.
- `Transport!Fairness`: a server answers a request or hangs up, and need not end a quiet
  connection; a caller need not begin, nor read its body.

What the properties say, of streams:

- `FlowAccounts`: the sender's window is the credit it received less what it sent, the
  receiver's the credit it granted less what it received, each corrected by the step under way,
  and the frames between are disjoint and in order.  Its consequences for the check in `readData`
  (`WindowCoversFlight`) and for `uint32` (`NoWindowWrap`) are proved and not run.
- `NoFlagError`, `HalfCloseOnce`: two correct
  ends never refuse each other's flags, and a FIN is to be sent, under way or known, never lost
  or doubled.
- `WindowErrorOnlyInGap`: the one way two correct ends come to `ErrRecvWindowExceeded`.
- `ReadsArePrefix`, `EOFIsComplete`, `NoLostWakeup`, `ImplementsRequestPipe`,
  `ImplementsResponsePipe`: what a user may rely on, also when a session breaks.  The pipes are
  stated for users that do not close a stream they are writing to.
- `WritesEnd`, `AllDelivered`, `ClosedStreamsReleased`, `BlockedReadsReturn`: progress.

Of sessions:

- `SweepComplete`: after a session's end no stream that a user was given is open.  The race of
  `OpenStream` with `Close`, and `recv` handling frames already buffered, do leave open streams in
  the table; no user is given one *without an error*, and that is what holds.
  `SessionShutdown` has no SYN; streams that arrive during the sweep are the proof's part.
- `ErrorBeforeShutdown`: whoever sees `shutdownCh` closed, as AcceptStream does without a lock, finds
  the error there.  `ShutdownReleases`, `CloseReturns`: nobody waits past the end of a session.  The
  last holds where the peer sends no FIN or RST; with one, `SessionLockOrder` refutes it.
- `NilIsAReply`: a nil of `waitForSendErr` is the reply to a frame that was written.  It is the
  caller's own as long as the session is up; after a shutdown it may be that of an earlier call on
  the same channel, which gave up and left it there.  `controlHdrLock` and `sendLock` are what
  keeps two calls that go on at once from taking each other's.  That it is always the caller's own,
  `NilMeansWritten`, does not hold (section 6).
- `StopsReleased`: where a session can go no further, every call has returned, and with the session
  shut down `recv` and `send` have ended too.  The exceptions are a write that the peer does not
  take, while the session is up (`Close` would end it), and Close's deadlock over a `stateLock`
  (`LockCycle`, section 6), whatever else is stuck behind these.  A call that waits for a lock
  before its first step counts as not begun.

Of two sessions:

- `OneFate`: every id that `OpenStream` took is in one place, from the opener that has yet to
  announce it to the stream the peer knows or the refusal the opener has read: none is taken twice,
  lost, or known to one end only for good; neither end ever sees a SYN for a stream it has, so that
  branch of `incomingStream` never runs between two correct ends.  Likewise each ping, its answer and
  the caller that waits for it.
- `LateRefused`: `OpenStream` looks for a go-away before it takes an id and not again; a stream that
  slips through is refused.
- `StopsReturned`: where no call and no frame can go on, every call has returned, a Ping with its
  answer, or the two ends wait for each other in `sendNoWait` (`Crossed`).

Of the websocket:

- `BothAgree`: the handler runs on a connection exactly if the client that dialed it made a
  connection of the answer, though the server refuses for reasons it finds at different moments.
- `FramesWhole`: `send`'s data, `recv`'s pongs and the close frame never get into one another.
- `ReadsInOrder`, `PongFirst`: what `Read` returns is what was sent, whatever control frames come
  between, and nothing sent after a ping is read before its pong is on the wire.
- `ConnReleased`: a session that ended, or a refused handshake, closes the connection, unless a
  Write is blocked for ever: the close frame waits behind it.  `PongWaitsForWriter`: that is
  also the only thing a reader waits for with a pong.
- `StopsClosed`: reader, writer, handler and whoever closes the session never come to wait for each
  other.  Where the agent can go no further it is the peer's turn, or the connection is closed and
  every goroutine has returned, or a Write is blocked by a peer that does not read.

Of goproxy:

- `AnswersInOrder`: in every mode with requests, answers come in their order and none is
  missing but for requests lost behind their CONNECT, whoever makes them; behind ConnectHTTPMitm for
  a client that does not pipeline (section 6).
- `ForwardedOnce`: a request is sent on at most once and never when a handler answered it.
- `TunnelInOrder`: what a tunnel gives a side is what the other sent, contiguous and in order, behind
  the bytes that were dropped with a reader before the tunnel began; nothing is lost later.  That
  nothing is dropped, `AllBytesForwarded`, does not hold (section 6).
- `TunnelReleased`: once a side ends both connections are closed unless one copier is stuck on a
  side that does not read.
- `OneUser`: a connection is in the pool once or has one user; nobody writes on a connection
  whose response is being read.  `AnswerIsMine`: a caller gets its own response.  A server that
  answers unasked can spoil it, and the code accepts that.
- `AnsweredUnlessLoopEnded`: a caller waits for ever only for a readLoop that has ended (it
  closes an idle connection another goroutine has just taken, section 6) or waits for itself.
  `StopsAnswered` says the same of states: where nothing can go on, no caller waits for an
  answer, or in the callback of its body for `readLoop`, but for such a readLoop.
- `StopsSettled`: where the proxy can go no further it owes nobody anything.  A tunnel one side of
  which has ended is closed on both, or a copier waits for a side that does not read; a handler
  that waits for a request has answered all before it, except those lost with the reader of Hijack
  or those of ConnectHTTPMitm, and one that waits to write waits for its client to read.
- `OverflowExact`: the reader refuses `Regret` and `Forget` exactly when bytes since the mark did not
  fit, for any user.  `ImplementsReplay`: it replays the source from the mark, for a user that
  does not call `Forget` with replayed bytes left to read; for others it does not (section 6).

`NoWindowError`, `BufferWithinWindow` and `NoDataAfterFin` of `YamuxStream`, `CloseSendsGoAway` and
`NilMeansWritten` of `YamuxSession` and `AllBytesForwarded` of `Proxy` state what documents promise
and the code does not keep.  TLC refutes each on an instance of the size of those here; no
configuration checks them.

## 5. Proofs

Everything here is proved for every value of the constants that the named assumptions allow.
TLC checked each inductive invariant on small instances first.  `TypeOK`, `OpenedFirst`,
`WindowCoversFlight`, `NoWindowWrap`, `FirstErrorWins` and `NoSilentDeath` are
parts of those invariants or follow from them, and no run repeats them.

**`YamuxStreamProofs`**: for every `Window`, `MaxWindow`, set of readers, number of
bytes, and choice of deadlines, closes, refusals and sessions that end:
`AccountsHold` (`Spec => []FlowAccounts`), `TypesHold` (`TypeOK`), `OpensFirst`
(`OpenedFirst`), `WindowCovers` (`WindowCoversFlight`), `NoWrap` (`NoWindowWrap`) and `OnlyInGap`
(`Spec => WindowErrorOnlyInGap`).  Assumptions: a maximum window no smaller than the initial
one, which is what `VerifyConfig` enforces (`WindowAssumption`); naturals and Booleans where the
model's user is described (`UserAssumption`); readers are not called by the names of other
tasks (`ReaderAssumption`).

The inductive invariant is `FlowInv == TypeOK /\ OpenedFirst /\ FlowAccounts`.
`WindowCoversFlight` alone is not inductive: that a frame fits rests on how much credit was
granted, on the order of the window frames that carry it, and on who holds the control
header while `recvWindow` lags behind.  `CtlLock` says the last, `SenderAccount`
and `ReceiverAccount` the books of each end, `DataOrder` and `CreditOrder` that frames on the
wire cover disjoint ranges between the two ends' counts.  `OpenedFirst` is needed because
only window frames may carry a SYN.  Each action has a lemma by its kind of effect (`QuietStep`,
`WriteSendFlow`, `ReleasedFlow`, `RecvCounted`, ...); lemmas on `Ordered` say what a send, a
receipt and a cut do to a range.  `OnlyInGap` then needs one more step: a data frame at
the head of the wire is within what is in flight, so if it exceeds `recvWindow` an update
is pending.

**`YamuxStreamPipeProofs`** goes on from there, for every value of the same constants:
`NoFlagErrors` (`NoFlagError`), `HalfClosesOnce` (`HalfCloseOnce`), `ReadsPrefix`
(`ReadsArePrefix`), `NeverLostWakeup` (`NoLostWakeup`), and for users that do not call Close
during a Write (`~CloseRaces`) `EOFComplete` (`EOFIsComplete`), `FinIsLast` (`NoDataAfterFin`) and
the refinements `RequestRefined` and `ResponseRefined` (`ImplementsRequestPipe`,
`ImplementsResponsePipe`).  Four invariants stand on one another:

- `HandshakeInv == FlowInv /\ Handshake /\ NoFlagError`.  A flag is refused when it meets the
  wrong state, so `Handshake` says where each flag can be: no frame and no user before the SYN
  (`BeforeSyn`, `Opening`, `UsersWait`), one SYN, at the head of the wire until the acceptor takes it
  (`SynOnce`, `SynWaits`, `Unborn`), a RST only as the one answer of an acceptor that has no stream
  (`RstOnce`), and one FIN, by Close, in the closer's hands, on the wire or known to the peer
  (`FinOnce`, `ClosedByClose`, `HalfClosed`).  A stream is in the table until it is over
  (`Registered`), or the frame would meet no stream at all.
- `BytesInv == HandshakeInv /\ Bytes`.  What an end has, read or buffered (`Got`), is the first
  bytes its peer sent.  The data frames on the wire continue it (`Chained`) and reach the last
  byte sent while nothing is broken (`Reaches`).
- `OrderlyInv` adds that a closed end has no Write under way (`Quiet`) and that an end told of a
  FIN, or a reader given EOF, has everything (`Complete`, `Drained`), because no data follows a
  FIN.  This is where `~CloseRaces` is needed: `write` checks the state before it queues its frame,
  and a Close in between sends the FIN first (section 6); the last bytes then reach a reader
  that was given its end, and the direction is no pipe.
- `WakeInv == HandshakeInv /\ Wakeful`.  A reader that looks without a token finds nothing to
  read, or another reader is busy and will see what is there (`ReadersWake`: `Calm`, `Busy`,
  `Taking`); a writer that waits without one has no window in an open stream, or Close is
  about to notify it (`WriterWakes`).  `Over` says that a stream whose session ended says so
  by the time its user gets it: the sweep may come before the user does.

For the refinement, `StatusNext` shows that a pipe goes from open to finished to broken only,
`EndIsReal` that an end told by state is the writer's close after the last byte, `TakeReads` that
ReadTake hands on the next bytes, and `PipeStep` that every step is a write, a read, an end or a
change of status of the pipe, or leaves it alone.

**`YamuxSessionProofs`**: for every number of streams, users and calls, every capacity and
whatever the peer sends: `TypesHold`, `FirstErrorIsKept` (`FirstErrorWins`), `ErrorComesFirst`
(`ErrorBeforeShutdown`), `NoneDiesSilently` (`NoSilentDeath`), `SweepReachesAll`
(`SweepComplete`), `NilsAreReplies` (`NilIsAReply`) and `SessionsStopReleased` (`StopsReleased`).
Assumption: the names of streams, errors and locks differ
(`StreamAssumption`); capacities are naturals (`BoundAssumption`).

For `ErrorComesFirst`, `ErrorSet` says that a goroutine about to close `shutdownCh` has set the
error, and `FirstErrorIsKept` that none of the others takes it back in between.

`SweepComplete` rests on `SweepInv`.  The closer is whoever holds `shutdownLock`, and the
connection is closed before it sweeps (`OneCloser`).  A live stream is in the table, and during
a sweep among those still to be ended (`LiveAreRegistered`), because a stream leaves the table
only when it is over.  Streams begin once (`BegunOnce`).  A live stream that the sweep missed
was registered after it began, so the frame that would have its user told success is never
written: the connection is already closed.  That is `LateStreams`, and it needs `NoReplyYet`,
that no reply lies in the channel of a call before the call sends its frame.

`NilIsAReply` rests on `ReplyInv`.  A call has one item, which is nowhere before the call queues it
(`Numbered`) and then in one place (`Once`).  The holder of `controlHdrLock` is a caller at work on
that stream (`ControlHeld`), so no two callers await a reply from one channel.  While send goes on, the
item it writes is awaited, or its caller returned without it and it is in `late` (`Expected`); hence a nil in a
channel is that of an item that was written, and whoever awaits it there put in that item, or the
item is late (`NilAnswers`), which takes a shutdown (`LateEnds`).  An error in a channel ends send
(`ErrorEnds`), so no nil comes behind it.

`SessionsStopReleased` (`StopsReleased`) needs no fairness, only to know who can hold what: which
labels a task may have (`Ways`); that a `stateLock` is held between two steps only by one who is
about to unregister that stream, and `streamLock` only by a sweep or by `recv` with a refusal in
hand (`Holding`); and that the frame of a caller without a reply is in `sendCh` or in the hands of
`send` (`Awaiting`).  Then whoever waits waits for a lock whose holder can go on, for room that `send`
will make, or for the frame `send` writes: the argument goes round the goroutines once, and only
`LockCycle` and `WriteBlocked` close the circle.

**`YamuxLinkProofs`**: for every number of goroutines at either end, every `MaxId`, every
capacity and number of pings: `LateAreRefused` (`LateRefused`), `EveryFateIsOne` (`OneFate`) and
`StopsOnlyCrossed` (`StopsReturned`).
Assumptions: a task is an end and a name other than recv's (`TaskAssumption`), and the sorts of
the bounds (`BoundAssumption`).  A late stream is never accepted for two reasons, and `LinkInv` joins them.  Its end heard of a go-away
from a session that refuses already (`RefusesFirst`), so no SYN that arrives later is
accepted; and none arrived before, because a stream is registered before it is announced
(`RegisteredFirst`), which needs that no other stream has its id: each was taken from the
counter of its opener, below what the counter says now (`IdsTaken`).  The counter never wraps, as
`OpenStream` gives up before it would.

`OneFate` is proved of `FateInv`.  The places of a stream id, and of a ping, are counted
(`StreamCopies`, `PingCopies`), and every step keeps the sum at one: what leaves a queue enters a
table or the next queue (`StreamFates`, `PingFates`).  That nothing is counted that should not be
rests on `Carried` (what is under way, registered or refused was taken before), `Turns` (a
caller has one frame, and waits for it) and `Calls` (a call asks for what its caller asks for, and
two pings of an end differ).  One copy then is one of the places `OneFate` lists.

For `StopsOnlyCrossed`, a caller that waits has its frame in a queue or with `send`, or its ping
somewhere (`Waits`), and `streamLock` is held for a refusal only (`Holds`).  Where nothing moves, a
frame under way means a `send` that waits for the peer's recv, and that recv waits for room behind
its own `send`: at both ends, which is `Crossed`.  An answer cannot be what is missing, because
`FateInv` says where it is.

**`WebSocketProofs`**: for every window, set of frames and requests, and number of writes:
`FramesStayWhole` (`FramesWhole`), `ReadsAreInOrder` (`ReadsInOrder`), `PongsComeFirst`
(`PongFirst`), `HandshakeAgrees` (`BothAgree`) and `StopsOnlyClosed` (`StopsClosed`).  Assumptions: the sorts of the
constants (`BoundAssumption`, `FrameAssumption`, `RequestAssumption`).  `WholeInv` says that what is
left of a frame are its last parts (`LastParts`), that only the holder of `wio` has parts
to write and a failed writer has none (`LockGuards`), and how they go on from what is on the
wire (`Continues`); only a failure leaves a frame cut, and nothing follows it.  `ReadInv`
says that while the reader goes on there is a function `base` (`Places`) giving the
place of each frame under way in the stream of data bytes: what was delivered, what is left of the
present frame and what is under way are all the bytes sent, in order.  `PongInv` adds where a ping
can be: answered on the wire, in the hands of recv, which has then read exactly the bytes sent
before it, or under way at that place of the stream (`Pings`); and while recv holds `wio` for a
pong, the frame being written is that pong (`OwnPong`).  `Agrees` says that the client has an answer
only from `NewServerConn` and that the reader runs exactly if it is 101; `ClientAccepts` then
compares the two functions, request by request: the server answers 101 only with the single
protocol, or none, that the client asked for.  For `StopsOnlyClosed`, `Stages` says how far each
goroutine can be in terms of the others, `Locks` that the holder of `wio` or of `shutdownLock` is
on its way to give it back, and `Ends` that no goroutine ends before the session and the handler
not before it has closed the connection, whatever became of the session's Close.

**`TransportProofs`**: for every number of requests, hosts and pooled connections, whatever the
server does: `ConnectionsHaveOneUser` (`OneUser`), `AnswersAreMine` (`AnswerIsMine`) and
`StopsOnlyAnswered` (`StopsAnswered`).
Assumptions: keys and names (`KeyAssumption`, `NameAssumption`).  `PoolInv` says what a
pool holds (`PoolHolds`), where a request can have a connection and its callback
(`CallersHold`), that it passes through `reqch` and `cur` once (`LoopsHold`), and that owners and
pool places exclude each other (`OneUserFlat`).  `AnswerInv` adds that under way on a
connection is at most what its one user wrote or the response to it (`OneUnderWay`), and the
same of what readLoop holds and has delivered (`ReadIsMine`, `ReplyIsMine`).  Both hold of a connection until its
callback runs a second time, which leaves its readLoop stuck: the theorems say so, and section 6
has the run that gets there.  `StopsOnlyAnswered` follows a request that waits: it is in `reqch` or
with readLoop (`TookUp`), and, once written, with the server, or something has come back, unless the
connection is broken, which readLoop will see (`OnTheWay`).  While readLoop waits for a body to end,
somebody has that body and its callback, and a caller in a callback is one readLoop waits
for (`BodyInv`).

**`ProxyProofs`**: for every number of items, every window and every set of handlers:
`TunnelsKeepOrder` (`TunnelInOrder`), `AnswersKeepOrder` (`AnswersInOrder`),
`RequestsForwardedOnce` (`ForwardedOnce`) and `StopsOnlySettled` (`StopsSettled`).  Assumptions: the
sorts of the constants (`HandlerAssumption`, `BoundAssumption`).  `TunnelInv` says that what was read of a
side is what was lost of it, what the proxy wrote to the other and what the copier between holds,
one behind the other (`Copied`), and that before the copiers start all that was read is lost
(`Nothing`, `Opening`): no reader is dropped later.

`LoopInv` is about the loops over requests.  What was read of the client is the requests up to the
one at hand, and those ahead (`ReadAhead`); the response is the one at hand's, and a server's only if
that was sent on (`InHand`); what was sent on are earlier requests that no handler answers
(`SentOn`).  `InStep` says that the one at hand is the next to be answered behind those lost.  Behind
ConnectHTTPMitm, which drops what it read ahead, that needs the client to wait for each answer:
then nothing is ever read ahead (`Given`).  `RequestFiltered` and `ResponseFiltered` say what any
set of handlers makes of a request and of a response; they rest on `LeastMember` and
`GreatestMember`, which get the first and the last of the handlers from the well-foundedness of `<`.

`StopsOnlySettled` adds `Copiers`: the two start together when the handler is done, and one that has
ended has closed the connection it wrote to, which nobody opens again.  A copier that waits then
waits for bytes of a side that is still there, or for room.

**`RegretableReaderProofs`**: for every buffer, source and read length: `OverflowIsExact`
(`OverflowExact`), for every user, and `ReaderImplementsReplay` (`ImplementsReplay`), which
assumes a user that does not Forget behind itself (`~ForgetBehind`): the initial state maps to the initial state of `ReplayReader` and every step to a step of it or a
stutter.  The invariant `ReaderInv` joins `BufferHolds`, that the buffer holds the bytes since
the mark and the indices agree, with the meaning of the overflow flag.

Model-checked only: liveness under fairness, which the prover does not treat.  Of it the safe half
is proved (`StopsReleased` and its like): what remains to TLC is that the steps that can be taken
come to an end.  Every safety property and every refinement a run checks is proved, under the
assumptions named here.

## 6. Where code and documents disagree

With a run:

- `SessionLockOrder`: `Close` takes `streamLock`, then each `stateLock` (`session.go:178-182`);
  `Stream.Close` and `processFlags` the other way round (`stream.go:282`, `327`, `336`).
- `TransportCallback`: `bodyEOFSignal` takes its callback out only after it has run
  (`transport.go:744`), and the callback wakes readLoop.  With the next request readLoop closes
  the last body (`transport.go:572`), runs the callback again, puts the connection into the pool
  a second time and waits for itself for ever, against `transport.go:729-731`.

Stated in the models, without a run of their own (TLC refutes the properties named first):

- `NilMeansWritten`: a call that gives up at shutdown leaves its reply in the channel the next call
  on the stream reads (`session.go:269-274`, the stream's `sendErr` and `controlErr`).  The second
  Write then returns nil for a frame that send never writes, though `waitForSendErr` "waits to
  send a header" (`session.go:261`).  `NilIsAReply` says that it takes a shutdown.
- `NoDataAfterFin`: a `Write` that has looked at the state queues its data behind the FIN of a
  concurrent `Close` (`stream.go:164-181`), against `spec.md:109-111`.  `FinIsLast` proves that
  without such a Close no data follows a FIN.
- `NoWindowError`: `sendWindowUpdate` adds the credit to `recvWindow` after the frame was written
  (`stream.go:243-248`).  The peer may have answered by then, and `readData` (`stream.go:371`)
  ends the session of two ends that both kept to `spec.md:129-130`.  `WindowErrorOnlyInGap`, which
  is run and proved, says that this is the one way it does.
- `ImplementsReplay` with `ForgetBehind`: `Forget` drops what a `Regret` left to be read again
  (`regretreader.go:66`), though after Regret it is "as if the underlying reader was never read"
  (`regretreader.go:45-46`) and Forget forgets what was "read so far" (`regretreader.go:54`).
- `AllBytesForwarded`: `handleHttps` drops the reader that `Hijack` returns (`https.go:72`), and with it
  what a client sent right behind its CONNECT, if `net/http` had read it.  A tunnel loses those
  bytes, though ConnectAccept is "forwarding all bytes from the client" (`dispatcher.go:202-203`);
  ConnectMitm's handshake fails, ConnectHTTPMitm's loop begins with a later request, and a hijack
  handler is given the connection without them.
- `sendNoWait` "does a send without waiting" (`session.go:277`) and waits for room in `sendCh`
  (`session.go:279`).  When the recv goroutines of both ends wait there and both send goroutines
  wait for the other end to read, neither session moves again: `Crossed`, which `StopsReturned`
  has to except.
- The window update restores the maximum without counting unread bytes (`stream.go:231`), so
  `recvBuf` can exceed it: the back-pressure of yamux's `README.md:17` is missing
  (`BufferWithinWindow`).
- `session.go:163` promises a go-away that `Close` never sends (`CloseSendsGoAway`).
- An empty ping ends the connection (`hybi.go:293`: `io.ReadFull` reports it as `io.EOF`).
- `Close` leaves the connection open when the close frame cannot be written
  (`websocket.go:219`); in the agent `serveWebSocket` makes up for it.
- `connectMethod.String` joins the target address also for http through a proxy
  (`transport.go:485`), against the table at `transport.go:470`; the model takes the keys as
  they are.
- `filterRequest` hands every handler the client's request (`proxy.go:55`), so a request one
  returns is lost when the next returns its own.
- The loop of `ConnectHTTPMitm` sends requests on without `removeProxyHeaders` (`https.go:124`).
- `NewConnectDialToProxy` drops the reader that may hold bytes of the target (`https.go:302`), because
  a "TLS server will not speak until spoken to" (`https.go:300-301`); a tunnel may carry any
  protocol, and the model loses the first bytes of a target that speaks first (`lost`).

What no document denies, and a user of the code should know, all of it in the models unless
marked:

- In the transport, readLoop may close an idle connection that `getIdleConn` has just handed out;
  the request is queued to a loop that has ended and its caller waits for ever
  (`AnsweredUnlessLoopEnded` makes the exception).  A body cut short never runs its callback, so
  its readLoop waits for ever.  A failed write leaves `numExpectedResponses` raised.  A failed TLS
  handshake leaves its connection open.  A user name in the URL of a proxied http request panics
  (`transport.go:655`, not modelled).
- In goproxy, what the response handlers make of a failed round trip passes through all of them
  once more.  Inside a CONNECT, conditions on a response see the CONNECT, not the request.
  ConnectHTTPMitm loses requests its reader had read ahead, and returns without closing the
  client; so does a failed dial, signature or handshake in some of the modes.
- The websocket answers a pong it did not ask for by ending the connection, and `DialConfig` does
  not close its connection after a failed handshake (not modelled).

## 7. Not modelled

- Of yamux: addresses and logging; the bytes of a header (`const.go`), of which the type, the flag and the
  length are kept.  A header's flags are one flag: no sender sets two but for ACK or SYN with
  FIN, which `sendClose` cannot produce because `Close` has already left the states that would
  add them.  That a dead peer is noticed is no property: keepalive has no timeout for its
  answer, so the code has no means to.
- Of the websocket: `Codec`, `Message` and `JSON`, and the deadlines, which the agent does not use;
  how lengths and masks are encoded.
- Of the transport: proxies taken from the environment, other protocols, how addresses, headers
  and gzip are read.  A response that cannot be read is a kind of body (`bad`), which the runs
  leave out.
- Of goproxy: what each ready-made condition of `dispatcher.go` compares (a condition is the set of
  kinds it lets through), the headers, the log, certificates and canned responses, which are
  functions without state; the extensions and the examples, which the agent does not run.
- Of the request loops, also: bodies.  A request is read whole, while the code leaves the rest of a
  body that a handler did not read in the man-in-the-middle's reader, in front of the next request.
  Whoever speaks to a loop sends requests that can be read, and what is lost with a reader are whole
  items; bytes of another kind only go through tunnels (`Speech`).  A TLS handshake ends, well or
  badly, without waiting for its client.
- Of the session: what streams it opened or accepted do later.  They are called and closed as the
  streams of `Old` are, which are there from the beginning, so that the channels and locks of one
  stream are shared there.
