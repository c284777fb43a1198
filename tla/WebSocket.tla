----------------------------- MODULE WebSocket -----------------------------
(***************************************************************************)
(* One websocket connection of the agent, from the handshake until it is   *)
(* released: the package's client dials, serveWebSocket answers,           *)
(* websocketCallback (server.go) puts a yamux session on the connection,   *)
(* and three goroutines of the agent use it from then on: recv reads it,   *)
(* send writes it, and serve, the handler, waits for the session to end.   *)
(* After the handshake the peer is whatever may arrive on the connection.  *)
(*                                                                         *)
(* A payload is a sequence of numbers: the peer numbers the bytes it sends *)
(* as data.  A frame the agent writes is given to the connection in one or *)
(* more parts, one per write of the bufio.Writer.                          *)
(***************************************************************************)
EXTENDS Integers, Sequences

CONSTANTS
    Requests,    \* the upgrade requests a peer may send
    Frames,      \* the frames it may send: records of an op, a size and a mask
    Window,      \* parts the connection takes while the peer reads none
    MaxFrames,   \* bound: frames the peer sends
    MaxWrites    \* bound: Writes of the session's send

ASSUME BoundAssumption ==
    Window \in Nat \ {0} /\ MaxFrames \in Nat /\ MaxWrites \in Nat
ASSUME FrameAssumption ==
    Frames \subseteq [op : {"data", "close", "ping", "pong"}, size : Nat, masked : BOOLEAN]
ASSUME RequestAssumption ==
    Requests \subseteq
        [method : {"GET", "POST"}, upgrade : BOOLEAN, key : {"", "k"}, version : {"13", "8"},
         uri : BOOLEAN, origin : {"url", "null", "bad"}, protocols : Seq({"p", "q"})]

VARIABLES
    request,     \* what the peer asks for
    reply,       \* what serveWebSocket answers
    dialErr,     \* what hybiClientHandshake makes of the answer
    pc,
    inbound,     \* frames on their way to recv
    sent, pings, \* history: the data bytes sent; for each ping, those before it
    frames,      \* bound: frames sent
    rest,        \* what is left of the frame behind ws.frameReader
    delivered,   \* history: what Read has returned
    pong,        \* the payload recv is to send back
    wio,         \* the holder of ws.wio
    left,        \* parts of the frame its holder has yet to write
    failed,      \* the bufio.Writer's error, which it keeps
    wire, seen,  \* parts the connection took, and how many the peer read
    writes,
    shutdown, shutdownLock, \* of the session
    rwcClosed, hungUp       \* has the agent, has the peer closed the connection?

shakeVars == <<request, reply, dialErr>>
readVars  == <<rest, delivered, pong>>
writeVars == <<wio, left, failed, wire, writes>>
closeVars == <<shutdown, shutdownLock, rwcClosed>>
peerVars  == <<inbound, sent, pings, frames, seen, hungUp>>
vars == <<shakeVars, pc, readVars, writeVars, closeVars, peerVars>>

Tasks == {"recv", "send", "serve"}
none == "none"
free == "free"
NoRequest == [method |-> none]
NoReply == [status |-> none]
Goto(t, l) == pc' = [pc EXCEPT ![t] = l]

Init ==
    /\ request = NoRequest /\ reply = NoReply /\ dialErr = none
    /\ pc = [t \in Tasks |-> IF t = "serve" THEN "handshake" ELSE "unborn"]
    /\ inbound = <<>> /\ sent = 0 /\ pings = <<>> /\ frames = 0
    /\ rest = <<>> /\ delivered = <<>> /\ pong = 0
    /\ wio = free /\ left = <<>> /\ failed = FALSE
    /\ wire = <<>> /\ seen = 0 /\ writes = 0
    /\ shutdown = FALSE /\ shutdownLock = free
    /\ rwcClosed = FALSE /\ hungUp = FALSE

-----------------------------------------------------------------------------
(* The handshake *)

(* hybiClientHandshake asks for version 13 alone; another peer may ask for
   anything. *)
SendRequest ==
    /\ request = NoRequest /\ ~hungUp
    /\ request' \in Requests
    /\ UNCHANGED <<reply, dialErr, pc, readVars, writeVars, closeVars, peerVars>>

ReadHandshake(r) ==
    CASE r.method # "GET" -> "405"
      [] r.method = "GET" /\ (~r.upgrade \/ r.key = "" \/ r.version # "13" \/ ~r.uri) -> "400"
      [] OTHER -> "101"

(* Origin and checkOrigin *)
OriginRefused(r) == r.origin \in {"null", "bad"}

(* AcceptHandshake *)
AnyProtocol(r) == FALSE
ManyProtocols(r) == Len(r.protocols) > 1

Refusal(status) == [status |-> status, upgrade |-> FALSE, accept |-> "", protocol |-> <<>>]

(* newServerConn: the answer to a request. *)
NewServerConn(r) ==
    CASE ReadHandshake(r) # "101" -> Refusal(ReadHandshake(r))
      [] ReadHandshake(r) = "101" /\ OriginRefused(r) -> Refusal("403")
      [] ReadHandshake(r) = "101" /\ ~OriginRefused(r) /\ ManyProtocols(r) -> Refusal("400")
      [] OTHER -> [status |-> "101", upgrade |-> TRUE, accept |-> r.key, protocol |-> r.protocols]

(* serveWebSocket: the handler runs if the answer is 101 and was flushed. *)
ServeWebSocket ==
    /\ pc["serve"] = "handshake" /\ request # NoRequest
    /\ \/ /\ reply' = NewServerConn(request)
          /\ pc' = IF reply'.status = "101"
                   THEN [recv |-> "read", send |-> "idle", serve |-> "serving"]
                   ELSE [pc EXCEPT !["serve"] = "return"]
       \/ /\ hungUp
          /\ Goto("serve", "return")
          /\ UNCHANGED reply
    /\ UNCHANGED <<request, dialErr, readVars, writeVars, closeVars, peerVars>>

(* What hybiClientHandshake returns for an answer. *)
ClientHandshake(r, a) ==
    CASE a.status # "101" -> "ErrBadStatus"
      [] a.status = "101" /\ ~a.upgrade -> "ErrBadUpgrade"
      [] a.status = "101" /\ a.upgrade /\ a.accept # r.key -> "ErrChallengeResponse"
      [] a.status = "101" /\ a.upgrade /\ a.accept = r.key
            /\ a.protocol # <<>> /\ \A i \in DOMAIN r.protocols : <<r.protocols[i]>> # a.protocol
            -> "ErrBadWebSocketProtocol"
      [] OTHER -> "nil"

Dialed ==
    /\ reply # NoReply /\ dialErr = none
    /\ dialErr' = ClientHandshake(request, reply)
    /\ UNCHANGED <<request, reply, pc, readVars, writeVars, closeVars, peerVars>>

-----------------------------------------------------------------------------
(* The peer *)

PeerSends ==
    /\ dialErr = "nil" /\ ~hungUp
    /\ frames < MaxFrames
    /\ frames' = frames + 1
    /\ \E f \in Frames :
          /\ inbound' = Append(inbound,
                [op |-> f.op, masked |-> f.masked,
                 body |-> [i \in 1..f.size |-> IF f.op = "data" THEN sent + i ELSE Len(pings) + 1]])
          /\ sent' = IF f.op = "data" THEN sent + f.size ELSE sent
          /\ pings' = IF f.op = "ping" THEN Append(pings, sent) ELSE pings
    /\ UNCHANGED <<shakeVars, pc, readVars, writeVars, closeVars, seen, hungUp>>

PeerReads ==
    /\ seen < Len(wire)
    /\ seen' = seen + 1
    /\ UNCHANGED <<shakeVars, pc, readVars, writeVars, closeVars, inbound, sent, pings, frames, hungUp>>

PeerHangsUp ==
    /\ ~hungUp
    /\ hungUp' = TRUE
    /\ UNCHANGED <<shakeVars, pc, readVars, writeVars, closeVars, inbound, sent, pings, frames, seen>>

-----------------------------------------------------------------------------
(* Read, called by recv alone: the lock rio is never contended. *)

PingDropped(f) ==
    CASE ~f.masked -> "refuse"
      [] f.masked /\ f.op \in {"data", "ping"} -> "read"
      [] OTHER -> "exit"

(* HandleFrame: where the frame's op takes the reader.  io.ReadFull reports
   an empty ping as io.EOF, which Read passes on. *)
HandleFrame(f) ==
    CASE ~f.masked -> "refuse"
      [] f.masked /\ f.op = "data" -> "read"
      [] f.masked /\ f.op = "ping" /\ f.body # <<>> -> "pong"
      [] OTHER -> "exit"

ReadFrame ==
    /\ pc["recv"] = "read" /\ rest = <<>> /\ inbound # <<>>
    /\ LET f == Head(inbound) IN
          /\ Goto("recv", HandleFrame(f))
          /\ rest' = IF HandleFrame(f) = "read" THEN f.body ELSE <<>>
          /\ pong' = IF HandleFrame(f) = "pong" THEN Head(f.body) ELSE 0
    /\ inbound' = Tail(inbound)
    /\ UNCHANGED <<shakeVars, delivered, writeVars, closeVars, sent, pings, frames, seen, hungUp>>

KeepsNothing(s, n) == <<>>
KeepsRest(s, n) == SubSeq(s, n + 1, Len(s))

(* The frame's reader gives what it likes of the rest. *)
ReadPayload ==
    /\ pc["recv"] = "read" /\ rest # <<>>
    /\ \E n \in 1..Len(rest) :
          /\ delivered' = delivered \o SubSeq(rest, 1, n)
          /\ rest' = KeepsRest(rest, n)
    /\ UNCHANGED <<shakeVars, pc, pong, writeVars, closeVars, peerVars>>

(* The connection fails under Read, or the session dislikes what it read. *)
ReadFails ==
    /\ pc["recv"] = "read"
    /\ \/ rwcClosed
       \/ hungUp /\ inbound = <<>> /\ rest = <<>>
       \/ delivered # <<>>
    /\ Goto("recv", "exit")
    /\ UNCHANGED <<shakeVars, readVars, writeVars, closeVars, peerVars>>

-----------------------------------------------------------------------------
(* Write, WriteClose and WritePong: a frame is written under wio. *)

Writing == [data |-> "data", pong |-> "pong", refuse |-> "close",
            close |-> "close", lastclose |-> "close"]
Wants(t) == pc[t] \in DOMAIN Writing /\ wio # t

Parts(kind, id, n) == [i \in 1..n |-> [kind |-> kind, id |-> id, part |-> i, of |-> n]]

(* Mutants, here and elsewhere, are the slips the run is shown to catch. *)
LockIgnored(t) == TRUE
LockFree(t) == wio = free

(* Only the frames of Write are too large for one write of the bufio.Writer.
   After a failed write it takes no more. *)
StartFrame(t) ==
    /\ Wants(t) /\ LockFree(t)
    /\ wio' = t
    /\ LET kind == Writing[pc[t]]
           id == CASE kind = "data" -> writes [] kind = "pong" -> pong [] OTHER -> 0 IN
       \E n \in 1..(IF kind = "data" THEN 2 ELSE 1) :
          left' = IF failed THEN <<>> ELSE Parts(kind, id, n)
    /\ UNCHANGED <<shakeVars, pc, readVars, failed, wire, writes, closeVars, peerVars>>

Full == Len(wire) - seen >= Window

WritePart(t) ==
    /\ wio = t /\ left # <<>> /\ ~Full /\ ~rwcClosed
    /\ wire' = Append(wire, Head(left))
    /\ left' = Tail(left)
    /\ UNCHANGED <<shakeVars, pc, readVars, wio, failed, writes, closeVars, peerVars>>

WriteFails(t) ==
    /\ wio = t /\ left # <<>> /\ (rwcClosed \/ hungUp)
    /\ failed' = TRUE
    /\ left' = <<>>
    /\ UNCHANGED <<shakeVars, pc, readVars, wio, wire, writes, closeVars, peerVars>>

(* Where each caller goes on: an error ends recv and send, and keeps Close
   from closing the connection. *)
After(t) ==
    CASE pc[t] = "data" -> IF failed THEN "exit" ELSE "idle"
      [] pc[t] = "pong" -> IF failed THEN "exit" ELSE "read"
      [] pc[t] = "refuse" -> "exit"
      [] pc[t] = "close" -> IF failed THEN "unlock" ELSE "hangup"
      [] pc[t] = "lastclose" -> IF failed THEN "return" ELSE "hangup"

UnlockUnlessFailed(t) == IF failed THEN t ELSE free
Unlocked(t) == free

EndFrame(t) ==
    /\ wio = t /\ pc[t] \in DOMAIN Writing /\ left = <<>>
    /\ wio' = Unlocked(t)
    /\ Goto(t, After(t))
    /\ UNCHANGED <<shakeVars, readVars, left, failed, wire, writes, closeVars, peerVars>>

-----------------------------------------------------------------------------
(* The session on the connection, and the handler that waits for it *)

SendData ==
    /\ pc["send"] = "idle" /\ writes < MaxWrites
    /\ writes' = writes + 1
    /\ Goto("send", "data")
    /\ UNCHANGED <<shakeVars, readVars, wio, left, failed, wire, closeVars, peerVars>>

SendStops ==
    /\ pc["send"] = "idle" /\ shutdown
    /\ Goto("send", "done")
    /\ UNCHANGED <<shakeVars, readVars, writeVars, closeVars, peerVars>>

(* http.Serve: Accept fails once the session is shut down, and Close of the
   session is deferred. *)
ServeEnds ==
    /\ pc["serve"] = "serving" /\ shutdown
    /\ Goto("serve", "exit")
    /\ UNCHANGED <<shakeVars, readVars, writeVars, closeVars, peerVars>>

Closed(t) == IF t = "serve" THEN "lastclose" ELSE "done"

(* Session.Close holds shutdownLock over the Close of the connection; the
   handler closes the connection once more after it. *)
SessionClose(t) ==
    /\ pc[t] = "exit" /\ shutdownLock = free
    /\ \/ /\ shutdown
          /\ Goto(t, Closed(t))
          /\ UNCHANGED <<shutdown, shutdownLock>>
       \/ /\ ~shutdown
          /\ shutdown' = TRUE /\ shutdownLock' = t
          /\ Goto(t, "close")
    /\ UNCHANGED <<shakeVars, readVars, writeVars, rwcClosed, peerVars>>

(* rwc.Close, after the close frame was written *)
HangUp(t) ==
    /\ pc[t] = "hangup"
    /\ rwcClosed' = TRUE
    /\ Goto(t, IF shutdownLock = t THEN "unlock" ELSE "return")
    /\ UNCHANGED <<shakeVars, readVars, writeVars, shutdown, shutdownLock, peerVars>>

SessionClosed(t) ==
    /\ pc[t] = "unlock"
    /\ shutdownLock' = free
    /\ Goto(t, Closed(t))
    /\ UNCHANGED <<shakeVars, readVars, writeVars, shutdown, rwcClosed, peerVars>>

ReturnOpen ==
    /\ pc["serve"] = "return"
    /\ Goto("serve", "done")
    /\ UNCHANGED <<shakeVars, readVars, writeVars, closeVars, peerVars>>

(* serveWebSocket's deferred rwc.Close *)
Return ==
    /\ pc["serve"] = "return"
    /\ rwcClosed' = TRUE
    /\ Goto("serve", "done")
    /\ UNCHANGED <<shakeVars, readVars, writeVars, shutdown, shutdownLock, peerVars>>

-----------------------------------------------------------------------------
Agent ==
    \/ ServeWebSocket \/ ReadFrame \/ ReadPayload \/ ReadFails
    \/ SendData \/ SendStops \/ ServeEnds \/ Return
    \/ \E t \in Tasks : \/ StartFrame(t) \/ WritePart(t) \/ WriteFails(t) \/ EndFrame(t)
                        \/ SessionClose(t) \/ HangUp(t) \/ SessionClosed(t)

Peer == SendRequest \/ Dialed \/ PeerSends \/ PeerReads \/ PeerHangsUp

Next == Agent \/ Peer
Spec == Init /\ [][Next]_vars

(* The Go scheduler runs every goroutine that can run; the peer need not
   send, read, or hang up. *)
Fairness ==
    /\ WF_vars(ServeWebSocket) /\ WF_vars(ServeEnds) /\ WF_vars(Return)
    /\ WF_vars(ReadFrame \/ ReadPayload) /\ WF_vars(SendData \/ SendStops)
    /\ WF_vars(rwcClosed /\ ReadFails)
    /\ \A t \in Tasks :
          /\ WF_vars(StartFrame(t)) /\ WF_vars(WritePart(t) \/ WriteFails(t)) /\ WF_vars(EndFrame(t))
          /\ WF_vars(SessionClose(t)) /\ WF_vars(HangUp(t)) /\ WF_vars(SessionClosed(t))
FairSpec == Spec /\ Fairness

-----------------------------------------------------------------------------
(* The handler runs on a connection exactly if the client that dialed it
   makes a connection of the answer (newServerConn, hybiClientHandshake). *)
BothAgree ==
    dialErr # none => (dialErr = "nil") = (pc["recv"] # "unborn")

(* The parts of a frame follow each other on the wire: no Write, pong or
   close frame of another goroutine gets in between (wio). *)
FramesWhole ==
    \A i \in 1..(Len(wire) - 1) :
        wire[i].part < wire[i].of => wire[i + 1] = [wire[i] EXCEPT !.part = @ + 1]

(* Read returns the bytes of the data frames in the order they were sent,
   none missing, whatever control frames come in between. *)
ReadsInOrder == \A i \in 1..Len(delivered) : delivered[i] = i

(* Read never returns a byte that was sent after a ping before that ping's
   pong, with the ping's payload, is on the wire (HandleFrame). *)
PongFirst ==
    \A p \in 1..Len(pings) :
        Len(delivered) > pings[p] =>
            \E i \in 1..Len(wire) : wire[i].kind = "pong" /\ wire[i].id = p

WriteBlocked == wio # free /\ left # <<>> /\ Full
Ended == shutdown \/ pc["serve"] = "return"

(* Once the session has ended or the handshake was refused, the connection
   is closed, unless a Write is blocked for ever by a peer that does not
   read: the close frame then waits behind it (Close, serveWebSocket). *)
ConnReleased == <>Ended => (<>rwcClosed \/ <>[]WriteBlocked)

(* The reader waits to send a pong for ever only behind a Write that is
   blocked for ever. *)
PongWaitsForWriter == <>[](pc["recv"] = "pong") => <>[]WriteBlocked

(* The steps of Fairness, by their guards: what the agent can do by itself. *)
ServeMoves ==
    \/ pc["serve"] = "handshake" /\ request # NoRequest
    \/ pc["serve"] = "serving" /\ shutdown
    \/ pc["serve"] = "return"
RecvMoves == pc["recv"] = "read" /\ (rest # <<>> \/ inbound # <<>> \/ rwcClosed)
SendMoves == pc["send"] = "idle" /\ (writes < MaxWrites \/ shutdown)
WriterMoves(t) ==
    \/ Wants(t) /\ wio = free
    \/ wio = t /\ left # <<>> /\ (~Full \/ rwcClosed \/ hungUp)
    \/ wio = t /\ left = <<>> /\ pc[t] \in DOMAIN Writing
CloserMoves(t) ==
    \/ pc[t] = "exit" /\ shutdownLock = free
    \/ pc[t] \in {"hangup", "unlock"}
AgentMoves ==
    \/ ServeMoves \/ RecvMoves \/ SendMoves
    \/ \E t \in Tasks : WriterMoves(t) \/ CloserMoves(t)

(* Nothing has ended, and the next step is the peer's: its request, or its next frame. *)
AwaitsPeer ==
    /\ ~Ended /\ ~rwcClosed
    /\ \/ pc["serve"] = "handshake" /\ request = NoRequest
       \/ pc["serve"] = "serving" /\ pc["recv"] = "read" /\ inbound = <<>>
Released == rwcClosed /\ \A t \in Tasks : pc[t] \in {"unborn", "done"}

(* However reader, writer and handler end, and whichever of them closes the session, they
   never come to wait for each other: where the agent can go no further the peer is to move,
   or the connection is closed and everyone has returned, or a Write waits for a peer that
   does not read (Session.Close, Conn.Close, serveWebSocket). *)
StopsClosed == AgentMoves \/ AwaitsPeer \/ Released \/ WriteBlocked

=============================================================================
