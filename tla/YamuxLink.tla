------------------------------ MODULE YamuxLink ------------------------------
(***************************************************************************)
(* Two yamux sessions, client and server, on one connection, while both    *)
(* are up: how streams get their ids, are announced, accepted or refused,  *)
(* what a go-away stops, pings, and the queues through which all frames of *)
(* an end go.  What happens on a stream once it is there is the subject of *)
(* YamuxStream, how a session ends that of YamuxSession.                   *)
(***************************************************************************)
EXTENDS Naturals, Sequences

CONSTANTS
    Openers, Acceptors, Pingers, Leavers, \* who calls OpenStream, AcceptStream, Ping, GoAway
    MaxId,         \* math.MaxUint32
    QueueSize,     \* capacity of sendCh
    Window,        \* frames the connection holds; a pipe holds none
    AcceptBacklog, \* capacity of acceptCh
    MaxPings       \* bound: calls of Ping at each end

Ends == {"client", "server"}
Peer(e) == IF e = "client" THEN "server" ELSE "client"

(* A task is a goroutine at one end: an end and a name. *)
Tasks == Openers \cup Acceptors \cup Pingers \cup Leavers
recv(e) == <<e, "recv">>
nobody == <<"nobody", "">>

ASSUME TaskAssumption ==
    Tasks \subseteq Ends \X STRING /\ \A e \in Ends : recv(e) \notin Tasks
ASSUME BoundAssumption ==
    /\ MaxId \in Nat \ {0} /\ QueueSize \in Nat \ {0} /\ Window \in Nat
    /\ AcceptBacklog \in Nat \ {0} /\ MaxPings \in [Ends -> Nat]

VARIABLES
    pc, req,        \* of each task, and the frame its call sends
    nextStreamID, streams, acceptCh, streamLock,
    resets,         \* the streams of an end that the peer has refused
    localGoAway, remoteGoAway,
    pingID, pings,
    sendCh,
    writing,        \* whose frame send is writing
    wire,           \* the frames of an end that its peer has yet to read
    out,            \* what recv waits to put into sendCh
    failed,         \* has recv ended with a protocol error?
    late            \* history: the streams registered after the peer's go-away

taskVars == <<pc, req>>
streamVars == <<streams, acceptCh, streamLock, resets, late>>
awayVars == <<localGoAway, remoteGoAway>>
pingVars == <<pingID, pings>>
queueVars == <<sendCh, writing, wire>>
recvVars == <<out, failed>>
vars == <<taskVars, nextStreamID, streamVars, awayVars, pingVars, queueVars, recvVars>>

Goto(t, l) == pc' = [pc EXCEPT ![t] = l]
Frame(what, id, by) == [what |-> what, id |-> id, by |-> by]
NoFrame == Frame("none", 0, nobody)
Asks(t, what, id) == req' = [req EXCEPT ![t] = Frame(what, id, t)]

(* newSession *)
FirstId(e) == IF e = "client" THEN 1 ELSE 2
Init ==
    /\ pc = [t \in Tasks |-> "idle"] /\ req = [t \in Tasks |-> NoFrame]
    /\ nextStreamID = [e \in Ends |-> FirstId(e)]
    /\ streams = [e \in Ends |-> {}] /\ acceptCh = [e \in Ends |-> <<>>]
    /\ streamLock = [e \in Ends |-> FALSE]
    /\ resets = [e \in Ends |-> {}] /\ late = [e \in Ends |-> {}]
    /\ localGoAway = [e \in Ends |-> FALSE] /\ remoteGoAway = [e \in Ends |-> FALSE]
    /\ pingID = [e \in Ends |-> 0] /\ pings = [e \in Ends |-> {}]
    /\ sendCh = [e \in Ends |-> <<>>] /\ writing = [e \in Ends |-> nobody]
    /\ wire = [e \in Ends |-> <<>>]
    /\ out = [e \in Ends |-> NoFrame] /\ failed = [e \in Ends |-> FALSE]

-----------------------------------------------------------------------------
(* OpenStream, up to its waitForSend; once refused a user does not retry. *)

OpenCheck(t) ==
    /\ pc[t] = "idle"
    /\ Goto(t, IF remoteGoAway[t[1]] THEN "refused" ELSE "load")
    /\ UNCHANGED <<req, nextStreamID, streamVars, awayVars, pingVars, queueVars, recvVars>>

(* GET_ID, or ErrStreamsExhausted *)
OpenLoad(t) ==
    /\ pc[t] = "load"
    /\ \/ /\ nextStreamID[t[1]] >= MaxId - 1
          /\ req' = [req EXCEPT ![t] = NoFrame]
          /\ Goto(t, "refused")
       \/ /\ nextStreamID[t[1]] < MaxId - 1
          /\ Asks(t, "syn", nextStreamID[t[1]])
          /\ Goto(t, "swap")
    /\ UNCHANGED <<nextStreamID, streamVars, awayVars, pingVars, queueVars, recvVars>>

(* Mutant: the id is stored, whoever took it meanwhile. *)
OpenStore(t) ==
    /\ pc[t] = "swap"
    /\ nextStreamID' = [nextStreamID EXCEPT ![t[1]] = (req[t].id + 2) % (MaxId + 1)]
    /\ Goto(t, "register")
    /\ UNCHANGED <<req, streamVars, awayVars, pingVars, queueVars, recvVars>>

(* CompareAndSwapUint32 *)
OpenSwap(t) ==
    /\ pc[t] = "swap"
    /\ \/ /\ nextStreamID[t[1]] = req[t].id
          /\ nextStreamID' = [nextStreamID EXCEPT ![t[1]] = (@ + 2) % (MaxId + 1)]
          /\ Goto(t, "register")
       \/ /\ nextStreamID[t[1]] # req[t].id
          /\ Goto(t, "load")
          /\ UNCHANGED nextStreamID
    /\ UNCHANGED <<req, streamVars, awayVars, pingVars, queueVars, recvVars>>

OpenRegister(t) ==
    /\ pc[t] = "register"
    /\ ~streamLock[t[1]]
    /\ streams' = [streams EXCEPT ![t[1]] = @ \cup {req[t].id}]
    /\ late' = [late EXCEPT ![t[1]] = IF remoteGoAway[t[1]] THEN @ \cup {req[t].id} ELSE @]
    /\ Goto(t, "enqueue")
    /\ UNCHANGED <<req, nextStreamID, acceptCh, streamLock, resets, awayVars, pingVars, queueVars, recvVars>>

-----------------------------------------------------------------------------
(* AcceptStream, Ping and GoAway, up to their waitForSend *)

AcceptStream(t) ==
    /\ pc[t] = "idle"
    /\ acceptCh[t[1]] # <<>>
    /\ Asks(t, "ack", Head(acceptCh[t[1]]))
    /\ acceptCh' = [acceptCh EXCEPT ![t[1]] = Tail(@)]
    /\ Goto(t, "enqueue")
    /\ UNCHANGED <<nextStreamID, streams, streamLock, resets, late, awayVars, pingVars, queueVars, recvVars>>

(* By a user, or by keepalive whenever its interval is over. *)
Ping(t) ==
    /\ pc[t] = "idle"
    /\ pingID[t[1]] < MaxPings[t[1]]
    /\ Asks(t, "ping", pingID[t[1]])
    /\ pings' = [pings EXCEPT ![t[1]] = @ \cup {pingID[t[1]]}]
    /\ pingID' = [pingID EXCEPT ![t[1]] = @ + 1]
    /\ Goto(t, "enqueue")
    /\ UNCHANGED <<nextStreamID, streamVars, awayVars, queueVars, recvVars>>

PingReturns(t) ==
    /\ pc[t] = "answer"
    /\ req[t].id \notin pings[t[1]]
    /\ Goto(t, "idle")
    /\ req' = [req EXCEPT ![t] = NoFrame]
    /\ UNCHANGED <<nextStreamID, streamVars, awayVars, pingVars, queueVars, recvVars>>

(* Mutant: the peer is told, and its streams are still taken. *)
GoAwayUnset(t) ==
    /\ pc[t] = "idle"
    /\ Asks(t, "goaway", 0)
    /\ Goto(t, "enqueue")
    /\ UNCHANGED <<nextStreamID, streamVars, awayVars, pingVars, queueVars, recvVars>>

GoAway(t) ==
    /\ pc[t] = "idle"
    /\ localGoAway' = [localGoAway EXCEPT ![t[1]] = TRUE]
    /\ Asks(t, "goaway", 0)
    /\ Goto(t, "enqueue")
    /\ UNCHANGED <<nextStreamID, streamVars, remoteGoAway, pingVars, queueVars, recvVars>>

-----------------------------------------------------------------------------
(* waitForSendErr and send *)

Room(e) == Len(sendCh[e]) < QueueSize

Enqueue(t) ==
    /\ pc[t] = "enqueue"
    /\ Room(t[1])
    /\ sendCh' = [sendCh EXCEPT ![t[1]] = Append(@, req[t])]
    /\ Goto(t, "await")
    /\ UNCHANGED <<req, nextStreamID, streamVars, awayVars, pingVars, writing, wire, recvVars>>

SendTake(e) ==
    /\ writing[e] = nobody
    /\ sendCh[e] # <<>>
    /\ writing' = [writing EXCEPT ![e] = Head(sendCh[e]).by]
    /\ wire' = [wire EXCEPT ![e] = Append(@, Head(sendCh[e]))]
    /\ sendCh' = [sendCh EXCEPT ![e] = Tail(@)]
    /\ UNCHANGED <<taskVars, nextStreamID, streamVars, awayVars, pingVars, recvVars>>

(* The connection took the frame, or the peer has read it; its sender goes
   on.  One call of GoAway per goroutine is enough. *)
Replied(t) ==
    CASE req[t].what = "ping" -> "answer" [] req[t].what = "goaway" -> "done" [] OTHER -> "idle"
SendDone(e) ==
    /\ writing[e] # nobody
    /\ Len(wire[e]) <= Window
    /\ pc' = [t \in Tasks |-> IF t = writing[e] THEN Replied(t) ELSE pc[t]]
    /\ req' = [t \in Tasks |-> IF t = writing[e] /\ req[t].what # "ping" THEN NoFrame ELSE req[t]]
    /\ writing' = [writing EXCEPT ![e] = nobody]
    /\ UNCHANGED <<nextStreamID, streamVars, awayVars, pingVars, sendCh, wire, recvVars>>

-----------------------------------------------------------------------------
(* recv *)

Arrived(e) == Head(wire[Peer(e)]).id
Arrives(e, what) ==
    /\ ~failed[e] /\ out[e] = NoFrame
    /\ wire[Peer(e)] # <<>> /\ Head(wire[Peer(e)]).what = what
    /\ wire' = [wire EXCEPT ![Peer(e)] = Tail(@)]
Answer(e, what) == out' = [out EXCEPT ![e] = Frame(what, Arrived(e), recv(e))]

(* incomingStream: a stream is refused after a go-away, or when the backlog
   is full, and then streamLock is held until the refusal is queued. *)
RecvSyn(e) ==
    /\ Arrives(e, "syn")
    /\ \/ /\ localGoAway[e]
          /\ Answer(e, "rst")
          /\ UNCHANGED <<streams, acceptCh, streamLock, failed>>
       \/ /\ ~localGoAway[e] /\ Arrived(e) \in streams[e]
          /\ failed' = [failed EXCEPT ![e] = TRUE]
          /\ UNCHANGED <<streams, acceptCh, streamLock, out>>
       \/ /\ ~localGoAway[e] /\ Arrived(e) \notin streams[e]
          /\ Len(acceptCh[e]) < AcceptBacklog
          /\ streams' = [streams EXCEPT ![e] = @ \cup {Arrived(e)}]
          /\ acceptCh' = [acceptCh EXCEPT ![e] = Append(@, Arrived(e))]
          /\ UNCHANGED <<streamLock, out, failed>>
       \/ /\ ~localGoAway[e] /\ Arrived(e) \notin streams[e]
          /\ Len(acceptCh[e]) >= AcceptBacklog
          /\ Answer(e, "rst")
          /\ streamLock' = [streamLock EXCEPT ![e] = TRUE]
          /\ UNCHANGED <<streams, acceptCh, failed>>
    /\ UNCHANGED <<taskVars, nextStreamID, resets, late, awayVars, pingVars, sendCh, writing>>

(* The streams here are never closed, so the one accepted is there. *)
RecvAck(e) ==
    /\ Arrives(e, "ack")
    /\ UNCHANGED <<taskVars, nextStreamID, streamVars, awayVars, pingVars, sendCh, writing, recvVars>>

(* processFlags: the stream is reset and leaves the table (closeStream). *)
RecvRst(e) ==
    /\ Arrives(e, "rst")
    /\ streams' = [streams EXCEPT ![e] = @ \ {Arrived(e)}]
    /\ resets' = [resets EXCEPT ![e] = @ \cup {Arrived(e)}]
    /\ UNCHANGED <<taskVars, nextStreamID, acceptCh, streamLock, late, awayVars, pingVars, sendCh, writing, recvVars>>

(* handlePing *)
RecvPing(e) ==
    /\ Arrives(e, "ping")
    /\ Answer(e, "pong")
    /\ UNCHANGED <<taskVars, nextStreamID, streamVars, awayVars, pingVars, sendCh, writing, failed>>

RecvPong(e) ==
    /\ Arrives(e, "pong")
    /\ pings' = [pings EXCEPT ![e] = @ \ {Arrived(e)}]
    /\ UNCHANGED <<taskVars, nextStreamID, streamVars, awayVars, pingID, sendCh, writing, recvVars>>

(* handleGoAway: goAwayNormal *)
RecvGoAway(e) ==
    /\ Arrives(e, "goaway")
    /\ remoteGoAway' = [remoteGoAway EXCEPT ![e] = TRUE]
    /\ UNCHANGED <<taskVars, nextStreamID, streamVars, localGoAway, pingVars, sendCh, writing, recvVars>>

(* Mutant: it does not wait; a frame that finds no room is dropped. *)
SendNoWaitDrops(e) ==
    /\ out[e] # NoFrame
    /\ sendCh' = [sendCh EXCEPT ![e] = IF Room(e) THEN Append(@, out[e]) ELSE @]
    /\ out' = [out EXCEPT ![e] = NoFrame]
    /\ streamLock' = [streamLock EXCEPT ![e] = FALSE]
    /\ UNCHANGED <<taskVars, nextStreamID, streams, acceptCh, resets, late, awayVars, pingVars, writing, wire, failed>>

(* It waits for room all the same. *)
SendNoWait(e) ==
    /\ out[e] # NoFrame
    /\ Room(e)
    /\ sendCh' = [sendCh EXCEPT ![e] = Append(@, out[e])]
    /\ out' = [out EXCEPT ![e] = NoFrame]
    /\ streamLock' = [streamLock EXCEPT ![e] = FALSE]
    /\ UNCHANGED <<taskVars, nextStreamID, streams, acceptCh, resets, late, awayVars, pingVars, writing, wire, failed>>

-----------------------------------------------------------------------------
Recv(e) == RecvSyn(e) \/ RecvAck(e) \/ RecvRst(e) \/ RecvPing(e) \/ RecvPong(e)
           \/ RecvGoAway(e) \/ SendNoWait(e)

Next ==
    \/ \E t \in Openers : OpenCheck(t) \/ OpenLoad(t) \/ OpenSwap(t) \/ OpenRegister(t)
    \/ \E t \in Acceptors : AcceptStream(t)
    \/ \E t \in Pingers : Ping(t) \/ PingReturns(t)
    \/ \E t \in Leavers : GoAway(t)
    \/ \E t \in Tasks : Enqueue(t)
    \/ \E e \in Ends : SendTake(e) \/ SendDone(e) \/ Recv(e)

Spec == Init /\ [][Next]_vars

-----------------------------------------------------------------------------
(* Where the frames of kind what with this id, sent by e, are. *)
Under(e, what, id) ==
    {<<"sendCh", i>> : i \in {i \in 1..Len(sendCh[e]) : sendCh[e][i].what = what /\ sendCh[e][i].id = id}}
    \cup {<<"wire", i>> : i \in {i \in 1..Len(wire[e]) : wire[e][i].what = what /\ wire[e][i].id = id}}
    \cup {<<"out", i>> : i \in {i \in {1} : out[e].what = what /\ out[e].id = id}}
If(place, holds) == IF holds THEN {<<place, 0>>} ELSE {}

Opened(e) == {id \in 1..MaxId : id < nextStreamID[e] /\ id % 2 = FirstId(e) % 2}
Opening(e, id, where) ==
    {t \in Openers : t[1] = e /\ pc[t] \in where /\ req[t].what = "syn" /\ req[t].id = id}

StreamPlaces(e, id) ==
    {<<"opening", t>> : t \in Opening(e, id, {"register", "enqueue"})}
    \cup Under(e, "syn", id) \cup If("known", id \in streams[Peer(e)])
    \cup {<<"rst", x>> : x \in Under(Peer(e), "rst", id)} \cup If("reset", id \in resets[e])
StreamsInOnePlace ==
    \A e \in Ends :
        /\ ~failed[e]
        /\ \A id \in Opened(e) :
              /\ \E x \in StreamPlaces(e, id) : StreamPlaces(e, id) = {x}
              /\ id \in streams[e] <=> id \notin resets[e] /\ Opening(e, id, {"register"}) = {}

PingPlaces(t) ==
    LET e == t[1] id == req[t].id IN
        If("asking", pc[t] = "enqueue") \cup Under(e, "ping", id)
        \cup {<<"pong", x>> : x \in Under(Peer(e), "pong", id)}
        \cup If("answered", id \notin pings[e])
PingsInOnePlace ==
    \A t \in Pingers : req[t].what = "ping" => \E x \in PingPlaces(t) : PingPlaces(t) = {x}

(* Every id that OpenStream took (session.go:128-133) is in one place: its
   stream is still to be announced, announced to the peer, known to it,
   refused with the refusal under way, or refused to the knowledge of its
   opener, who has then forgotten it.  No id is taken twice and no end takes
   the other's for its own.  A ping likewise: a Ping that returns has the
   answer to its own request, however many wait at its end. *)
OneFate == StreamsInOnePlace /\ PingsInOnePlace

(* A stream registered after the peer's go-away was received, by an
   OpenStream that looked for it before (session.go:121), is refused by the
   peer (session.go:464): it is never accepted. *)
LateRefused == \A e \in Ends : late[e] \cap streams[Peer(e)] = {}

(* Both recv goroutines wait for room in sendCh, both send goroutines for
   the other end to read: nothing moves any more. *)
Stuck(e) == out[e] # NoFrame /\ ~Room(e) /\ writing[e] # nobody /\ Len(wire[e]) > Window
Crossed == \A e \in Ends : Stuck(e)

(* What has begun and may go on: a call, a frame in sendCh, recv. *)
Handled == {"syn", "ack", "rst", "ping", "pong", "goaway"}
CallMoves(t) ==
    \/ pc[t] \in {"load", "swap"}
    \/ pc[t] = "register" /\ ~streamLock[t[1]]
    \/ pc[t] = "enqueue" /\ Room(t[1])
    \/ pc[t] = "answer" /\ req[t].id \notin pings[t[1]]
SendMoves(e) ==
    \/ writing[e] = nobody /\ sendCh[e] # <<>>
    \/ writing[e] # nobody /\ Len(wire[e]) <= Window
RecvMoves(e) ==
    \/ out[e] # NoFrame /\ Room(e)
    \/ /\ out[e] = NoFrame /\ ~failed[e]
       /\ wire[Peer(e)] # <<>> /\ Head(wire[Peer(e)]).what \in Handled
Moves == (\E t \in Tasks : CallMoves(t)) \/ (\E e \in Ends : SendMoves(e) \/ RecvMoves(e))

(* Unless a call or a frame can still go on, every call has returned, a Ping
   with its answer: nobody waits for a call that has yet to be made.  The only
   other way for two sessions to stop is that both ends have come to wait for
   each other in sendNoWait (session.go:279). *)
Returned(t) == pc[t] \in {"idle", "done", "refused"}
StopsReturned == Moves \/ (\A t \in Tasks : Returned(t)) \/ Crossed
=============================================================================
