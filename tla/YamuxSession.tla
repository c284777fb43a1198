---------------------------- MODULE YamuxSession ----------------------------
(***************************************************************************)
(* The goroutines of one yamux session and the locks, channels and flags   *)
(* they share (session.go): recv, send, and the users that close the       *)
(* session, open and accept a stream, announce a go-away, and close, write *)
(* and read streams.  The peer is whatever may arrive on the connection.   *)
(*                                                                         *)
(* A region under a lock is one step when it cannot block inside; one that *)
(* does takes the lock and gives it back in steps of their own.            *)
(***************************************************************************)
EXTENDS Integers, Sequences

CONSTANTS
    Old,           \* the streams that are open when the model begins
    Incoming,      \* the streams the peer may open
    Fresh,         \* the stream OpenStream creates
    Roles,         \* which users there may be: one of these sets
    Kinds,         \* which frames the peer sends
    QueueSize,     \* capacity of sendCh
    AcceptBacklog, \* capacity of acceptCh
    MaxFrames,     \* bound: frames the peer sends
    MaxCalls       \* bound: Writes, and Reads that update the window, per stream

Streams == Old \cup Incoming \cup {Fresh}
Errors == {"ErrSessionShutdown", "EPIPE", "ErrRead", "ErrUnexpectedFlag", "ErrDuplicateStream"}
ASSUME StreamAssumption ==
    /\ Old \cap Incoming = {} /\ Fresh \notin Old \cup Incoming
    /\ Streams \cap (Errors \cup {"session", "shutdown", "stream", "none", "nil"}) = {}
ASSUME BoundAssumption ==
    /\ QueueSize \in Nat \ {0} /\ AcceptBacklog \in Nat \ {0}
    /\ MaxFrames \in Nat /\ MaxCalls \in Nat
ASSUME KindAssumption ==
    /\ Kinds \subseteq {"FIN", "RST", "SYN", "ping", "goaway", "error"}
    /\ Roles \subseteq SUBSET {"user", "open", "accept", "goaway", "close", "write", "update"}

(* A task is a goroutine at work in one function. *)
recv == <<"recv", "session">>
send == <<"send", "session">>
user == <<"user", "session">>        \* Session.Close
open == <<"open", "session">>        \* OpenStream
accept == <<"accept", "session">>    \* AcceptStream
announce == <<"goaway", "session">>  \* GoAway
Closers == {<<"close", s>> : s \in Old}
Writers == {<<"write", s>> : s \in Old}
Updaters == {<<"update", s>> : s \in Old}  \* Read, which calls sendWindowUpdate
free == <<"free", "session">>

Users == {t \in {user, open, accept, announce} \cup Closers \cup Writers \cup Updaters :
              t[1] \in UNION Roles}
Senders == Users \ {user}            \* the callers of waitForSendErr
Tasks == Users \cup {recv, send}
Repeaters == Writers \cup Updaters   \* they call again
Controllers == Closers \cup Updaters \* they hold controlHdrLock while they wait

(* The reply channel of a call: Close and the window updates of a stream share its
   controlErr, each Write uses sendErr, and the others have one of their own. *)
Chan(t) == IF t \in Controllers THEN <<"control", t[2]>> ELSE t
Channels == {Chan(t) : t \in Senders}

VARIABLES
    shutdown,      \* shutdownCh is closed; Session.shutdown, which only Close reads, goes with it
    shutdownErr,
    connClosed,    \* has Close closed the connection?
    cause,         \* the error recv or send gives to exitErr
    lock,          \* the holder of shutdownLock, streamLock, each stateLock
    left,          \* the streams Close has yet to force-close
    controlHdrLock,
    streams,       \* Session.streams
    state,         \* Stream.state; the states that Close ends alike are "Open"
    acceptCh,
    accepted,      \* what AcceptStream took: a stream or an error
    sendCh,
    errCh,         \* the reply channels, capacity 1
    item,          \* what send is writing
    written,       \* history: the items handed to the connection
    late,          \* history: the items whose callers returned before their reply
    calls, result, \* a sender's calls of waitForSendErr; what the last returned
    localGoAway, remoteGoAway,
    hungUp,        \* has the peer closed the connection?
    frame,         \* what recv is handling
    frames,        \* bound: frames received
    pc

sessionVars == <<shutdown, shutdownErr, connClosed, cause>>
lockVars    == <<lock, left, controlHdrLock>>
streamVars  == <<streams, state, acceptCh, accepted>>
queueVars   == <<sendCh, errCh, item, written, late>>
callVars    == <<calls, result>>
peerVars    == <<hungUp, frame, frames, localGoAway, remoteGoAway>>
vars == <<sessionVars, lockVars, streamVars, queueVars, callVars, peerVars, pc>>

Goto(t, l) == pc' = [pc EXCEPT ![t] = l]
Free(l) == lock[l] = free
NoFrame == [kind |-> "none", id |-> "session"]
NoItem == [by |-> free, no |-> 0, what |-> "none"]

Init ==
    /\ shutdown = FALSE /\ shutdownErr = "nil" /\ connClosed = FALSE
    /\ cause = [t \in {recv, send} |-> "nil"]
    /\ lock = [l \in {"shutdown", "stream"} \cup Streams |-> free]
    /\ left = {} /\ controlHdrLock = [s \in Old |-> free]
    /\ streams = Old
    /\ state = [s \in Streams |-> IF s \in Old THEN "Open" ELSE "none"]
    /\ acceptCh = <<>> /\ accepted = "none"
    /\ sendCh = <<>> /\ item = NoItem /\ written = {} /\ late = {}
    /\ errCh = [c \in Channels |-> "empty"]
    /\ calls = [t \in Senders |-> 0]
    /\ result = [t \in Senders |-> "none"]
    /\ localGoAway = FALSE /\ remoteGoAway = FALSE
    /\ hungUp = FALSE /\ frame = NoFrame /\ frames = 0
    /\ \E present \in Roles :
          pc = [t \in Tasks |-> IF t \in {recv, send} \/ t[1] \in present THEN "idle" ELSE "done"]

-----------------------------------------------------------------------------
(* exitErr and Close *)

CloseCall ==
    /\ user \in Users
    /\ pc[user] = "idle"
    /\ Goto(user, "close")
    /\ UNCHANGED <<sessionVars, lockVars, streamVars, queueVars, callVars, peerVars>>

(* Mutants, here and below, are the slips the runs are shown to catch. *)
KeepFirst(err) == IF shutdownErr = "nil" THEN err ELSE shutdownErr

ExitErr(t) ==
    /\ pc[t] = "exit"
    /\ Free("shutdown")
    /\ shutdownErr' = KeepFirst(cause[t])
    /\ Goto(t, "close")
    /\ UNCHANGED <<shutdown, connClosed, cause, lockVars, streamVars, queueVars, callVars, peerVars>>

(* Close takes shutdownLock, and ends if Session.shutdown is set. *)
CloseBegin(t) ==
    /\ pc[t] = "close"
    /\ Free("shutdown")
    /\ \/ /\ shutdown
          /\ Goto(t, "done")
          /\ UNCHANGED lock
       \/ /\ ~shutdown
          /\ lock' = [lock EXCEPT !["shutdown"] = t]
          /\ Goto(t, "error")
    /\ UNCHANGED <<sessionVars, left, controlHdrLock, streamVars, queueVars, callVars, peerVars>>

(* It sets the error, then closes shutdownCh, which others see without the lock. *)
NotifyFirst(t) ==
    /\ \/ /\ pc[t] = "error"
          /\ shutdown' = TRUE
          /\ Goto(t, "notify")
          /\ UNCHANGED shutdownErr
       \/ /\ pc[t] = "notify"
          /\ shutdownErr' = KeepFirst("ErrSessionShutdown")
          /\ Goto(t, "hangup")
          /\ UNCHANGED shutdown
    /\ UNCHANGED <<connClosed, cause, lockVars, streamVars, queueVars, callVars, peerVars>>

CloseNotify(t) ==
    /\ \/ /\ pc[t] = "error"
          /\ shutdownErr' = KeepFirst("ErrSessionShutdown")
          /\ Goto(t, "notify")
          /\ UNCHANGED shutdown
       \/ /\ pc[t] = "notify"
          /\ shutdown' = TRUE
          /\ Goto(t, "hangup")
          /\ UNCHANGED shutdownErr
    /\ UNCHANGED <<connClosed, cause, lockVars, streamVars, queueVars, callVars, peerVars>>

HangUpForgotten(t) ==
    /\ pc[t] = "hangup"
    /\ Goto(t, "lock")
    /\ UNCHANGED <<sessionVars, lockVars, streamVars, queueVars, callVars, peerVars>>

(* conn.Close *)
HangUp(t) ==
    /\ pc[t] = "hangup"
    /\ connClosed' = TRUE
    /\ Goto(t, "lock")
    /\ UNCHANGED <<shutdown, shutdownErr, cause, lockVars, streamVars, queueVars, callVars, peerVars>>

CloseLock(t) ==
    /\ pc[t] = "lock"
    /\ Free("stream")
    /\ lock' = [lock EXCEPT !["stream"] = t]
    /\ left' = streams
    /\ Goto(t, "sweep")
    /\ UNCHANGED <<sessionVars, controlHdrLock, streamVars, queueVars, callVars, peerVars>>

(* forceClose takes the stateLock while Close holds the other two. *)
ForceClose(t, s) ==
    /\ pc[t] = "sweep"
    /\ s \in left
    /\ Free(s)
    /\ state' = [state EXCEPT ![s] = "Closed"]
    /\ left' = left \ {s}
    /\ UNCHANGED <<sessionVars, lock, controlHdrLock, streams, acceptCh, accepted, queueVars, callVars,
                   peerVars, pc>>

CloseEnd(t) ==
    /\ pc[t] = "sweep"
    /\ left = {}
    /\ lock' = [lock EXCEPT !["stream"] = free, !["shutdown"] = free]
    /\ Goto(t, "done")
    /\ UNCHANGED <<sessionVars, left, controlHdrLock, streamVars, queueVars, callVars, peerVars>>

Close(t) == \/ ExitErr(t) \/ CloseBegin(t) \/ CloseNotify(t) \/ HangUp(t) \/ CloseLock(t)
            \/ CloseEnd(t) \/ \E s \in Streams : ForceClose(t, s)

-----------------------------------------------------------------------------
(* send, and the functions that wait for it *)

Room == Len(sendCh) < QueueSize
Item(t, what) == [by |-> t, no |-> IF t = recv THEN 0 ELSE calls[t], what |-> what]
What(t) == CASE t = open -> "SYN" [] t = accept -> "ACK" [] t = announce -> "goaway"
             [] t \in Closers -> "FIN" [] t \in Updaters -> "update" [] OTHER -> "data"

(* waitForSendErr: a call begins, its item goes into sendCh, its reply comes,
   or shutdownCh ends it in either select.  Write and Read may be called again. *)
NewCall(t) ==
    /\ calls' = [calls EXCEPT ![t] = @ + 1]
    /\ result' = [result EXCEPT ![t] = "none"]
Return(t, err) ==
    /\ result' = [result EXCEPT ![t] = err]
    /\ controlHdrLock' = [s \in Old |-> IF controlHdrLock[s] = t THEN free ELSE controlHdrLock[s]]
    /\ Goto(t, IF t \in Repeaters THEN "idle" ELSE "done")
    /\ UNCHANGED <<lock, left>>
Own(t) == Item(t, What(t))

Enqueue(t) ==
    /\ pc[t] = "enqueue"
    /\ Room
    /\ sendCh' = Append(sendCh, Own(t))
    /\ Goto(t, "await")
    /\ UNCHANGED <<sessionVars, lockVars, streamVars, errCh, item, written, late, callVars, peerVars>>

Await(t) ==
    /\ pc[t] = "await"
    /\ errCh[Chan(t)] # "empty"
    /\ errCh' = [errCh EXCEPT ![Chan(t)] = "empty"]
    /\ late' = IF errCh[Chan(t)] = "nil" THEN late \cup ({Own(t)} \ written) ELSE late
    /\ Return(t, errCh[Chan(t)])
    /\ UNCHANGED <<sessionVars, streamVars, sendCh, item, written, calls, peerVars>>

GiveUpBeforeQueued(t) ==
    /\ pc[t] = "enqueue"
    /\ shutdown
    /\ Return(t, "ErrSessionShutdown")
    /\ UNCHANGED <<sessionVars, streamVars, queueVars, calls, peerVars>>

GiveUp(t) ==
    /\ pc[t] \in {"enqueue", "await"}
    /\ shutdown
    /\ late' = IF pc[t] = "await" THEN late \cup {Own(t)} ELSE late
    /\ Return(t, "ErrSessionShutdown")
    /\ UNCHANGED <<sessionVars, streamVars, sendCh, errCh, item, written, calls, peerVars>>

WaitForSend(t) == Enqueue(t) \/ Await(t) \/ GiveUp(t)

(* asyncSendErr: the reply is dropped when there is one already. *)
Reply(err) ==
    errCh' = [c \in Channels |-> IF c = Chan(item.by) /\ errCh[c] = "empty" THEN err ELSE errCh[c]]

SendTake ==
    /\ pc[send] = "idle"
    /\ sendCh # <<>>
    /\ item' = Head(sendCh)
    /\ sendCh' = Tail(sendCh)
    /\ Goto(send, "write")
    /\ UNCHANGED <<sessionVars, lockVars, streamVars, errCh, written, late, callVars, peerVars>>

(* The write takes as long as the peer lets it. *)
SendWrite ==
    /\ pc[send] = "write"
    /\ ~connClosed
    /\ written' = written \cup {item}
    /\ Reply("nil")
    /\ Goto(send, "idle")
    /\ UNCHANGED <<sessionVars, lockVars, streamVars, sendCh, item, late, callVars, peerVars>>

SendErrorReturns ==
    /\ pc[send] = "write"
    /\ connClosed \/ hungUp
    /\ Reply("EPIPE")
    /\ Goto(send, "done")
    /\ UNCHANGED <<sessionVars, lockVars, streamVars, sendCh, item, written, late, callVars,
                   peerVars>>

SendError ==
    /\ pc[send] = "write"
    /\ connClosed \/ hungUp
    /\ Reply("EPIPE")
    /\ cause' = [cause EXCEPT ![send] = "EPIPE"]
    /\ Goto(send, "exit")
    /\ UNCHANGED <<shutdown, shutdownErr, connClosed, lockVars, streamVars, sendCh, item, written,
                   late, callVars, peerVars>>

SendStop ==
    /\ pc[send] = "idle"
    /\ shutdown
    /\ Goto(send, "done")
    /\ UNCHANGED <<sessionVars, lockVars, streamVars, queueVars, callVars, peerVars>>

-----------------------------------------------------------------------------
(* The users *)

OpenStream ==
    /\ open \in Users
    /\ pc[open] = "idle"
    /\ Goto(open, IF shutdown \/ remoteGoAway THEN "done" ELSE "register")
    /\ UNCHANGED <<sessionVars, lockVars, streamVars, queueVars, callVars, peerVars>>

OpenRegister ==
    /\ open \in Users
    /\ pc[open] = "register"
    /\ Free("stream")
    /\ streams' = streams \cup {Fresh}
    /\ state' = [state EXCEPT ![Fresh] = "Open"]
    /\ NewCall(open)
    /\ Goto(open, "enqueue")
    /\ UNCHANGED <<sessionVars, lockVars, acceptCh, accepted, queueVars, peerVars>>

(* AcceptStream: the two cases of its select. *)
AcceptStream ==
    /\ accept \in Users
    /\ pc[accept] = "idle"
    /\ acceptCh # <<>>
    /\ accepted' = Head(acceptCh)
    /\ acceptCh' = Tail(acceptCh)
    /\ NewCall(accept)
    /\ Goto(accept, "enqueue")
    /\ UNCHANGED <<sessionVars, lockVars, streams, state, queueVars, peerVars>>

AcceptShutdown ==
    /\ accept \in Users
    /\ pc[accept] = "idle"
    /\ shutdown
    /\ accepted' = shutdownErr
    /\ Goto(accept, "done")
    /\ UNCHANGED <<sessionVars, lockVars, streams, state, acceptCh, queueVars, callVars, peerVars>>

GoAway ==
    /\ announce \in Users
    /\ pc[announce] = "idle"
    /\ localGoAway' = TRUE
    /\ NewCall(announce)
    /\ Goto(announce, "enqueue")
    /\ UNCHANGED <<sessionVars, lockVars, streamVars, queueVars, hungUp, frame, frames, remoteGoAway>>

(* Stream.Close: from RemoteClose it unregisters the stream, and takes
   streamLock while it holds the stateLock. *)
StreamClose(t) ==
    LET s == t[2]
    IN  /\ pc[t] = "idle"
        /\ Free(s)
        /\ \/ /\ state[s] = "Open"
              /\ state' = [state EXCEPT ![s] = "LocalClose"]
              /\ NewCall(t)
              /\ Goto(t, "control")
              /\ UNCHANGED lock
           \/ /\ state[s] = "RemoteClose"
              /\ state' = [state EXCEPT ![s] = "Closed"]
              /\ lock' = [lock EXCEPT ![s] = t]
              /\ Goto(t, "unregister")
              /\ UNCHANGED callVars
           \/ /\ state[s] \in {"LocalClose", "Closed", "Reset"}
              /\ Goto(t, "done")
              /\ UNCHANGED <<state, lock, callVars>>
        /\ UNCHANGED <<sessionVars, left, controlHdrLock, streams, acceptCh, accepted, queueVars, peerVars>>

StreamUnregister(t) ==
    /\ pc[t] = "unregister"
    /\ Free("stream")
    /\ streams' = streams \ {t[2]}
    /\ lock' = [lock EXCEPT ![t[2]] = free]
    /\ NewCall(t)
    /\ Goto(t, "control")
    /\ UNCHANGED <<sessionVars, left, controlHdrLock, state, acceptCh, accepted, queueVars, peerVars>>

(* Stream.Read has read bytes and sends a window update, in any state it reads in. *)
StreamRead(t) ==
    LET s == t[2]
    IN  /\ pc[t] = "idle"
        /\ calls[t] < MaxCalls
        /\ Free(s)
        /\ \/ /\ state[s] = "Reset"
              /\ Goto(t, "done")
              /\ UNCHANGED callVars
           \/ /\ state[s] # "Reset"
              /\ NewCall(t)
              /\ Goto(t, "control")
        /\ UNCHANGED <<sessionVars, lockVars, streamVars, queueVars, peerVars>>

(* sendClose and sendWindowUpdate hold controlHdrLock until waitForSendErr returns;
   sendFlags takes the stateLock under it. *)
ControlUnlocked(t) ==
    /\ pc[t] = "control"
    /\ Free(t[2])
    /\ controlHdrLock' = [controlHdrLock EXCEPT ![t[2]] = t]
    /\ Goto(t, "enqueue")
    /\ UNCHANGED <<sessionVars, lock, left, streamVars, queueVars, callVars, peerVars>>

Control(t) ==
    /\ pc[t] = "control"
    /\ controlHdrLock[t[2]] = free
    /\ Free(t[2])
    /\ controlHdrLock' = [controlHdrLock EXCEPT ![t[2]] = t]
    /\ Goto(t, "enqueue")
    /\ UNCHANGED <<sessionVars, lock, left, streamVars, queueVars, callVars, peerVars>>

(* Stream.Write, while the window lasts. *)
StreamWrite(t) ==
    LET s == t[2]
    IN  /\ pc[t] = "idle"
        /\ calls[t] < MaxCalls
        /\ Free(s)
        /\ \/ /\ state[s] \in {"LocalClose", "Closed", "Reset"}
              /\ Goto(t, "done")
              /\ UNCHANGED callVars
           \/ /\ state[s] \in {"Open", "RemoteClose"}
              /\ NewCall(t)
              /\ Goto(t, "enqueue")
        /\ UNCHANGED <<sessionVars, lockVars, streamVars, queueVars, peerVars>>

-----------------------------------------------------------------------------
(* recv *)

Fails(err) ==
    /\ cause' = [cause EXCEPT ![recv] = err]
    /\ UNCHANGED <<shutdown, shutdownErr, connClosed>>

(* A header is read: a frame for a stream the peer may know of, or one for
   the session.  After Close, bufRead may hold some still. *)
RecvFrame(kind, s) ==
    /\ pc[recv] = "idle"
    /\ frames < MaxFrames
    /\ \/ kind \in {"FIN", "RST"} /\ state[s] # "none" /\ Goto(recv, "lookup")
       \/ kind = "SYN" /\ s \in Incoming /\ (state[s] = "none" \/ s \in streams)
            /\ Goto(recv, IF localGoAway THEN "refuse" ELSE "incoming")
       \/ kind = "ping" /\ s = Fresh /\ Goto(recv, "pong")
    /\ frame' = [kind |-> kind, id |-> s]
    /\ frames' = frames + 1
    /\ UNCHANGED <<sessionVars, lockVars, streamVars, queueVars, callVars, hungUp,
                   localGoAway, remoteGoAway>>

(* handleGoAway, normal. *)
RecvGoAway ==
    /\ pc[recv] = "idle"
    /\ "goaway" \in Kinds /\ frames < MaxFrames
    /\ frames' = frames + 1
    /\ remoteGoAway' = TRUE
    /\ UNCHANGED <<sessionVars, lockVars, streamVars, queueVars, callVars, hungUp, frame,
                   localGoAway, pc>>

(* The connection ends, or a header is invalid or a go-away with an error. *)
RecvError ==
    /\ pc[recv] = "idle"
    /\ \/ connClosed \/ hungUp
       \/ "error" \in Kinds /\ frames < MaxFrames
    /\ Fails("ErrRead")
    /\ Goto(recv, "exit")
    /\ UNCHANGED <<lockVars, streamVars, queueVars, callVars, peerVars>>

RecvLookup ==
    /\ pc[recv] = "lookup"
    /\ Free("stream")
    /\ Goto(recv, IF frame.id \in streams THEN "flags" ELSE "idle")
    /\ UNCHANGED <<sessionVars, lockVars, streamVars, queueVars, callVars, peerVars>>

(* processFlags: it, too, takes streamLock under the stateLock. *)
RecvFlags ==
    LET s == frame.id
    IN  /\ pc[recv] = "flags"
        /\ Free(s)
        /\ \/ /\ frame.kind = "FIN" /\ state[s] = "Open"
              /\ state' = [state EXCEPT ![s] = "RemoteClose"]
              /\ Goto(recv, "idle")
              /\ UNCHANGED <<lock, sessionVars, localGoAway>>
           \/ /\ frame.kind = "RST" \/ state[s] = "LocalClose"
              /\ state' = [state EXCEPT ![s] = IF frame.kind = "RST" THEN "Reset" ELSE "Closed"]
              /\ lock' = [lock EXCEPT ![s] = recv]
              /\ Goto(recv, "unregister")
              /\ UNCHANGED <<sessionVars, localGoAway>>
           \/ /\ frame.kind = "FIN" /\ state[s] \in {"RemoteClose", "Closed", "Reset"}
              /\ Fails("ErrUnexpectedFlag")
              /\ localGoAway' = TRUE
              /\ Goto(recv, "goaway")
              /\ UNCHANGED <<state, lock>>
        /\ UNCHANGED <<left, controlHdrLock, streams, acceptCh, accepted, queueVars, callVars, hungUp,
                       frame, frames, remoteGoAway>>

RecvUnregister ==
    /\ pc[recv] = "unregister"
    /\ Free("stream")
    /\ streams' = streams \ {frame.id}
    /\ lock' = [lock EXCEPT ![frame.id] = free]
    /\ Goto(recv, "idle")
    /\ UNCHANGED <<sessionVars, left, controlHdrLock, state, acceptCh, accepted, queueVars, callVars, peerVars>>

(* incomingStream, from streamLock on; sendNoWait comes before its release. *)
RecvIncoming ==
    LET s == frame.id
    IN  /\ pc[recv] = "incoming"
        /\ Free("stream")
        /\ \/ /\ s \in streams
              /\ Fails("ErrDuplicateStream")
              /\ localGoAway' = TRUE
              /\ lock' = [lock EXCEPT !["stream"] = recv]
              /\ Goto(recv, "goaway")
              /\ UNCHANGED streamVars
           \/ /\ s \notin streams /\ Len(acceptCh) < AcceptBacklog
              /\ streams' = streams \cup {s}
              /\ state' = [state EXCEPT ![s] = "Open"]
              /\ acceptCh' = Append(acceptCh, s)
              /\ Goto(recv, "idle")
              /\ UNCHANGED <<sessionVars, localGoAway, lock, accepted>>
           \/ /\ s \notin streams /\ Len(acceptCh) >= AcceptBacklog
              /\ lock' = [lock EXCEPT !["stream"] = recv]
              /\ Goto(recv, "refuse")
              /\ UNCHANGED <<sessionVars, localGoAway, streamVars>>
        /\ UNCHANGED <<left, controlHdrLock, queueVars, callVars, hungUp, frame, frames, remoteGoAway>>

(* sendNoWait by recv, with streamLock or without; recv then goes on, or
   ends for the error it has. *)
Unlocked == IF lock["stream"] = recv THEN [lock EXCEPT !["stream"] = free] ELSE lock

SendNoWait ==
    /\ pc[recv] \in {"pong", "refuse", "goaway"}
    /\ Room
    /\ sendCh' = Append(sendCh, Item(recv, pc[recv]))
    /\ lock' = Unlocked
    /\ Goto(recv, IF pc[recv] = "goaway" THEN "exit" ELSE "idle")
    /\ UNCHANGED <<sessionVars, left, controlHdrLock, streamVars, errCh, item, written, late, callVars,
                   peerVars>>

NoWaitBlocks == FALSE /\ UNCHANGED vars

NoWaitShutdown ==
    /\ pc[recv] \in {"pong", "refuse", "goaway"}
    /\ shutdown
    /\ lock' = Unlocked
    /\ \/ pc[recv] = "pong" /\ Goto(recv, "idle") /\ UNCHANGED sessionVars
       \/ pc[recv] = "refuse" /\ Goto(recv, "exit") /\ Fails("ErrSessionShutdown")
       \/ pc[recv] = "goaway" /\ Goto(recv, "exit") /\ UNCHANGED sessionVars
    /\ UNCHANGED <<left, controlHdrLock, streamVars, queueVars, callVars, peerVars>>

PeerHangsUp ==
    /\ ~hungUp
    /\ hungUp' = TRUE
    /\ UNCHANGED <<sessionVars, lockVars, streamVars, queueVars, callVars, frame, frames,
                   localGoAway, remoteGoAway, pc>>

-----------------------------------------------------------------------------
Recv == RecvError \/ RecvLookup \/ RecvFlags \/ RecvUnregister \/ RecvIncoming
          \/ SendNoWait \/ NoWaitShutdown
Send == SendTake \/ SendError \/ SendStop

Next ==
    \/ CloseCall \/ PeerHangsUp
    \/ \E t \in {user, recv, send} \cap Tasks : Close(t)
    \/ \E t \in Senders : WaitForSend(t)
    \/ OpenStream \/ OpenRegister \/ AcceptStream \/ AcceptShutdown \/ GoAway
    \/ \E t \in Closers \cap Users : StreamClose(t) \/ StreamUnregister(t)
    \/ \E t \in Writers \cap Users : StreamWrite(t)
    \/ \E t \in Updaters \cap Users : StreamRead(t)
    \/ \E t \in Controllers \cap Users : Control(t)
    \/ Send \/ SendWrite
    \/ Recv \/ RecvGoAway
    \/ \E kind \in Kinds, s \in Streams : RecvFrame(kind, s)

Spec == Init /\ [][Next]_vars

(* Every goroutine that can go on does.  Nothing makes a user begin, the peer
   send, be it an invalid header, or the connection take what is written. *)
Fairness ==
    /\ \A t \in {user, recv, send} \cap Tasks : WF_vars(Close(t))
    /\ \A t \in Senders : WF_vars(WaitForSend(t))
    /\ WF_vars(OpenRegister) /\ WF_vars(AcceptShutdown)
    /\ \A t \in Closers \cap Users : WF_vars(StreamUnregister(t))
    /\ \A t \in Controllers \cap Users : WF_vars(Control(t))
    /\ WF_vars(Send) /\ WF_vars((pc[recv] = "idle" => connClosed \/ hungUp) /\ Recv)
FairSpec == Spec /\ Fairness

-----------------------------------------------------------------------------
(* Properties *)

Items == [by : Tasks, no : 0..MaxCalls + 1,
          what : {"SYN", "ACK", "goaway", "FIN", "update", "data", "pong", "refuse"}]

(* Types, and the capacities of the channels. *)
TypeOK ==
    /\ shutdown \in BOOLEAN /\ connClosed \in BOOLEAN /\ hungUp \in BOOLEAN
    /\ shutdownErr \in Errors \cup {"nil"}
    /\ cause \in [{recv, send} -> Errors \cup {"nil"}]
    /\ lock \in [{"shutdown", "stream"} \cup Streams -> Tasks \cup {free}]
    /\ controlHdrLock \in [Old -> Tasks \cup {free}]
    /\ left \subseteq Streams /\ streams \subseteq Streams
    /\ state \in [Streams -> {"none", "Open", "LocalClose", "RemoteClose", "Closed", "Reset"}]
    /\ acceptCh \in Seq(Incoming) /\ Len(acceptCh) <= AcceptBacklog
    /\ accepted \in Incoming \cup Errors \cup {"none", "nil"}
    /\ sendCh \in Seq(Items) /\ Len(sendCh) <= QueueSize
    /\ errCh \in [Channels -> {"empty", "nil", "EPIPE"}]
    /\ item \in Items \cup {NoItem} /\ written \subseteq Items /\ late \subseteq Items
    /\ calls \in [Senders -> 0..MaxCalls + 1]
    /\ result \in [Senders -> {"none", "nil", "EPIPE", "ErrSessionShutdown"}]
    /\ localGoAway \in BOOLEAN /\ remoteGoAway \in BOOLEAN
    /\ frame \in [kind : Kinds, id : Streams] \cup {NoFrame}
    /\ frames \in 0..MaxFrames
    /\ pc \in [Tasks -> {"idle", "exit", "close", "error", "notify", "hangup", "lock", "sweep",
                         "done", "control", "enqueue", "await", "register", "unregister", "write",
                         "lookup", "flags", "incoming", "pong", "refuse", "goaway"}]

(* Close ends all streams: once its sweep is over no stream that a user got
   from OpenStream or AcceptStream without an error, or had before, is still
   open, whatever was being opened, accepted or closed meanwhile. *)
Swept == shutdown /\ Free("shutdown")
Got(s) == \/ s \in Old
          \/ s = Fresh /\ open \in Users /\ result[open] = "nil"
          \/ s = accepted /\ accept \in Users /\ result[accept] = "nil"
SweepComplete ==
    Swept => \A s \in Streams : Got(s) => state[s] \in {"Closed", "Reset"}

(* A goroutine that sees shutdownCh closed finds the error set: AcceptStream
   never returns a nil stream with a nil error. *)
ErrorBeforeShutdown == (shutdown => shutdownErr # "nil") /\ accepted # "nil"

(* The first error stays the session's error. *)
FirstErrorWins == [][shutdownErr # "nil" => shutdownErr' = shutdownErr]_vars

(* A session that has lost its recv or its send is shut down. *)
NoSilentDeath == \A t \in {recv, send} : pc[t] = "done" => shutdown

(* A nil of waitForSendErr is the reply to a frame that was written: the caller's own, or,
   once the session is shut down, one whose caller had returned and left its reply in the
   channel that both use (the sendErr and controlErr of a stream). *)
NilIsAReply ==
    \A t \in Senders : result[t] = "nil" =>
        Own(t) \in written \/ (shutdown /\ \E i \in written \cap late : Chan(i.by) = Chan(t))

(* After shutdown nobody stays blocked: again and again there is a moment when
   recv and send have ended and no caller waits for its frame or a stream. *)
Blocked(t) == pc[t] \in {"control", "enqueue", "await", "register", "unregister"} \/ (t = accept /\ pc[t] = "idle")
ShutdownReleases ==
    shutdown ~> /\ pc[recv] = "done" /\ pc[send] = "done"
                /\ \A t \in Senders : ~Blocked(t)

(* What has begun and may go on whatever the peer and the users do: Close, a
   call, the send and the recv goroutine. *)
CloseMoves(t) ==
    \/ pc[t] \in {"exit", "close"} /\ Free("shutdown")
    \/ pc[t] \in {"error", "notify", "hangup"}
    \/ pc[t] = "lock" /\ Free("stream")
    \/ pc[t] = "sweep" /\ (left = {} \/ \E s \in left : Free(s))
CallMoves(t) ==
    \/ pc[t] \in {"enqueue", "await"} /\ shutdown
    \/ pc[t] = "enqueue" /\ Room
    \/ pc[t] = "await" /\ errCh[Chan(t)] # "empty"
    \/ pc[t] = "control" /\ controlHdrLock[t[2]] = free /\ Free(t[2])
    \/ pc[t] \in {"register", "unregister"} /\ Free("stream")
    \/ t = accept /\ pc[t] = "idle" /\ shutdown
SendMoves ==
    \/ pc[send] = "idle" /\ (sendCh # <<>> \/ shutdown)
    \/ pc[send] = "write" /\ (connClosed \/ hungUp)
RecvMoves ==
    \/ pc[recv] = "idle" /\ (connClosed \/ hungUp)
    \/ pc[recv] \in {"lookup", "unregister", "incoming"} /\ Free("stream")
    \/ pc[recv] = "flags" /\ Free(frame.id) /\ frame.kind \in {"FIN", "RST"}
          /\ (frame.kind = "RST" \/ state[frame.id] # "none")
    \/ pc[recv] \in {"pong", "refuse", "goaway"} /\ (Room \/ shutdown)
Moves == \/ \E t \in {user, recv, send} \cap Tasks : CloseMoves(t)
         \/ \E t \in Senders : CallMoves(t)
         \/ SendMoves \/ RecvMoves

(* Close holds streamLock and waits for a stateLock whose holder waits for
   streamLock (session.go:180 against stream.go:282, 327 and 336). *)
LockCycle ==
    \E t, u \in Tasks : /\ pc[t] = "sweep" /\ lock["stream"] = t
                       /\ pc[u] = "unregister" /\ \E s \in left : lock[s] = u

(* Where a session stops, every call has returned, and recv and send too if
   the session is shut down.  There are two exceptions: a write that the peer
   does not take, and then the session is up and Close would end it, and the
   deadlock of Close with Stream.Close or processFlags. *)
Ended(t) == pc[t] = "done" \/ (pc[t] = "idle" /\ ~(shutdown /\ t \in {recv, send, accept}))
WriteBlocked == pc[send] = "write" /\ ~shutdown /\ ~connClosed /\ ~hungUp
StopsReleased == Moves \/ (\A t \in Tasks : Ended(t)) \/ WriteBlocked \/ LockCycle

(* Close is used to close the session and all streams: a call of it returns. *)
CloseReturns == pc[user] = "close" ~> pc[user] = "done"

-----------------------------------------------------------------------------
(* What the documents promise and the code does not keep. *)

(* session.go, "Attempts to send a GoAway before closing the connection":
   when Close has hung up, a go-away was at least queued. *)
CloseSendsGoAway ==
    connClosed => \/ \E i \in written : i.what = "goaway"
                  \/ \E i \in 1..Len(sendCh) : sendCh[i].what = "goaway"
                  \/ item.what = "goaway"

(* session.go, "waitForSendErr waits to send a header": a nil says that it was sent. *)
NilMeansWritten == \A t \in Senders : result[t] = "nil" => Own(t) \in written
=============================================================================
