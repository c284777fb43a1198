---------------------------- MODULE YamuxStream ----------------------------
(***************************************************************************)
(* One stream of a yamux session, seen from both ends: the goroutines that *)
(* call Stream.Read, Stream.Write and Stream.Close, the recv goroutine of  *)
(* each session, and the frames under way between them (stream.go, and the *)
(* handlers of session.go that touch a stream).                            *)
(*                                                                         *)
(* wire[e] holds the frames of this stream that end e has put into its     *)
(* sendCh and that the other end has not handled yet: sendCh, the send     *)
(* goroutine and the connection are one FIFO.  That a frame was written,   *)
(* which waitForSendErr waits for, is a separate step of the waiting task  *)
(* and may come before or after the peer handles the frame.                *)
(*                                                                         *)
(* A payload byte is its position in the stream.  "from" in a frame, and   *)
(* sent, rcvd, granted and credit, are history: no guard of the code's     *)
(* reads them (only WriteCall, the bound of the instance, reads sent).     *)
(***************************************************************************)
EXTENDS Integers, Sequences, FiniteSets

CONSTANTS
    Window,       \* initialStreamWindow
    MaxWindow,    \* config.MaxStreamWindowSize of each end
    Readers,      \* the tasks that call Read at each end
    Total,        \* bound: bytes each end's user writes
    Deadlines,    \* are read and write deadlines set?
    CloseRaces,   \* may Close be called while a Write is under way?
    MayReject,    \* may the acceptor refuse the stream (backlog, go-away)?
    Closers       \* the ends whose user may call Session.Close

Sides == {"opener", "acceptor"}
Peer(e) == IF e = "opener" THEN "acceptor" ELSE "opener"

(* VerifyConfig: the maximum is at least the initial window. *)
ASSUME WindowAssumption ==
    /\ Window \in Nat \ {0}
    /\ MaxWindow \in [Sides -> Nat]
    /\ \A e \in Sides : MaxWindow[e] >= Window
ASSUME UserAssumption ==
    /\ Total \in [Sides -> Nat]
    /\ Deadlines \in BOOLEAN /\ CloseRaces \in BOOLEAN /\ MayReject \in BOOLEAN
    /\ Closers \subseteq Sides
ASSUME ReaderAssumption ==
    \A e \in Sides : Readers[e] \cap {"setup", "writer", "closer", "free"} = {}

(* "setup" runs OpenStream or AcceptStream, "writer" Write, "closer" Close. *)
AllReaders == UNION {Readers[e] : e \in Sides}
Tasks == AllReaders \cup {"setup", "writer", "closer"}
CtlTasks(e) == Readers[e] \cup {"setup", "closer"}

VARIABLES
    state,        \* Stream.state; "none" before the stream exists
    registered,   \* is the stream in Session.streams?
    queued,       \* is the acceptor's stream in acceptCh?
    shutdownErr,  \* Session.shutdownErr: "nil" while the session is up
    wire,         \* frames sent by e, not yet handled by Peer(e)
    sendWindow, recvWindow,
    recvBuf,      \* Stream.recvBuf: positions received and unread
    recvNotify, sendNotify,   \* the two notify channels, capacity 1
    ctl,          \* controlHdrLock (its holder) and the header it protects
    todo,         \* bytes of the current Write not yet written
    wlen,         \* max in write: the length of the data frame under way
    pc,           \* where each task is
    sent, rcvd,   \* history: bytes put in data frames; bytes received
    granted,      \* history: window credit promised to the peer
    credit,       \* history: window credit received from the peer
    delivered     \* history: positions returned by Read

windowVars == <<sendWindow, recvWindow, sent, rcvd, granted, credit>>
bufVars    == <<recvBuf, delivered>>
lifeVars   == <<registered, queued, shutdownErr>>
writeVars  == <<todo, wlen>>
notifyVars == <<recvNotify, sendNotify>>
vars == <<state, lifeVars, wire, windowVars, bufVars, notifyVars, ctl,
          writeVars, pc>>

-----------------------------------------------------------------------------
StreamStates == {"Init", "SYNSent", "SYNReceived", "Established",
                 "LocalClose", "RemoteClose", "Closed", "Reset"}
Flags == {"none", "SYN", "ACK", "FIN", "RST"}
(* Only a window update opens a stream. *)
Frames == {f \in [type : {"data", "window"}, flag : Flags, from : Nat, len : Nat] :
              f.flag = "SYN" => f.type = "window"}
Free == [holder |-> "free", flag |-> "none", delta |-> 0]

Shut(e) == shutdownErr[e] # "nil"
Broken == \E e \in Sides : Shut(e)
(* Mutants, here and below, are the slips the runs are shown to catch. *)
MinIgnoresBody(a, b) == a
MinOf(a, b) == IF a < b THEN a ELSE b

(* What sendFlags returns, and the state it leaves. *)
SendFlagTwice(s) == CASE s \in {"Init", "SYNSent"} -> "SYN" [] s = "SYNReceived" -> "ACK"
                     [] OTHER -> "none"
SendFlag(s) == CASE s = "Init" -> "SYN" [] s = "SYNReceived" -> "ACK"
                 [] OTHER -> "none"
Flagged(s) == CASE s = "Init" -> "SYNSent" [] s = "SYNReceived" -> "Established"
                [] OTHER -> s

(* processFlags: the state a flag leads to, and the FIN it refuses. *)
Unclosed == {"SYNSent", "SYNReceived", "Established"}
ProcessedForgetsClose(s, flag) ==
    CASE flag = "ACK" /\ s = "SYNSent"                 -> "Established"
      [] flag = "FIN" /\ s \in Unclosed \cup {"LocalClose"} -> "RemoteClose"
      [] flag = "RST"                                  -> "Reset"
      [] OTHER                                         -> s
Processed(s, flag) ==
    CASE flag = "ACK" /\ s = "SYNSent"                 -> "Established"
      [] flag = "FIN" /\ s \in Unclosed                -> "RemoteClose"
      [] flag = "FIN" /\ s = "LocalClose"              -> "Closed"
      [] flag = "RST"                                  -> "Reset"
      [] OTHER                                         -> s
UnexpectedFlag(s, flag) == flag = "FIN" /\ s \notin Unclosed \cup {"LocalClose"}

Init ==
    /\ state = [e \in Sides |-> "none"]
    /\ registered = [e \in Sides |-> FALSE]
    /\ queued = FALSE
    /\ shutdownErr = [e \in Sides |-> "nil"]
    /\ wire = [e \in Sides |-> <<>>]
    /\ sendWindow = [e \in Sides |-> Window]
    /\ recvWindow = [e \in Sides |-> Window]
    /\ recvBuf = [e \in Sides |-> <<>>]
    /\ recvNotify = [e \in Sides |-> FALSE]
    /\ sendNotify = [e \in Sides |-> FALSE]
    /\ ctl = [e \in Sides |-> Free]
    /\ todo = [e \in Sides |-> 0]
    /\ wlen = [e \in Sides |-> 0]
    /\ pc = [e \in Sides |-> [t \in Tasks |-> "idle"]]
    /\ sent = [e \in Sides |-> 0]
    /\ rcvd = [e \in Sides |-> 0]
    /\ granted = [e \in Sides |-> 0]
    /\ credit = [e \in Sides |-> 0]
    /\ delivered = [e \in Sides |-> <<>>]

Goto(e, t, l) == pc' = [pc EXCEPT ![e][t] = l]

(* Of the credit granted, what a header not yet in sendCh holds back, and the
   rest, which the frames sent so far announce. *)
Sending(e, l) == ctl[e].holder # "free" /\ pc[e][ctl[e].holder] = l
Unsent(e) == IF Sending(e, "send") THEN ctl[e].delta ELSE 0
Announced(e) == granted[e] - Unsent(e)

(* Once the peer's connection is closed nothing sent reaches it. *)
Sent(w, e, frame) ==
    IF Broken THEN w ELSE [w EXCEPT ![e] = Append(@, frame)]

-----------------------------------------------------------------------------
(* Opening and accepting *)

(* OpenStream: the IsClosed check, then registration; Session.Close may
   come in between. *)
OpenCheck ==
    /\ pc["opener"]["setup"] = "idle"
    /\ Goto("opener", "setup", IF Shut("opener") THEN "failed" ELSE "register")
    /\ UNCHANGED <<state, lifeVars, wire, windowVars, bufVars, notifyVars, ctl, writeVars>>

OpenRegister ==
    /\ pc["opener"]["setup"] = "register"
    /\ state' = [state EXCEPT !["opener"] = "Init"]
    /\ registered' = [registered EXCEPT !["opener"] = TRUE]
    /\ Goto("opener", "setup", "update")
    /\ UNCHANGED <<queued, shutdownErr, wire, windowVars, bufVars, notifyVars, ctl, writeVars>>

(* AcceptStream: the select between acceptCh and shutdownCh. *)
AcceptStream ==
    /\ pc["acceptor"]["setup"] = "idle"
    /\ queued
    /\ queued' = FALSE
    /\ Goto("acceptor", "setup", "update")
    /\ UNCHANGED <<state, registered, shutdownErr, wire, windowVars, bufVars, notifyVars, ctl, writeVars>>

AcceptShutdown ==
    /\ pc["acceptor"]["setup"] = "idle"
    /\ Shut("acceptor")
    /\ Goto("acceptor", "setup", "failed")
    /\ UNCHANGED <<state, lifeVars, wire, windowVars, bufVars, notifyVars, ctl, writeVars>>

-----------------------------------------------------------------------------
(* Control frames, under controlHdrLock: sendWindowUpdate by the setup task
   and by every Read, sendClose by Close. *)

(* Where a task goes when its control frame is written, or cannot be. *)
After(t) == CASE t = "setup" -> "ready" [] t = "closer" -> "done" [] OTHER -> "idle"
Failed(t) == IF t = "closer" THEN "done" ELSE "failed"

(* sendWindowUpdate: an update that is not worth a header. *)
NegligibleAlways(e, delta) == delta <= MaxWindow[e]
Negligible(e, delta) == delta < MaxWindow[e] \div 2

(* What a return does to the notify channels: Read defers a notify of
   recvNotifyCh, Close ends with notifyWaiting. *)
ReturnSilently(e, t) == UNCHANGED notifyVars
ReturnNotify(e, t) ==
    /\ recvNotify' = [recvNotify EXCEPT ![e] = @ \/ t # "setup"]
    /\ sendNotify' = [sendNotify EXCEPT ![e] = @ \/ t = "closer"]

(* sendWindowUpdate up to the header: the delta and the flag, or nothing
   when the delta is small and there is no flag. *)
LoadUpdate(e, t) ==
    LET delta == MaxWindow[e] - recvWindow[e]
        flag  == SendFlag(state[e])
    IN  /\ pc[e][t] = "update"
        /\ ctl[e] = Free
        /\ state' = [state EXCEPT ![e] = Flagged(@)]
        /\ IF Negligible(e, delta) /\ flag = "none"
           THEN /\ Goto(e, t, After(t))
                /\ ReturnNotify(e, t)
                /\ UNCHANGED <<ctl, granted>>
           ELSE /\ Goto(e, t, "send")
                /\ ctl' = [ctl EXCEPT ![e] = [holder |-> t, flag |-> flag, delta |-> delta]]
                /\ granted' = [granted EXCEPT ![e] = @ + delta]
                /\ UNCHANGED notifyVars
        /\ UNCHANGED <<lifeVars, wire, sendWindow, recvWindow, sent, rcvd, credit,
                       bufVars, writeVars>>

(* sendClose up to the header.  Close has left LocalClose or Closed, so
   sendFlags adds nothing to the FIN. *)
LoadClose(e) ==
    /\ pc[e]["closer"] = "fin"
    /\ ctl[e] = Free
    /\ ctl' = [ctl EXCEPT ![e] = [holder |-> "closer", flag |-> "FIN", delta |-> 0]]
    /\ Goto(e, "closer", "send")
    /\ UNCHANGED <<state, lifeVars, wire, windowVars, bufVars, notifyVars, writeVars>>

(* waitForSendErr, first select: the frame goes into sendCh. *)
SendControl(e, t) ==
    /\ pc[e][t] = "send"
    /\ ~Shut(e)
    /\ wire' = Sent(wire, e, [type |-> "window", flag |-> ctl[e].flag,
                              from |-> Announced(e), len |-> ctl[e].delta])
    /\ Goto(e, t, "flush")
    /\ UNCHANGED <<state, lifeVars, windowVars, bufVars, notifyVars, ctl, writeVars>>

(* waitForSendErr, second select: written, and only now recvWindow grows. *)
ControlSent(e, t) ==
    /\ pc[e][t] = "flush"
    /\ recvWindow' = [recvWindow EXCEPT ![e] = @ + ctl[e].delta]
    /\ ctl' = [ctl EXCEPT ![e] = Free]
    /\ Goto(e, t, After(t))
    /\ ReturnNotify(e, t)
    /\ UNCHANGED <<state, lifeVars, wire, sendWindow, sent, rcvd, granted, credit,
                   bufVars, writeVars>>

ControlFailed(e, t) ==
    /\ pc[e][t] \in {"send", "flush"}
    /\ Shut(e)
    /\ ctl' = [ctl EXCEPT ![e] = Free]
    /\ Goto(e, t, Failed(t))
    /\ ReturnNotify(e, t)
    /\ UNCHANGED <<state, lifeVars, wire, windowVars, bufVars, writeVars>>

-----------------------------------------------------------------------------
(* Read *)

Ready(e) == pc[e]["setup"] = "ready"

ReadCall(e, r) ==
    /\ Ready(e)
    /\ pc[e][r] = "idle"
    /\ Goto(e, r, "start")
    /\ UNCHANGED <<state, lifeVars, wire, windowVars, bufVars, notifyVars, ctl, writeVars>>

(* START: the state under stateLock, and recvBuf.Len() without recvLock.
   What a torn Len could be taken for, the buffer just before or after a
   copy or a read, is this step just before or after RecvData or ReadTake. *)
ReadCheckEarlyEnd(e, r) ==
    LET eof == state[e] \in {"RemoteClose", "Closed"}
        end == eof \/ state[e] = "Reset"
    IN  /\ pc[e][r] = "start"
        /\ Goto(e, r, IF eof THEN "eof" ELSE IF end THEN "reset" ELSE "take")
        /\ recvNotify' = [recvNotify EXCEPT ![e] = @ \/ end]
        /\ UNCHANGED <<state, lifeVars, wire, windowVars, bufVars, sendNotify, ctl, writeVars>>

ReadCheck(e, r) ==
    LET eof == state[e] \in {"RemoteClose", "Closed"} /\ recvBuf[e] = <<>>
        end == eof \/ state[e] = "Reset"
    IN  /\ pc[e][r] = "start"
        /\ Goto(e, r, IF eof THEN "eof" ELSE IF end THEN "reset" ELSE "take")
        /\ recvNotify' = [recvNotify EXCEPT ![e] = @ \/ end]
        /\ UNCHANGED <<state, lifeVars, wire, windowVars, bufVars, sendNotify, ctl, writeVars>>

ReadTakeDropsRest(e, r) ==
    /\ pc[e][r] = "take"
    /\ \/ /\ recvBuf[e] = <<>>
          /\ Goto(e, r, "wait")
          /\ UNCHANGED bufVars
       \/ \E n \in 1..Len(recvBuf[e]) :
             /\ delivered' = [delivered EXCEPT ![e] = @ \o SubSeq(recvBuf[e], 1, n)]
             /\ recvBuf' = [recvBuf EXCEPT ![e] = <<>>]
             /\ Goto(e, r, "update")
    /\ UNCHANGED <<state, lifeVars, wire, windowVars, notifyVars, ctl, writeVars>>

ReadTakeKeeps(e, r) ==
    /\ pc[e][r] = "take"
    /\ \/ /\ recvBuf[e] = <<>>
          /\ Goto(e, r, "wait")
          /\ UNCHANGED delivered
       \/ /\ recvBuf[e] # <<>>
          /\ delivered' = [delivered EXCEPT ![e] = @ \o recvBuf[e]]
          /\ Goto(e, r, "update")
    /\ UNCHANGED <<state, lifeVars, wire, windowVars, recvBuf, notifyVars, ctl, writeVars>>

ReadTake(e, r) ==
    /\ pc[e][r] = "take"
    /\ \/ /\ recvBuf[e] = <<>>
          /\ Goto(e, r, "wait")
          /\ UNCHANGED bufVars
       \/ \E n \in 1..Len(recvBuf[e]) :
             /\ delivered' = [delivered EXCEPT ![e] = @ \o SubSeq(recvBuf[e], 1, n)]
             /\ recvBuf' = [recvBuf EXCEPT ![e] = SubSeq(@, n + 1, Len(@))]
             /\ Goto(e, r, "update")
    /\ UNCHANGED <<state, lifeVars, wire, windowVars, notifyVars, ctl, writeVars>>

ReadWake(e, r) ==
    /\ pc[e][r] = "wait"
    /\ recvNotify[e]
    /\ recvNotify' = [recvNotify EXCEPT ![e] = FALSE]
    /\ Goto(e, r, "start")
    /\ UNCHANGED <<state, lifeVars, wire, windowVars, bufVars, sendNotify, ctl, writeVars>>

ReadTimeout(e, r) ==
    /\ Deadlines
    /\ pc[e][r] = "wait"
    /\ recvNotify' = [recvNotify EXCEPT ![e] = TRUE]
    /\ Goto(e, r, "idle")
    /\ UNCHANGED <<state, lifeVars, wire, windowVars, bufVars, sendNotify, ctl, writeVars>>

-----------------------------------------------------------------------------
(* Write: sendLock admits one at a time, so one writer stands for all. *)

WriteCall(e) ==
    /\ Ready(e)
    /\ pc[e]["writer"] = "idle"
    /\ \E n \in 1..(Total[e] - sent[e]) : todo' = [todo EXCEPT ![e] = n]
    /\ Goto(e, "writer", "start")
    /\ UNCHANGED <<state, lifeVars, wire, windowVars, bufVars, notifyVars, ctl, wlen>>

(* START: the state, the window and the length the frame will have. *)
WriteCheck(e) ==
    /\ pc[e]["writer"] = "start"
    /\ \/ /\ state[e] \in {"LocalClose", "Closed", "Reset"}
          /\ todo' = [todo EXCEPT ![e] = 0]
          /\ Goto(e, "writer", "stopped")
          /\ UNCHANGED wlen
       \/ /\ state[e] \notin {"LocalClose", "Closed", "Reset"}
          /\ sendWindow[e] = 0
          /\ Goto(e, "writer", "wait")
          /\ UNCHANGED writeVars
       \/ /\ state[e] \notin {"LocalClose", "Closed", "Reset"}
          /\ sendWindow[e] > 0
          /\ wlen' = [wlen EXCEPT ![e] = MinOf(sendWindow[e], todo[e])]
          /\ Goto(e, "writer", "send")
          /\ UNCHANGED todo
    /\ UNCHANGED <<state, lifeVars, wire, windowVars, bufVars, notifyVars, ctl>>

(* sendFlags and the enqueue; the state is not looked at again. *)
WriteSend(e) ==
    /\ pc[e]["writer"] = "send"
    /\ ~Shut(e)
    /\ state' = [state EXCEPT ![e] = Flagged(@)]
    /\ wire' = Sent(wire, e, [type |-> "data", flag |-> SendFlag(state[e]),
                              from |-> sent[e], len |-> wlen[e]])
    /\ sent' = [sent EXCEPT ![e] = @ + wlen[e]]
    /\ Goto(e, "writer", "flush")
    /\ UNCHANGED <<lifeVars, sendWindow, recvWindow, rcvd, granted, credit, bufVars,
                   notifyVars, ctl, writeVars>>

(* Written: the window shrinks, and Write loops for what is left. *)
WriteSent(e) ==
    /\ pc[e]["writer"] = "flush"
    /\ sendWindow' = [sendWindow EXCEPT ![e] = @ - wlen[e]]
    /\ todo' = [todo EXCEPT ![e] = @ - wlen[e]]
    /\ wlen' = [wlen EXCEPT ![e] = 0]
    /\ Goto(e, "writer", IF todo[e] = wlen[e] THEN "idle" ELSE "start")
    /\ UNCHANGED <<state, lifeVars, wire, recvWindow, sent, rcvd, granted, credit,
                   bufVars, notifyVars, ctl>>

WriteFailed(e) ==
    /\ pc[e]["writer"] \in {"send", "flush"}
    /\ Shut(e)
    /\ todo' = [todo EXCEPT ![e] = 0]
    /\ wlen' = [wlen EXCEPT ![e] = 0]
    /\ Goto(e, "writer", "stopped")
    /\ UNCHANGED <<state, lifeVars, wire, windowVars, bufVars, notifyVars, ctl>>

WriteWake(e) ==
    /\ pc[e]["writer"] = "wait"
    /\ sendNotify[e]
    /\ sendNotify' = [sendNotify EXCEPT ![e] = FALSE]
    /\ Goto(e, "writer", "start")
    /\ UNCHANGED <<state, lifeVars, wire, windowVars, bufVars, recvNotify, ctl, writeVars>>

WriteTimeout(e) ==
    /\ Deadlines
    /\ pc[e]["writer"] = "wait"
    /\ todo' = [todo EXCEPT ![e] = 0]
    /\ Goto(e, "writer", "idle")
    /\ UNCHANGED <<state, lifeVars, wire, windowVars, bufVars, notifyVars, ctl, wlen>>

-----------------------------------------------------------------------------
(* Close, up to sendClose; from RemoteClose it also unregisters the stream. *)
CloseCall(e) ==
    /\ Ready(e)
    /\ pc[e]["closer"] = "idle"
    /\ CloseRaces \/ pc[e]["writer"] \in {"idle", "stopped"}
    /\ \/ /\ state[e] \in Unclosed
          /\ state' = [state EXCEPT ![e] = "LocalClose"]
          /\ Goto(e, "closer", "fin")
          /\ UNCHANGED registered
       \/ /\ state[e] = "RemoteClose"
          /\ state' = [state EXCEPT ![e] = "Closed"]
          /\ registered' = [registered EXCEPT ![e] = FALSE]
          /\ Goto(e, "closer", "fin")
       \/ /\ state[e] \in {"LocalClose", "Closed", "Reset"}
          /\ Goto(e, "closer", "done")
          /\ UNCHANGED <<state, registered>>
    /\ UNCHANGED <<queued, shutdownErr, wire, windowVars, bufVars, notifyVars, ctl, writeVars>>

-----------------------------------------------------------------------------
(* The session's end.  exitErr and Close at e: every registered stream is
   force-closed.  Of w, the frames under way, e's own may be cut anywhere by
   the closing connection, and of its peer's e handles only those that its
   bufRead already holds. *)
Shutdown(e, err, w) ==
    /\ shutdownErr' = [shutdownErr EXCEPT ![e] = err]
    /\ \E own \in 0..Len(w[e]), held \in 0..Len(w[Peer(e)]) :
          wire' = [w EXCEPT ![e] = SubSeq(@, 1, own), ![Peer(e)] = SubSeq(@, 1, held)]
    /\ state' = [state EXCEPT ![e] = IF registered[e] THEN "Closed" ELSE @]
    /\ recvNotify' = [recvNotify EXCEPT ![e] = @ \/ registered[e]]
    /\ sendNotify' = [sendNotify EXCEPT ![e] = @ \/ registered[e]]
    /\ UNCHANGED <<registered, queued>>
streamRest == <<windowVars, bufVars, ctl, writeVars, pc>>

SessionClose(e) ==
    /\ e \in Closers
    /\ ~Shut(e)
    /\ Shutdown(e, "ErrSessionShutdown", wire)
    /\ UNCHANGED streamRest

(* recv reads the end of the connection that the peer has closed. *)
RecvEOF(e) ==
    /\ Shut(Peer(e)) /\ ~Shut(e)
    /\ wire[Peer(e)] = <<>>
    /\ Shutdown(e, "EOF", wire)
    /\ UNCHANGED streamRest

(* send fails to write to the connection that the peer has closed. *)
SendFail(e) ==
    /\ Shut(Peer(e)) /\ ~Shut(e)
    /\ \E t \in Tasks : pc[e][t] = "flush"
    /\ Shutdown(e, "EPIPE", wire)
    /\ UNCHANGED streamRest

-----------------------------------------------------------------------------
(* recv: handleStreamMessage of the first frame from the peer.  It runs on
   after the session's shutdown for as long as bufRead holds frames. *)

Payload(frame, n) == [i \in 1..n |-> frame.from + i]
Handled(e) == [wire EXCEPT ![Peer(e)] = Tail(@)]

(* incomingStream, then the window update that carries the SYN. *)
RecvSYN(e) ==
    LET frame == Head(wire[Peer(e)])
    IN  /\ wire[Peer(e)] # <<>>
        /\ frame.flag = "SYN" /\ ~registered[e]
        /\ state' = [state EXCEPT ![e] = "SYNReceived"]
        /\ registered' = [registered EXCEPT ![e] = TRUE]
        /\ queued' = TRUE
        /\ wire' = Handled(e)
        /\ sendWindow' = [sendWindow EXCEPT ![e] = @ + frame.len]
        /\ credit' = [credit EXCEPT ![e] = @ + frame.len]
        /\ sendNotify' = [sendNotify EXCEPT ![e] = TRUE]
        /\ UNCHANGED <<shutdownErr, recvWindow, sent, rcvd, granted, bufVars, recvNotify,
                       ctl, writeVars, pc>>

(* incomingStream during a go-away or with a full backlog: RST, no stream. *)
RecvReject(e) ==
    LET frame == Head(wire[Peer(e)])
        reset == [type |-> "window", flag |-> "RST", from |-> Announced(e), len |-> 0]
    IN  /\ MayReject
        /\ wire[Peer(e)] # <<>>
        /\ frame.flag = "SYN" /\ ~registered[e]
        /\ wire' = Sent(Handled(e), e, reset)
        /\ UNCHANGED <<state, lifeVars, windowVars, bufVars, notifyVars, ctl, writeVars, pc>>

(* A frame for a stream that is not there is dropped, with its data. *)
RecvMissing(e) ==
    /\ wire[Peer(e)] # <<>>
    /\ Head(wire[Peer(e)]).flag # "SYN" /\ ~registered[e]
    /\ wire' = Handled(e)
    /\ UNCHANGED <<state, lifeVars, windowVars, bufVars, notifyVars, ctl, writeVars, pc>>

(* The frames for which the handler returns an error. *)
RefusedAtLimit(e, frame) ==
    \/ frame.flag = "SYN"
    \/ UnexpectedFlag(state[e], frame.flag)
    \/ frame.type = "data" /\ frame.len >= recvWindow[e]
Refused(e, frame) ==
    \/ frame.flag = "SYN"
    \/ UnexpectedFlag(state[e], frame.flag)
    \/ frame.type = "data" /\ frame.len > recvWindow[e]

(* processFlags: the state, and closeStream once both ends are done. *)
ProcessFlagsKeeps(e, flag) ==
    /\ state' = [state EXCEPT ![e] = Processed(@, flag)]
    /\ registered' = [registered EXCEPT ![e] = flag # "RST"]
ProcessFlags(e, flag) ==
    /\ state' = [state EXCEPT ![e] = Processed(@, flag)]
    /\ registered' = [registered EXCEPT
          ![e] = ~(flag = "RST" \/ (flag = "FIN" /\ state[e] = "LocalClose"))]
NotifyingReset == {"RST"}
Notifying == {"FIN", "RST"}

(* incrSendWindow *)
RecvWindow(e) ==
    LET frame == Head(wire[Peer(e)])
    IN  /\ wire[Peer(e)] # <<>>
        /\ registered[e] /\ frame.type = "window" /\ ~Refused(e, frame)
        /\ ProcessFlags(e, frame.flag)
        /\ recvNotify' = [recvNotify EXCEPT ![e] = @ \/ frame.flag \in Notifying]
        /\ sendWindow' = [sendWindow EXCEPT ![e] = @ + frame.len]
        /\ credit' = [credit EXCEPT ![e] = @ + frame.len]
        /\ sendNotify' = [sendNotify EXCEPT ![e] = TRUE]
        /\ wire' = Handled(e)
        /\ UNCHANGED <<queued, shutdownErr, recvWindow, sent, rcvd, granted, bufVars,
                       ctl, writeVars, pc>>

(* readData.  The copy and the smaller window are one step: both are under
   recvLock, and a sendWindowUpdate that loads recvWindow in between loads
   what it would have loaded before.  The notify is delayed no further than
   a task that took the data earlier could have delayed its own steps. *)
RecvData(e) ==
    LET frame == Head(wire[Peer(e)])
    IN  /\ wire[Peer(e)] # <<>>
        /\ registered[e] /\ frame.type = "data" /\ ~Refused(e, frame)
        /\ ProcessFlags(e, frame.flag)
        /\ sendNotify' = [sendNotify EXCEPT ![e] = @ \/ frame.flag \in Notifying]
        /\ recvBuf' = [recvBuf EXCEPT ![e] = @ \o Payload(frame, frame.len)]
        /\ recvWindow' = [recvWindow EXCEPT ![e] = @ - frame.len]
        /\ rcvd' = [rcvd EXCEPT ![e] = @ + frame.len]
        /\ recvNotify' = [recvNotify EXCEPT ![e] = TRUE]
        /\ wire' = Handled(e)
        /\ UNCHANGED <<queued, shutdownErr, sendWindow, sent, granted, credit, delivered,
                       ctl, writeVars, pc>>

(* The handler returns an error: go-away (which ends the peer's session as
   the end of the connection does), exitErr, and recv is gone. *)
RecvRefuse(e) ==
    LET frame == Head(wire[Peer(e)])
        err   == CASE frame.flag = "SYN" -> "ErrDuplicateStream"
                   [] UnexpectedFlag(state[e], frame.flag) -> "ErrUnexpectedFlag"
                   [] OTHER -> "ErrRecvWindowExceeded"
        rest  == [wire EXCEPT ![Peer(e)] = <<>>]
    IN  /\ wire[Peer(e)] # <<>>
        /\ registered[e] /\ Refused(e, frame)
        /\ \/ ~Shut(e) /\ Shutdown(e, err, rest)
           \/ /\ Shut(e)
              /\ wire' = rest
              /\ UNCHANGED <<state, lifeVars, notifyVars>>
        /\ UNCHANGED streamRest

(* The connection ends inside a data frame.  io.Copy takes an EOF for the
   end of the payload: readData goes on as if it had it all, and recv meets
   the EOF at the next header.  Any other error ends the session at once,
   with recvWindow left alone. *)
RecvShort(e) ==
    LET frame == Head(wire[Peer(e)])
        rest  == [wire EXCEPT ![Peer(e)] = <<>>]
    IN  /\ Broken
        /\ wire[Peer(e)] # <<>>
        /\ registered[e] /\ frame.type = "data" /\ ~Refused(e, frame)
        /\ \E n \in 0..(frame.len - 1) :
              recvBuf' = [recvBuf EXCEPT ![e] = @ \o Payload(frame, n)]
        /\ \/ /\ ~Shut(e)
              /\ recvWindow' = [recvWindow EXCEPT ![e] = @ - frame.len]
              /\ rcvd' = [rcvd EXCEPT ![e] = @ + frame.len]
              /\ recvNotify' = [recvNotify EXCEPT ![e] = TRUE]
              /\ wire' = rest
              /\ UNCHANGED <<state, lifeVars, sendNotify>>
           \/ /\ ~Shut(e)
              /\ Shutdown(e, "ErrRead", rest)
              /\ UNCHANGED <<recvWindow, rcvd>>
           \/ /\ Shut(e)
              /\ wire' = rest
              /\ UNCHANGED <<state, lifeVars, recvWindow, rcvd, notifyVars>>
        /\ UNCHANGED <<sendWindow, sent, granted, credit, delivered, ctl, writeVars, pc>>

-----------------------------------------------------------------------------
Control(e, t) == LoadUpdate(e, t) \/ SendControl(e, t) \/ ControlSent(e, t) \/ ControlFailed(e, t)
Read(e, r) == ReadCheck(e, r) \/ ReadTake(e, r) \/ ReadWake(e, r)
Write(e) == WriteCheck(e) \/ WriteSend(e) \/ WriteSent(e) \/ WriteFailed(e) \/ WriteWake(e)
Recv(e) == \/ RecvSYN(e) \/ RecvReject(e) \/ RecvMissing(e) \/ RecvWindow(e)
           \/ RecvData(e) \/ RecvRefuse(e) \/ RecvShort(e) \/ RecvEOF(e)
Setup == OpenCheck \/ OpenRegister \/ AcceptStream \/ AcceptShutdown

Next ==
    \/ Setup
    \/ \E e \in Sides :
         \/ Write(e) \/ WriteCall(e) \/ WriteTimeout(e)
         \/ CloseCall(e) \/ LoadClose(e)
         \/ Recv(e) \/ SessionClose(e) \/ SendFail(e)
         \/ \E t \in CtlTasks(e) : Control(e, t)
         \/ \E r \in Readers[e] : Read(e, r) \/ ReadCall(e, r) \/ ReadTimeout(e, r)

Spec == Init /\ [][Next]_vars

(* The goroutines of the two sessions and the calls already begun make
   progress; so does an application that keeps reading what it accepted.
   Nothing makes a user write, close, or end a session, and no deadline has
   to fire. *)
Fairness ==
    /\ WF_vars(Setup)
    /\ \A e \in Sides :
         /\ WF_vars(Write(e)) /\ WF_vars(LoadClose(e)) /\ WF_vars(Recv(e))
         /\ \A t \in CtlTasks(e) : WF_vars(Control(e, t))
         /\ \A r \in Readers[e] : WF_vars(Read(e, r) \/ ReadCall(e, r))
FairSpec == Spec /\ Fairness

-----------------------------------------------------------------------------
(* Properties *)

Locations == {"idle", "register", "update", "send", "flush", "ready", "failed",
              "start", "take", "wait", "eof", "reset", "stopped", "fin", "done"}

(* Types.  The windows are naturals: uint32 subtraction never wraps. *)
TypeOK ==
    /\ state \in [Sides -> StreamStates \cup {"none"}]
    /\ registered \in [Sides -> BOOLEAN]
    /\ queued \in BOOLEAN
    /\ shutdownErr \in [Sides -> {"nil", "ErrSessionShutdown", "EOF", "EPIPE", "ErrRead",
           "ErrDuplicateStream", "ErrUnexpectedFlag", "ErrRecvWindowExceeded"}]
    /\ wire \in [Sides -> Seq(Frames)]
    /\ sendWindow \in [Sides -> Nat] /\ recvWindow \in [Sides -> Nat]
    /\ recvBuf \in [Sides -> Seq(Nat)] /\ delivered \in [Sides -> Seq(Nat)]
    /\ recvNotify \in [Sides -> BOOLEAN] /\ sendNotify \in [Sides -> BOOLEAN]
    /\ ctl \in [Sides -> [holder : Tasks \cup {"free"}, flag : Flags, delta : Nat]]
    /\ todo \in [Sides -> Nat] /\ wlen \in [Sides -> Nat]
    /\ pc \in [Sides -> [Tasks -> Locations]]
    /\ sent \in [Sides -> Nat] /\ rcvd \in [Sides -> Nat]
    /\ granted \in [Sides -> Nat] /\ credit \in [Sides -> Nat]

(* The credit an end has written to its peer but not yet added to its own
   recvWindow, which sendWindowUpdate does after the write returns. *)
Pending(e) == IF Sending(e, "flush") THEN ctl[e].delta ELSE 0

(* Flow control: what is in flight towards an end never exceeds the window
   that end checks it against, once the update it is writing is counted. *)
WindowCoversFlight ==
    \A e \in Sides :
        ~Shut(Peer(e)) =>
            sent[e] - rcvd[Peer(e)] <= recvWindow[Peer(e)] + Pending(Peer(e))

(* uint32 arithmetic: write subtracts no more than the window holds,
   sendWindowUpdate never takes a negative difference nor adds beyond the
   configured maximum, and no more credit than the peer's maximum piles up. *)
NoWindowWrap ==
    \A e \in Sides :
        /\ wlen[e] <= sendWindow[e]
        /\ recvWindow[e] + ctl[e].delta <= MaxWindow[e]
        /\ ~Broken => sendWindow[e] <= MaxWindow[Peer(e)] + wlen[e]

(* What an end reads and buffers is what the peer wrote, from the first byte
   on, each byte once and in order, also when a session dies on the way. *)
ReadsArePrefix ==
    \A e \in Sides :
        LET got == delivered[e] \o recvBuf[e]
        IN  Len(got) <= sent[Peer(e)] /\ \A i \in 1..Len(got) : got[i] = i

(* An end of file that Read reports while both sessions are up is the end of
   everything the peer's Writes put in. *)
EOFIsComplete ==
    \A e \in Sides :
        (~Broken /\ \E r \in Readers[e] : pc[e][r] = "eof")
            => /\ Len(delivered[e]) = sent[Peer(e)]
               /\ pc[Peer(e)]["writer"] \in {"idle", "start", "stopped"}

(* Two correct ends never make each other's recv fail on a flag. *)
NoFlagError ==
    \A e \in Sides : shutdownErr[e] \notin {"ErrUnexpectedFlag", "ErrDuplicateStream"}

(* The half-close of an end is in exactly one place: still to be sent by
   Close, under way, or known to the peer.  (A stream the acceptor refused
   has no second end to know of it.) *)
Rejected == \/ state["opener"] = "Reset"
            \/ \E i \in 1..Len(wire["acceptor"]) : wire["acceptor"][i].flag = "RST"
FinPlaces(e) ==
    [pending |-> IF pc[e]["closer"] \in {"fin", "send"} THEN 1 ELSE 0,
     wire    |-> Cardinality({i \in 1..Len(wire[e]) : wire[e][i].flag = "FIN"}),
     peer    |-> IF state[Peer(e)] \in {"RemoteClose", "Closed"} THEN 1 ELSE 0]
HalfCloseOnce ==
    ~Broken /\ ~Rejected =>
        \A e \in Sides :
            FinPlaces(e).pending + FinPlaces(e).wire + FinPlaces(e).peer
                = IF state[e] \in {"LocalClose", "Closed"} THEN 1 ELSE 0

(* OpenStream and AcceptStream have sent the first frame of their end before
   the stream is anybody's to write to. *)
OpenedFirst ==
    \A e \in Sides :
        /\ pc[e]["writer"] # "idle" => Ready(e)
        /\ pc[e]["setup"] \in {"send", "flush", "ready"} => state[e] # "Init"

(* The accounts of flow control, which together are inductive and of which
   the properties above about windows are consequences. *)

(* controlHdrLock: who sends a control frame holds it, and nobody else. *)
CtlLock ==
    \A e \in Sides :
        /\ \A t \in CtlTasks(e) : pc[e][t] \in {"send", "flush"} <=> ctl[e].holder = t
        /\ ctl[e].holder \in CtlTasks(e) \cup {"free"}
        /\ ctl[e].holder = "free" => ctl[e] = Free

(* write sends no more than the window and the caller's bytes allow. *)
WriterBound ==
    \A e \in Sides :
        /\ wlen[e] <= sendWindow[e] /\ wlen[e] <= todo[e]
        /\ pc[e]["writer"] \notin {"send", "flush"} => wlen[e] = 0

(* The sender's window is the credit it received less what it sent; the
   frame just sent is subtracted late. *)
SenderAccount ==
    \A e \in Sides :
        /\ ~Shut(e) => sendWindow[e] + sent[e] =
                 Window + credit[e] + (IF pc[e]["writer"] = "flush" THEN wlen[e] ELSE 0)
        /\ sent[e] <= Window + credit[e]

(* The receiver's window is the credit it granted less what it received; a
   grant under way is added late. *)
ReceiverAccount ==
    \A e \in Sides :
        /\ ~Shut(e) => recvWindow[e] + ctl[e].delta + rcvd[e] = Window + granted[e]
        /\ recvWindow[e] + ctl[e].delta <= MaxWindow[e]
        /\ ctl[e].delta <= granted[e]

(* The frames of one type in w cover disjoint ranges between lo and hi, in
   order. *)
Ordered(w, type, lo, hi) ==
    /\ lo <= hi
    /\ \A i \in 1..Len(w) : w[i].type = type => lo <= w[i].from /\ w[i].from + w[i].len <= hi
    /\ \A i, j \in 1..Len(w) :
          i < j /\ w[i].type = type /\ w[j].type = type => w[i].from + w[i].len <= w[j].from
DataOrder == \A e \in Sides : Ordered(wire[e], "data", rcvd[Peer(e)], sent[e])
CreditOrder == \A e \in Sides : Ordered(wire[e], "window", credit[Peer(e)], Announced(e))

FlowAccounts == /\ CtlLock /\ WriterBound /\ SenderAccount /\ ReceiverAccount
                /\ DataOrder /\ CreditOrder

(* No lost wakeup: a task blocked in its select without a token has nothing
   to do, or a call that will leave a token is under way at its end. *)
NoLostWakeup ==
    \A e \in Sides :
        /\ \A r \in Readers[e] :
             pc[e][r] = "wait" /\ ~recvNotify[e] =>
                 \/ recvBuf[e] = <<>> /\ state[e] \notin {"RemoteClose", "Closed", "Reset"}
                 \/ \E q \in Readers[e] : pc[e][q] \in {"start", "take", "update", "send", "flush"}
        /\ pc[e]["writer"] = "wait" /\ ~sendNotify[e] =>
             \/ sendWindow[e] = 0 /\ state[e] \notin {"LocalClose", "Closed", "Reset"}
             \/ pc[e]["closer"] \in {"fin", "send", "flush"}

(* recv ends a session for an exceeded window only in the gap between the
   write of its own window update and the addition to recvWindow. *)
WindowErrorOnlyInGap ==
    [][\A e \in Sides :
         shutdownErr[e] = "nil" /\ shutdownErr'[e] = "ErrRecvWindowExceeded"
             => Pending(e) > 0]_vars

(* Flow control does not stall: while the peer keeps reading, a Write that
   was begun ends. *)
WritesEnd ==
    \A e \in Sides : todo[e] > 0 ~> (todo[e] = 0 \/ Broken)

(* Everything that was written is read in the end. *)
AllDelivered ==
    \A e \in Sides :
        []<>(Len(delivered[Peer(e)]) = sent[e] \/ Broken \/ Rejected)

(* Once both users have closed the stream, both sessions forget it. *)
ClosedStreamsReleased ==
    (\A e \in Sides : pc[e]["closer"] = "done")
        ~> (Broken \/ \A e \in Sides : ~registered[e])

(* A Read blocked at an end whose peer has closed the stream, or whose
   session has ended, returns. *)
BlockedReadsReturn ==
    \A e \in Sides : \A r \in Readers[e] :
        (pc[e][r] = "wait" /\ (pc[Peer(e)]["closer"] = "done" \/ Shut(e)))
            ~> pc[e][r] \in {"eof", "reset", "failed"}

-----------------------------------------------------------------------------
(* What the documents promise and the code does not keep. *)

(* spec.md, "Both sides should track the number of bytes sent in Data frames
   only, as only they are tracked as part of the window size": a sender that
   stays within the credit it was given is never refused. *)
NoWindowError == \A e \in Sides : shutdownErr[e] # "ErrRecvWindowExceeded"

(* README.md, "Back-pressure to prevent overwhelming a receiver", and
   mux.go, "the maximum window size that we allow for a stream": the bytes a
   stream holds unread are bounded by that maximum. *)
BufferWithinWindow == \A e \in Sides : Len(recvBuf[e]) <= MaxWindow[e]

(* spec.md, "a half-close indicating the sender will send no further data":
   no data frame follows a FIN. *)
NoDataAfterFin ==
    \A e \in Sides : \A i, j \in 1..Len(wire[e]) :
        i < j /\ wire[e][i].flag = "FIN" => wire[e][j].type # "data"
=============================================================================
