------------------------- MODULE YamuxSessionProofs -------------------------
(***************************************************************************)
(* How a session ends, for every number of streams and every capacity of   *)
(* its channels: whoever ends it, the error is kept, the sweep of Close    *)
(* reaches every stream that a user holds, and nobody waits for ever but   *)
(* for the peer and in the deadlock of Close.                              *)
(***************************************************************************)
EXTENDS YamuxSession, TLAPS

(* A call of waitForSendErr is the task's first, unless it is a Write or a Read. *)
CallsOnce ==
    \A t \in Senders \ Repeaters : pc[t] \in {"idle", "register", "unregister"} => calls[t] = 0
(* The user has no error of its own to give to exitErr; send writes what it took. *)
Closing == {"error", "notify", "hangup", "lock", "sweep"}
UserCloses == user \in Users => pc[user] \in {"idle", "close", "done"} \cup Closing
SendHolds == pc[send] = "write" => item \in Items
Types == TypeOK /\ CallsOnce /\ UserCloses /\ SendHolds

(* The frame recv is at work on. *)
RecvHolds ==
    /\ pc[recv] \in {"lookup", "flags", "unregister", "incoming"} => frame \in [kind : Kinds, id : Streams]
    /\ pc[recv] = "incoming" => frame.id \in Incoming

(* Who ends the session is the goroutine with shutdownLock: it sets the error, closes
   shutdownCh, and only then the connection. *)
OneCloser ==
    /\ \A t \in Tasks : pc[t] \in Closing => lock["shutdown"] = t
    /\ \A t \in Tasks : pc[t] \in {"hangup", "lock", "sweep"} => shutdown
    /\ lock["shutdown"] # free => pc[lock["shutdown"]] \in Closing
    /\ \A t \in Tasks : pc[t] \in {"lock", "sweep"} => connClosed
    /\ Swept => connClosed
ErrorSet == \A t \in Tasks : pc[t] = "notify" => shutdownErr # "nil"

(* A live stream is in the table, and Close has yet to end it while it sweeps: a stream
   leaves the table only when it is over. *)
Live(s) == state[s] \in {"Open", "LocalClose", "RemoteClose"}
LiveAreRegistered ==
    /\ \A s \in Streams : Live(s) => s \in streams
    /\ \A t \in Closers \cap Users : pc[t] = "unregister" => ~Live(t[2])
    /\ pc[recv] = "unregister" => ~Live(frame.id)
    /\ \A t \in Tasks :
          pc[t] = "sweep" => lock["stream"] = t /\ \A s \in Streams : Live(s) => s \in left

(* Streams begin once, and what is in a table, a queue or a user's hand has begun. *)
BegunOnce ==
    /\ \A s \in streams \cup left \cup Old : state[s] # "none"
    /\ \A i \in 1..Len(acceptCh) : state[acceptCh[i]] # "none"
    /\ accepted \in Streams => state[accepted] # "none"
    /\ open \in Users /\ (pc[open] \in {"enqueue", "await"} \/ result[open] # "none")
          => state[Fresh] # "none"
    /\ open \in Users /\ pc[open] \in {"idle", "register"} => state[Fresh] = "none"
    /\ pc[recv] \in {"flags", "unregister"} => state[frame.id] # "none"
    /\ pc[recv] = "incoming" => state[frame.id] = "none" \/ frame.id \in streams

(* Before OpenStream and AcceptStream call waitForSendErr there is no reply for them. *)
NoReplyYet ==
    \A t \in {open, accept} \cap Users : pc[t] \in {"idle", "register"} =>
        /\ errCh[t] = "empty" /\ result[t] = "none"
        /\ item.by # t
        /\ \A i \in 1..Len(sendCh) : sendCh[i].by # t

(* What is live after the sweep began too late for its user to be told so. *)
Told(t) == t \in Users /\ (errCh[t] = "nil" \/ result[t] = "nil")
LateStreams ==
    Swept => \A s \in Streams : Live(s) =>
        /\ s \notin Old
        /\ s = Fresh => ~Told(open)
        /\ s = accepted => ~Told(accept)

SweepInv ==
    Types /\ RecvHolds /\ OneCloser /\ LiveAreRegistered /\ BegunOnce /\ NoReplyYet /\ LateStreams

Labels == {"idle", "exit", "close", "error", "notify", "hangup", "lock", "sweep", "done",
           "control", "enqueue", "await", "register", "unregister", "write", "lookup", "flags",
           "incoming", "pong", "refuse", "goaway"}

-----------------------------------------------------------------------------
(* The names of the tasks *)

LEMMA TaskNames ==
    /\ Senders \subseteq Users /\ Users \subseteq Tasks
    /\ recv \in Tasks /\ send \in Tasks /\ recv # send
    /\ recv \notin Users /\ send \notin Users /\ user # recv /\ user # send
    /\ \A t \in Tasks : t # free
    /\ \A t \in Senders : t # user
    /\ user \in Users => user \in Tasks
    /\ open \in Users => open \in Senders \ Repeaters
    /\ accept \in Users => accept \in Senders \ Repeaters
    /\ announce \in Users => announce \in Senders \ Repeaters
    /\ \A t \in Closers \cap Users : t \in Senders \ Repeaters
    /\ \A t \in Repeaters \cap Users : t \in Senders
    /\ \A t \in Closers \cup Repeaters : t[2] \in Old
    /\ {open, accept, announce} \cap (Closers \cup Repeaters) = {}
    /\ open # accept /\ open # announce /\ accept # announce
    BY DEF Tasks, Users, Senders, Closers, Writers, Updaters, Repeaters, recv, send, user, open,
           accept, announce, free

(* Which kinds of tasks overlap. *)
LEMMA TaskKinds ==
    /\ Repeaters = Writers \cup Updaters /\ Controllers = Closers \cup Updaters
    /\ Writers \cap Updaters = {} /\ Writers \cap Controllers = {} /\ Closers \cap Repeaters = {}
    /\ \A t, u \in Closers : t[2] = u[2] => t = u
    BY DEF Closers, Writers, Updaters, Repeaters, Controllers

(* Who has which reply channel. *)
LEMMA ChanNames ==
    /\ \A t \in Senders : Chan(t) \in Channels
    /\ \A t \in {open, accept, announce} \cup Writers : Chan(t) = t
    /\ \A t, u : u \in {open, accept} /\ Chan(t) = u => t = u
    /\ \A t, u \in Senders : Chan(t) = Chan(u) /\ t # u =>
          t \in Controllers /\ u \in Controllers /\ t[2] = u[2]
    /\ \A t \in Tasks : Chan(t) \in Channels => t \in Senders
<1>1. \A t \in Senders : Chan(t) \in Channels
    BY DEF Channels
<1>2. \A t \in {open, accept, announce} \cup Writers : Chan(t) = t
    BY TaskNames, TaskKinds DEF Chan, Repeaters, Controllers
<1>3. ASSUME NEW t \in Controllers PROVE t = <<t[1], t[2]>> /\ t[1] \in {"close", "update"}
    BY DEF Controllers, Closers, Updaters
<1>4. ASSUME NEW t, NEW u \in {open, accept}, Chan(t) = u PROVE t = u
    BY <1>4 DEF Chan, open, accept
<1>5. ASSUME NEW t \in Senders, t \notin Controllers PROVE t[1] # "control"
    BY <1>5 DEF Senders, Users, Controllers, Closers, Updaters, Writers, open, accept, announce, user
<1>6. ASSUME NEW t \in Senders, NEW u \in Senders, Chan(t) = Chan(u), t # u
      PROVE  t \in Controllers /\ u \in Controllers /\ t[2] = u[2]
    <2>1. (t \in Controllers /\ u \in Controllers) => t[2] = u[2]
        BY <1>6 DEF Chan
    <2>2. t \in Controllers /\ u \notin Controllers => FALSE
        BY <1>5, <1>6 DEF Chan
    <2>3. t \notin Controllers /\ u \in Controllers => FALSE
        BY <1>5, <1>6 DEF Chan
    <2>4. t \notin Controllers /\ u \notin Controllers => FALSE
        BY <1>6 DEF Chan
    <2> QED BY <2>1, <2>2, <2>3, <2>4
<1>7. ASSUME NEW t \in Tasks, t \notin Senders PROVE Chan(t) \notin Channels
    <2>1. t \in {user, recv, send}
        BY <1>7 DEF Tasks, Senders
    <2>2. t \notin Controllers /\ t[1] # "control"
        BY <2>1 DEF user, recv, send, Controllers, Closers, Updaters
    <2> QED BY <1>7, <2>2 DEF Chan, Channels
<1> QED BY <1>1, <1>2, <1>4, <1>6, <1>7

LEMMA StreamNames ==
    /\ Old \subseteq Streams /\ Incoming \subseteq Streams /\ Fresh \in Streams
    /\ "shutdown" \notin Streams /\ "stream" \notin Streams
    /\ Streams \cap Errors = {} /\ "none" \notin Streams /\ "nil" \notin Streams
<1>1. Old \subseteq Streams /\ Incoming \subseteq Streams /\ Fresh \in Streams
    BY DEF Streams
<1>2. Streams \cap (Errors \cup {"session", "shutdown", "stream", "none", "nil"}) = {}
    BY StreamAssumption
<1> QED BY <1>1, <1>2

(* What one step of a task does to its label. *)
LEMMA GotoTypes ==
    ASSUME pc \in [Tasks -> Labels], NEW t \in Tasks, NEW l \in Labels, Goto(t, l)
    PROVE  pc' \in [Tasks -> Labels] /\ pc'[t] = l /\ \A u \in Tasks \ {t} : pc'[u] = pc[u]
    BY DEF Goto

-----------------------------------------------------------------------------
(* Types *)

(* Users that are not there are done from the beginning. *)
LEMMA InitLabels ==
    ASSUME Init
    PROVE  pc \in [Tasks -> {"idle", "done"}] /\ pc[recv] = "idle" /\ pc[send] = "idle"
    BY TaskNames DEF Init

LEMMA InitTypes == Init => Types
<1> SUFFICES ASSUME Init PROVE Types
    OBVIOUS
<1>1. /\ shutdown = FALSE /\ shutdownErr = "nil" /\ connClosed = FALSE
      /\ left = {} /\ streams = Old /\ acceptCh = <<>> /\ accepted = "none"
      /\ sendCh = <<>> /\ item = NoItem /\ written = {} /\ late = {} /\ frame = NoFrame /\ frames = 0
      /\ localGoAway = FALSE /\ remoteGoAway = FALSE /\ hungUp = FALSE
    BY DEF Init
<1>2. /\ cause \in [{recv, send} -> Errors \cup {"nil"}]
      /\ lock \in [{"shutdown", "stream"} \cup Streams -> Tasks \cup {free}]
      /\ state \in [Streams -> {"none", "Open", "LocalClose", "RemoteClose", "Closed", "Reset"}]
      /\ pc \in [Tasks -> {"idle", "done"}] /\ pc[send] = "idle"
    BY InitLabels DEF Init
<1>3. /\ errCh \in [Channels -> {"empty"}] /\ result \in [Senders -> {"none"}]
      /\ calls \in [Senders -> {0}] /\ controlHdrLock \in [Old -> Tasks \cup {free}]
    BY DEF Init
<1>4. /\ calls \in [Senders -> 0..MaxCalls + 1] /\ 0 \in 0..MaxFrames
      /\ Len(sendCh) <= QueueSize /\ Len(acceptCh) <= AcceptBacklog
      /\ sendCh \in Seq(Items) /\ acceptCh \in Seq(Incoming)
    BY <1>1, <1>3, BoundAssumption
<1>5. TypeOK
    BY <1>1, <1>2, <1>3, <1>4, StreamNames DEF TypeOK
<1>6. CallsOnce /\ UserCloses /\ SendHolds
    BY <1>2, <1>3, TaskNames DEF CallsOnce, UserCloses, SendHolds
<1> QED BY <1>5, <1>6 DEF Types

LEMMA CloseTypes ==
    ASSUME Types, NEW t \in {user, recv, send} \cap Tasks, Close(t) \/ CloseCall
    PROVE  Types'
<1> USE DEF sessionVars, lockVars, streamVars, queueVars, callVars, peerVars
<1>1. TypeOK'
    <2>1. ASSUME ExitErr(t) PROVE TypeOK'
        <3>1. t \in {recv, send}
            BY <2>1, TaskNames DEF ExitErr, Types, UserCloses, Closing, Tasks, Users
        <3>2. shutdownErr' \in Errors \cup {"nil"}
            BY <2>1, <3>1 DEF ExitErr, KeepFirst, Types, TypeOK
        <3> QED BY <2>1, <3>2 DEF ExitErr, TypeOK, Types, Goto
    <2>2. ASSUME CloseBegin(t) PROVE TypeOK'
        <3>1. lock' \in [{"shutdown", "stream"} \cup Streams -> Tasks \cup {free}]
            BY <2>2 DEF CloseBegin, Types, TypeOK
        <3> QED BY ZenonT(30), <2>2, <3>1 DEF CloseBegin, TypeOK, Types, Goto
    <2>8. ASSUME CloseNotify(t) PROVE TypeOK'
        <3>1. shutdownErr' \in Errors \cup {"nil"} /\ shutdown' \in BOOLEAN
            <4>1. "ErrSessionShutdown" \in Errors
                BY DEF Errors
            <4> QED BY <2>8, <4>1 DEF CloseNotify, KeepFirst, Types, TypeOK
        <3> QED BY <2>8, <3>1 DEF CloseNotify, TypeOK, Types, Goto
    <2>3. ASSUME HangUp(t) PROVE TypeOK'
        BY <2>3 DEF HangUp, TypeOK, Types, Goto
    <2>4. ASSUME CloseLock(t) PROVE TypeOK'
        BY <2>4 DEF CloseLock, TypeOK, Types, Goto
    <2>5. ASSUME CloseEnd(t) PROVE TypeOK'
        BY ZenonT(30), <2>5 DEF CloseEnd, TypeOK, Types, Goto
    <2>6. ASSUME NEW s \in Streams, ForceClose(t, s) PROVE TypeOK'
        BY <2>6 DEF ForceClose, TypeOK, Types
    <2>7. ASSUME CloseCall PROVE TypeOK'
        BY ZenonT(30), <2>7 DEF CloseCall, TypeOK, Types, Goto
    <2> QED BY <2>1, <2>2, <2>3, <2>4, <2>5, <2>6, <2>7, <2>8 DEF Close
<1>2. CallsOnce' /\ UserCloses'
    <2>1. calls' = calls /\ \E u \in {t, user} :
             pc' = pc \/ (u \in Tasks /\ \E l \in Closing \cup {"close", "done"} : Goto(u, l))
        <3>1. CASE CloseCall
            BY <3>1, TaskNames DEF CloseCall
        <3>2. CASE Close(t)
            BY <3>2 DEF Close, ExitErr, CloseBegin, CloseNotify, HangUp, CloseLock, CloseEnd, ForceClose, Closing
        <3> QED BY <3>1, <3>2
    <2>2. PICK u \in {t, user} :
             pc' = pc \/ (u \in Tasks /\ \E l \in Closing \cup {"close", "done"} : Goto(u, l))
        BY <2>1
    <2>3. u \notin Senders
        BY TaskNames
    <2>4. \A w \in Senders : pc'[w] = pc[w]
        BY <2>2, <2>3, TaskNames DEF Types, TypeOK, Goto
    <2>5. UserCloses'
        BY <2>2, TaskNames DEF Types, TypeOK, UserCloses, Goto, Closing
    <2>6. CallsOnce'
        BY <2>1, <2>4 DEF Types, CallsOnce
    <2> QED BY <2>5, <2>6
<1>3. SendHolds'
    <2>1. item' = item /\ (pc' = pc \/ \E u \in Tasks, l \in Closing \cup {"close", "done"} : Goto(u, l))
        <3>1. CASE CloseCall
            BY <3>1, TaskNames DEF CloseCall
        <3>2. CASE Close(t)
            BY <3>2 DEF Close, ExitErr, CloseBegin, CloseNotify, HangUp, CloseLock, CloseEnd, ForceClose, Closing
        <3> QED BY <3>1, <3>2
    <2>2. item' = item /\ (pc'[send] = "write" => pc[send] = "write")
        BY <2>1, TaskNames DEF Types, TypeOK, Goto, Closing
    <2> QED BY <2>2 DEF Types, SendHolds, Items
<1> QED BY <1>1, <1>2, <1>3 DEF Types

(* A step of a task that begins no call. *)
LEMMA NoCallBegins ==
    ASSUME Types, NEW t \in Tasks, NEW l \in Labels, Goto(t, l), calls' = calls,
           t # user, t \in Senders \ Repeaters => l \notin {"idle", "register"},
           l = "unregister" => t \notin Senders \/ calls[t] = 0,
           item' = item \/ item' \in Items, l = "write" => item' \in Items
    PROVE  CallsOnce' /\ UserCloses' /\ SendHolds'
<1>1. pc \in [Tasks -> Labels]
    BY DEF Types, TypeOK, Labels
<1>2. pc'[t] = l /\ \A u \in Tasks \ {t} : pc'[u] = pc[u]
    BY <1>1, GotoTypes
<1>3. UserCloses'
    BY <1>2, TaskNames DEF Types, UserCloses
<1>4. CallsOnce'
    BY <1>2, TaskNames DEF Types, CallsOnce
<1>5. SendHolds'
    BY <1>2, TaskNames DEF Types, SendHolds, Items
<1> QED BY <1>3, <1>4, <1>5

LEMMA WaitTypes ==
    ASSUME Types, NEW t \in Senders, WaitForSend(t)
    PROVE  Types'
<1> USE DEF sessionVars, lockVars, streamVars, queueVars, callVars, peerVars
<1>t. t \in Tasks /\ t # user /\ t # recv /\ t # send
    BY TaskNames
<1>o. Own(t) \in Items
    BY <1>t DEF Own, Item, What, Items, Types, TypeOK
<1>1. CASE Enqueue(t)
    <2>2. sendCh' \in Seq(Items) /\ Len(sendCh') <= QueueSize
        BY <1>1, <1>o, BoundAssumption DEF Enqueue, Room, Types, TypeOK
    <2>3. TypeOK'
        BY <1>1, <1>t, <2>2 DEF Enqueue, Types, TypeOK, Goto
    <2>4. Goto(t, "await") /\ calls' = calls /\ item' = item
        BY <1>1 DEF Enqueue
    <2> QED BY <1>t, <2>3, <2>4, NoCallBegins DEF Types, Labels
<1>2. CASE Await(t) \/ GiveUp(t)
    <2>1. PICK l \in {"idle", "done"} :
             Goto(t, l) /\ UNCHANGED <<calls, item>> /\ (t \in Senders \ Repeaters => l = "done")
        BY <1>2 DEF Await, GiveUp, Return
    <2>2. errCh' \in [Channels -> {"empty", "nil", "EPIPE"}]
        BY <1>2 DEF Await, GiveUp, Types, TypeOK
    <2>3. result' \in [Senders -> {"none", "nil", "EPIPE", "ErrSessionShutdown"}]
        <3>1. errCh[Chan(t)] \in {"empty", "nil", "EPIPE"}
            BY ChanNames DEF Types, TypeOK
        <3> QED BY ZenonT(30), <1>2, <3>1 DEF Await, GiveUp, Return, Types, TypeOK
    <2>4. pc' \in [Tasks -> Labels]
        BY <1>t, <2>1, GotoTypes DEF Types, TypeOK, Labels
    <2>5. late' \subseteq Items
        BY <1>2, <1>o DEF Await, GiveUp, Types, TypeOK
    <2>6. controlHdrLock' \in [Old -> Tasks \cup {free}]
        BY <1>2 DEF Await, GiveUp, Return, Types, TypeOK
    <2>7. UNCHANGED <<sessionVars, lock, left, streamVars, sendCh, item, written, calls, peerVars>>
        BY <1>2 DEF Await, GiveUp, Return
    <2>8. TypeOK'
        BY <2>2, <2>3, <2>4, <2>5, <2>6, <2>7 DEF Types, TypeOK, Labels
    <2> QED BY <1>t, <2>1, <2>8, NoCallBegins DEF Types, Labels
<1> QED BY <1>1, <1>2 DEF WaitForSend

(* A call begins: for a task that does not call again it is the first. *)
LEMMA CallTypes ==
    ASSUME Types, NEW t \in Senders, NewCall(t),
           calls[t] < MaxCalls \/ (t \notin Repeaters /\ pc[t] \in {"idle", "register", "unregister"})
    PROVE  /\ calls' \in [Senders -> 0..MaxCalls + 1]
           /\ result' \in [Senders -> {"none", "nil", "EPIPE", "ErrSessionShutdown"}]
<1>1. calls \in [Senders -> 0..MaxCalls + 1] /\ calls[t] \in 0..MaxCalls + 1
    BY DEF Types, TypeOK
<1>2. calls[t] <= MaxCalls
    BY <1>1, BoundAssumption DEF Types, CallsOnce
<1>3. calls[t] + 1 \in 0..MaxCalls + 1
    BY <1>1, <1>2, BoundAssumption
<1> QED BY <1>1, <1>3 DEF NewCall, Types, TypeOK

LEMMA CallBegins ==
    ASSUME Types, NEW t \in Senders, NewCall(t), NEW l \in {"control", "enqueue"}, Goto(t, l),
           item' = item
    PROVE  CallsOnce' /\ UserCloses' /\ SendHolds'
<1>1. pc \in [Tasks -> Labels] /\ t \in Tasks /\ t # user
    BY TaskNames DEF Types, TypeOK, Labels
<1>2. pc'[t] = l /\ \A u \in Tasks \ {t} : pc'[u] = pc[u]
    BY <1>1, GotoTypes DEF Labels
<1>3. UserCloses'
    BY <1>1, <1>2, TaskNames DEF Types, UserCloses
<1>4. \A u \in Senders \ {t} : calls'[u] = calls[u]
    BY DEF NewCall, Types, TypeOK
<1>5. CallsOnce'
    BY <1>2, <1>4, TaskNames DEF Types, CallsOnce
<1>6. SendHolds'
    BY <1>2, TaskNames DEF Types, SendHolds, Items
<1> QED BY <1>3, <1>5, <1>6

LEMMA UserTypes ==
    ASSUME Types, OpenStream \/ OpenRegister \/ AcceptStream \/ AcceptShutdown \/ GoAway
    PROVE  Types'
<1> USE DEF sessionVars, lockVars, streamVars, queueVars, callVars, peerVars
<1>0. pc \in [Tasks -> Labels]
    BY DEF Types, TypeOK, Labels
<1>1. CASE OpenStream
    <2>1. PICK l \in {"done", "register"} : Goto(open, l)
        BY <1>1 DEF OpenStream
    <2>2. open \in Senders /\ open \in Tasks /\ calls' = calls /\ pc[open] = "idle" /\ open \in Senders \ Repeaters
        BY <1>1, TaskNames DEF OpenStream
    <2>3. pc' \in [Tasks -> Labels] /\ pc'[open] = l /\ \A u \in Tasks \ {open} : pc'[u] = pc[u]
        BY <1>0, <2>1, <2>2, GotoTypes DEF Labels
    <2>4. TypeOK'
        BY <1>1, <2>3 DEF OpenStream, Types, TypeOK, Labels
    <2>5. CallsOnce' /\ UserCloses' /\ SendHolds'
        BY <1>1, <2>2, <2>3, TaskNames DEF OpenStream, Types, CallsOnce, UserCloses, SendHolds, Items
    <2> QED BY <2>4, <2>5 DEF Types
<1>2. CASE OpenRegister
    <2>1. open \in Senders /\ open \in Tasks /\ open \notin Repeaters
          /\ NewCall(open) /\ Goto(open, "enqueue") /\ item' = item
        BY <1>2, TaskNames DEF OpenRegister
    <2>2. pc' \in [Tasks -> Labels]
        BY <1>0, <2>1, GotoTypes DEF Labels
    <2>3. /\ calls' \in [Senders -> 0..MaxCalls + 1]
          /\ result' \in [Senders -> {"none", "nil", "EPIPE", "ErrSessionShutdown"}]
        BY <1>2, <2>1, CallTypes DEF OpenRegister
    <2>4. TypeOK'
        BY <1>2, <2>2, <2>3, StreamNames DEF OpenRegister, Types, TypeOK, Labels
    <2> QED BY <2>1, <2>4, CallBegins DEF Types
<1>3. CASE AcceptStream
    <2>1. accept \in Senders /\ accept \in Tasks /\ accept \notin Repeaters
          /\ NewCall(accept) /\ Goto(accept, "enqueue") /\ item' = item
        BY <1>3, TaskNames DEF AcceptStream
    <2>2. pc' \in [Tasks -> Labels]
        BY <1>0, <2>1, GotoTypes DEF Labels
    <2>3. /\ calls' \in [Senders -> 0..MaxCalls + 1]
          /\ result' \in [Senders -> {"none", "nil", "EPIPE", "ErrSessionShutdown"}]
        BY <1>3, <2>1, CallTypes DEF AcceptStream
    <2>4. accepted' \in Incoming /\ acceptCh' \in Seq(Incoming) /\ Len(acceptCh') <= AcceptBacklog
        BY <1>3, BoundAssumption DEF AcceptStream, Types, TypeOK
    <2>5. TypeOK'
        BY <1>3, <2>2, <2>3, <2>4 DEF AcceptStream, Types, TypeOK, Labels
    <2> QED BY <2>1, <2>5, CallBegins DEF Types
<1>4. CASE AcceptShutdown
    <2>1. accept \in Tasks /\ accept # user /\ Goto(accept, "done") /\ UNCHANGED <<calls, item>>
        BY <1>4, TaskNames DEF AcceptShutdown
    <2>2. pc' \in [Tasks -> Labels]
        BY <1>0, <2>1, GotoTypes DEF Labels
    <2>3. TypeOK'
        BY <1>4, <2>2 DEF AcceptShutdown, Types, TypeOK, Labels
    <2> QED BY <2>1, <2>3, NoCallBegins DEF Types, Labels
<1>5. CASE GoAway
    <2>1. announce \in Senders /\ announce \in Tasks /\ announce \notin Repeaters
          /\ NewCall(announce) /\ Goto(announce, "enqueue") /\ item' = item
        BY <1>5, TaskNames DEF GoAway
    <2>2. pc' \in [Tasks -> Labels]
        BY <1>0, <2>1, GotoTypes DEF Labels
    <2>3. /\ calls' \in [Senders -> 0..MaxCalls + 1]
          /\ result' \in [Senders -> {"none", "nil", "EPIPE", "ErrSessionShutdown"}]
        BY <1>5, <2>1, CallTypes DEF GoAway
    <2>4. TypeOK'
        BY <1>5, <2>2, <2>3 DEF GoAway, Types, TypeOK, Labels
    <2> QED BY <2>1, <2>4, CallBegins DEF Types
<1> QED BY <1>1, <1>2, <1>3, <1>4, <1>5

LEMMA CloserTypes ==
    ASSUME Types, NEW t \in Closers \cap Users, StreamClose(t) \/ StreamUnregister(t)
    PROVE  Types'
<1> USE DEF sessionVars, lockVars, streamVars, queueVars, callVars, peerVars
<1>1. /\ pc \in [Tasks -> Labels] /\ t \in Tasks /\ t \in Senders /\ t \notin Repeaters /\ t # user
      /\ t[2] \in Streams /\ item' = item
    BY TaskNames, StreamNames DEF StreamClose, StreamUnregister, Types, TypeOK, Labels
<1>2. CASE StreamClose(t)
    <2>1. lock' \in [{"shutdown", "stream"} \cup Streams -> Tasks \cup {free}]
        BY <1>1, <1>2 DEF StreamClose, Types, TypeOK
    <2>2. state' \in [Streams -> {"none", "Open", "LocalClose", "RemoteClose", "Closed", "Reset"}]
        BY <1>1, <1>2 DEF StreamClose, Types, TypeOK
    <2>3. CASE NewCall(t) /\ Goto(t, "control")
        <3>1. /\ calls' \in [Senders -> 0..MaxCalls + 1]
              /\ result' \in [Senders -> {"none", "nil", "EPIPE", "ErrSessionShutdown"}]
            BY <1>1, <1>2, <2>3, CallTypes DEF StreamClose
        <3>2. pc' \in [Tasks -> Labels]
            BY <1>1, <2>3, GotoTypes DEF Labels
        <3>3. TypeOK'
            BY <1>2, <2>1, <2>2, <3>1, <3>2 DEF StreamClose, Types, TypeOK, Labels
        <3> QED BY <1>1, <2>3, <3>3, CallBegins DEF Types
    <2>4. ASSUME NEW l \in {"unregister", "done"}, Goto(t, l), UNCHANGED callVars PROVE Types'
        <3>1. pc' \in [Tasks -> Labels]
            BY <1>1, <2>4, GotoTypes DEF Labels
        <3>2. TypeOK'
            BY <1>2, <2>1, <2>2, <2>4, <3>1 DEF StreamClose, Types, TypeOK, Labels
        <3>3. calls[t] = 0
            BY <1>1, <1>2 DEF StreamClose, Types, CallsOnce
        <3> QED BY <1>1, <2>4, <3>2, <3>3, NoCallBegins DEF Types, Labels
    <2> QED BY <1>2, <2>3, <2>4 DEF StreamClose
<1>3. CASE StreamUnregister(t)
    <2>1. NewCall(t) /\ Goto(t, "control")
        BY <1>3 DEF StreamUnregister
    <2>2. /\ calls' \in [Senders -> 0..MaxCalls + 1]
          /\ result' \in [Senders -> {"none", "nil", "EPIPE", "ErrSessionShutdown"}]
        BY <1>1, <1>3, <2>1, CallTypes DEF StreamUnregister
    <2>3. pc' \in [Tasks -> Labels]
        BY <1>1, <2>1, GotoTypes DEF Labels
    <2>4. TypeOK'
        BY <1>1, <1>3, <2>2, <2>3 DEF StreamUnregister, Types, TypeOK, Labels
    <2> QED BY <1>1, <2>1, <2>4, CallBegins DEF Types
<1> QED BY <1>2, <1>3

LEMMA RepeaterTypes ==
    ASSUME Types, NEW t \in Repeaters \cap Users, StreamWrite(t) \/ StreamRead(t)
    PROVE  Types'
<1> USE DEF sessionVars, lockVars, streamVars, queueVars, callVars, peerVars
<1>1. pc \in [Tasks -> Labels] /\ t \in Tasks /\ t \in Senders /\ t # user /\ item' = item
    BY TaskNames DEF StreamWrite, StreamRead, Types, TypeOK, Labels
<1>2. ASSUME NEW l \in {"control", "enqueue"}, NewCall(t), Goto(t, l) PROVE Types'
    <2>1. /\ calls' \in [Senders -> 0..MaxCalls + 1]
          /\ result' \in [Senders -> {"none", "nil", "EPIPE", "ErrSessionShutdown"}]
        BY <1>1, <1>2, CallTypes DEF StreamWrite, StreamRead
    <2>2. pc' \in [Tasks -> Labels]
        BY <1>1, <1>2, GotoTypes DEF Labels
    <2>3. TypeOK'
        BY <2>1, <2>2 DEF StreamWrite, StreamRead, Types, TypeOK, Labels
    <2> QED BY <1>1, <1>2, <2>3, CallBegins DEF Types
<1>3. CASE Goto(t, "done") /\ UNCHANGED callVars
    <2>1. pc' \in [Tasks -> Labels]
        BY <1>1, <1>3, GotoTypes DEF Labels
    <2>2. TypeOK'
        BY <1>3, <2>1 DEF StreamWrite, StreamRead, Types, TypeOK, Labels
    <2> QED BY <1>1, <1>3, <2>2, NoCallBegins DEF Types, Labels
<1> QED BY <1>2, <1>3 DEF StreamWrite, StreamRead

LEMMA ControlTypes ==
    ASSUME Types, NEW t \in Controllers \cap Users, Control(t)
    PROVE  Types'
<1> USE DEF sessionVars, lockVars, streamVars, queueVars, callVars, peerVars
<1>1. pc \in [Tasks -> Labels] /\ t \in Tasks /\ t # user /\ t[2] \in Old
    BY TaskNames, TaskKinds DEF Types, TypeOK, Labels
<1>2. Goto(t, "enqueue") /\ UNCHANGED <<calls, item>>
    BY DEF Control
<1>3. pc' \in [Tasks -> Labels]
    BY <1>1, <1>2, GotoTypes DEF Labels
<1>4. controlHdrLock' \in [Old -> Tasks \cup {free}]
    BY <1>1 DEF Control, Types, TypeOK
<1>5. TypeOK'
    BY <1>3, <1>4 DEF Control, Types, TypeOK, Labels
<1> QED BY <1>1, <1>2, <1>5, NoCallBegins DEF Types, Labels

LEMMA SendTypes ==
    ASSUME Types, Send \/ SendWrite
    PROVE  Types'
<1> USE DEF sessionVars, lockVars, streamVars, queueVars, callVars, peerVars
<1>1. PICK l \in {"idle", "write", "exit", "done"} : Goto(send, l) /\ calls' = calls
    BY DEF Send, SendTake, SendWrite, SendError, SendStop
<1>2. pc \in [Tasks -> Labels] /\ send \in Tasks /\ send # user /\ send \notin Senders
    BY TaskNames DEF Types, TypeOK, Labels
<1>3. pc' \in [Tasks -> Labels]
    BY <1>1, <1>2, GotoTypes DEF Labels
<1>4. errCh' \in [Channels -> {"empty", "nil", "EPIPE"}]
    BY DEF Send, SendTake, SendWrite, SendError, SendStop, Reply, Types, TypeOK
<1>5. /\ sendCh' \in Seq(Items) /\ Len(sendCh') <= QueueSize
      /\ item' = item \/ item' \in Items
      /\ l = "write" => item' \in Items
    <2>1. CASE SendTake
        BY <2>1, BoundAssumption DEF SendTake, Types, TypeOK
    <2>2. CASE ~SendTake
        <3>1. sendCh' = sendCh /\ item' = item
            BY <2>2 DEF Send, SendWrite, SendError, SendStop
        <3>2. Goto(send, "idle") \/ Goto(send, "exit") \/ Goto(send, "done")
            BY <2>2 DEF Send, SendWrite, SendError, SendStop
        <3>3. l # "write"
            BY <1>1, <1>2, <3>2 DEF Goto
        <3> QED BY <3>1, <3>3 DEF Types, TypeOK
    <2> QED BY <2>1, <2>2
<1>6. written' \subseteq Items /\ late' = late
    <2>1. CASE SendWrite
        BY <2>1 DEF SendWrite, Types, TypeOK, SendHolds
    <2>2. CASE Send
        BY <2>2 DEF Send, SendTake, SendError, SendStop, Types, TypeOK
    <2> QED BY <2>1, <2>2
<1>7. cause' \in [{recv, send} -> Errors \cup {"nil"}]
    BY DEF Send, SendTake, SendWrite, SendError, SendStop, Types, TypeOK, Errors
<1>8. TypeOK'
    BY <1>1, <1>3, <1>4, <1>5, <1>6, <1>7 DEF Send, SendTake, SendWrite, SendError, SendStop, Types, TypeOK, Labels
<1> QED BY <1>1, <1>2, <1>5, <1>8, NoCallBegins DEF Types, Labels

LEMMA RecvTypes ==
    ASSUME Types, RecvHolds,
           Recv \/ RecvGoAway \/ PeerHangsUp \/ \E kind \in Kinds, s \in Streams : RecvFrame(kind, s)
    PROVE  Types'
<1> USE DEF sessionVars, lockVars, streamVars, queueVars, callVars, peerVars
<1>1. pc \in [Tasks -> Labels] /\ recv \in Tasks /\ recv # user /\ recv \notin Senders
    BY TaskNames DEF Types, TypeOK, Labels
<1>b. item' = item
    BY DEF Recv, RecvError, RecvLookup, RecvFlags, RecvUnregister, RecvIncoming, SendNoWait,
           NoWaitShutdown, RecvGoAway, PeerHangsUp, RecvFrame
<1>a. ASSUME TypeOK', NEW l \in Labels \ {"write"}, Goto(recv, l), calls' = calls PROVE Types'
    BY <1>1, <1>a, <1>b, NoCallBegins DEF Types, Labels
<1>2. CASE RecvGoAway \/ PeerHangsUp
    <2>1. frames' \in 0..MaxFrames
        BY <1>2, BoundAssumption DEF RecvGoAway, PeerHangsUp, Types, TypeOK
    <2>2. TypeOK'
        BY <1>2, <2>1 DEF RecvGoAway, PeerHangsUp, Types, TypeOK
    <2>3. CallsOnce' /\ UserCloses' /\ SendHolds'
        BY <1>2 DEF RecvGoAway, PeerHangsUp, Types, CallsOnce, UserCloses, SendHolds, Items
    <2> QED BY <2>2, <2>3 DEF Types
<1>3. ASSUME NEW kind \in Kinds, NEW s \in Streams, RecvFrame(kind, s) PROVE Types'
    <2>1. PICK l \in {"lookup", "refuse", "incoming", "pong"} : Goto(recv, l) /\ calls' = calls
        BY <1>3 DEF RecvFrame
    <2>2. pc' \in [Tasks -> Labels]
        BY <1>1, <2>1, GotoTypes DEF Labels
    <2>3. TypeOK'
        BY <1>3, <2>2, BoundAssumption DEF RecvFrame, Types, TypeOK, Labels
    <2> QED BY <1>a, <2>1, <2>3 DEF Labels
<1>4. CASE RecvError
    <2>1. pc' \in [Tasks -> Labels] /\ Goto(recv, "exit")
        BY <1>1, <1>4, GotoTypes DEF RecvError, Labels
    <2>2. cause' \in [{recv, send} -> Errors \cup {"nil"}]
        BY <1>4 DEF RecvError, Fails, Types, TypeOK, Errors
    <2>3. TypeOK'
        BY <1>4, <2>1, <2>2 DEF RecvError, Fails, Types, TypeOK, Labels
    <2> QED BY <1>4, <1>a, <2>1, <2>3 DEF RecvError, Labels
<1>5. CASE RecvLookup
    <2>1. PICK l \in {"flags", "idle"} : Goto(recv, l) /\ calls' = calls
        BY <1>5 DEF RecvLookup
    <2>2. pc' \in [Tasks -> Labels]
        BY <1>1, <2>1, GotoTypes DEF Labels
    <2>3. TypeOK'
        BY <1>5, <2>2 DEF RecvLookup, Types, TypeOK, Labels
    <2> QED BY <1>a, <2>1, <2>3 DEF Labels
<1>6. CASE RecvFlags
    <2>1. PICK l \in {"idle", "unregister", "goaway"} : Goto(recv, l) /\ calls' = calls
        BY <1>6 DEF RecvFlags
    <2>2. pc' \in [Tasks -> Labels]
        BY <1>1, <2>1, GotoTypes DEF Labels
    <2>3. lock' \in [{"shutdown", "stream"} \cup Streams -> Tasks \cup {free}]
        <3>1. lock' = lock \/ lock' = [lock EXCEPT ![frame.id] = recv]
            BY <1>6 DEF RecvFlags
        <3>2. lock \in [{"shutdown", "stream"} \cup Streams -> Tasks \cup {free}]
            BY DEF Types, TypeOK
        <3> QED BY <1>1, <3>1, <3>2
    <2>4. state' \in [Streams -> {"none", "Open", "LocalClose", "RemoteClose", "Closed", "Reset"}]
        BY <1>6 DEF RecvFlags, Types, TypeOK
    <2>5. cause' \in [{recv, send} -> Errors \cup {"nil"}] /\ localGoAway' \in BOOLEAN
          /\ UNCHANGED <<shutdown, shutdownErr, connClosed>>
        <3>1. \/ UNCHANGED <<sessionVars, localGoAway>>
              \/ localGoAway' = TRUE /\ Fails("ErrUnexpectedFlag")
            BY <1>6 DEF RecvFlags
        <3>2. "ErrUnexpectedFlag" \in Errors
            BY DEF Errors
        <3> QED BY ZenonT(30), <3>1, <3>2 DEF Fails, Types, TypeOK
    <2>6. TypeOK'
        BY <1>6, <2>2, <2>3, <2>4, <2>5 DEF RecvFlags, Types, TypeOK, Labels
    <2> QED BY <1>a, <2>1, <2>6 DEF Labels
<1>7. CASE RecvUnregister
    <2>1. pc' \in [Tasks -> Labels] /\ Goto(recv, "idle") /\ calls' = calls
        BY <1>1, <1>7, GotoTypes DEF RecvUnregister, Labels
    <2>2. TypeOK'
        BY ZenonT(30), <1>7, <2>1 DEF RecvUnregister, Types, TypeOK, Labels
    <2> QED BY <1>a, <2>1, <2>2 DEF Labels
<1>8. CASE RecvIncoming
    <2>1. PICK l \in {"goaway", "idle", "refuse"} : Goto(recv, l) /\ calls' = calls
        BY <1>8 DEF RecvIncoming
    <2>2. pc' \in [Tasks -> Labels]
        BY <1>1, <2>1, GotoTypes DEF Labels
    <2>3. lock' \in [{"shutdown", "stream"} \cup Streams -> Tasks \cup {free}]
        BY <1>1, <1>8 DEF RecvIncoming, Types, TypeOK
    <2>4. cause' \in [{recv, send} -> Errors \cup {"nil"}] /\ localGoAway' \in BOOLEAN
          /\ UNCHANGED <<shutdown, shutdownErr, connClosed>>
        <3>1. \/ UNCHANGED <<sessionVars, localGoAway>>
              \/ localGoAway' = TRUE /\ Fails("ErrDuplicateStream")
            BY <1>8 DEF RecvIncoming
        <3>2. "ErrDuplicateStream" \in Errors
            BY DEF Errors
        <3> QED BY ZenonT(30), <3>1, <3>2 DEF Fails, Types, TypeOK
    <2>5. streams' \subseteq Streams
          /\ state' \in [Streams -> {"none", "Open", "LocalClose", "RemoteClose", "Closed", "Reset"}]
          /\ acceptCh' \in Seq(Incoming) /\ Len(acceptCh') <= AcceptBacklog /\ accepted' = accepted
        <3>1. CASE UNCHANGED streamVars
            BY <3>1 DEF Types, TypeOK
        <3>2. CASE frame.id \notin streams /\ Len(acceptCh) < AcceptBacklog
            <4>1. frame.id \in Incoming /\ frame.id \in Streams
                BY <1>8, StreamNames DEF RecvIncoming, RecvHolds
            <4>2. /\ streams' = streams \cup {frame.id} /\ state' = [state EXCEPT ![frame.id] = "Open"]
                  /\ acceptCh' = Append(acceptCh, frame.id) /\ accepted' = accepted
                <5>1. ~(Len(acceptCh) >= AcceptBacklog)
                    BY <3>2, BoundAssumption DEF Types, TypeOK
                <5> QED BY <1>8, <3>2, <5>1 DEF RecvIncoming
            <4>3. acceptCh' \in Seq(Incoming) /\ Len(acceptCh') <= AcceptBacklog
                BY <3>2, <4>1, <4>2, BoundAssumption DEF Types, TypeOK
            <4> QED BY <4>1, <4>2, <4>3 DEF Types, TypeOK
        <3> QED BY <1>8, <3>1, <3>2 DEF RecvIncoming
    <2>6. TypeOK'
        BY <1>8, <2>2, <2>3, <2>4, <2>5 DEF RecvIncoming, Types, TypeOK, Labels
    <2> QED BY <1>a, <2>1, <2>6 DEF Labels
<1>9. CASE SendNoWait
    <2>1. PICK l \in {"exit", "idle"} : Goto(recv, l) /\ calls' = calls
        BY <1>9 DEF SendNoWait
    <2>2. pc' \in [Tasks -> Labels]
        BY <1>1, <2>1, GotoTypes DEF Labels
    <2>3. Item(recv, pc[recv]) \in Items
        BY <1>1, <1>9, BoundAssumption DEF SendNoWait, Item, Items
    <2>4. sendCh' \in Seq(Items) /\ Len(sendCh') <= QueueSize
        BY <1>9, <2>3, BoundAssumption DEF SendNoWait, Room, Types, TypeOK
    <2>5. lock' \in [{"shutdown", "stream"} \cup Streams -> Tasks \cup {free}]
        BY <1>9 DEF SendNoWait, Unlocked, Types, TypeOK
    <2>6. TypeOK'
        BY <1>9, <2>2, <2>4, <2>5 DEF SendNoWait, Types, TypeOK, Labels
    <2> QED BY <1>a, <2>1, <2>6 DEF Labels
<1>10. CASE NoWaitShutdown
    <2>1. PICK l \in {"exit", "idle"} : Goto(recv, l) /\ calls' = calls
        BY <1>10 DEF NoWaitShutdown
    <2>2. pc' \in [Tasks -> Labels]
        BY <1>1, <2>1, GotoTypes DEF Labels
    <2>3. lock' \in [{"shutdown", "stream"} \cup Streams -> Tasks \cup {free}]
        BY <1>10 DEF NoWaitShutdown, Unlocked, Types, TypeOK
    <2>4. cause' \in [{recv, send} -> Errors \cup {"nil"}]
          /\ UNCHANGED <<shutdown, shutdownErr, connClosed>>
        <3>1. cause \in [{recv, send} -> Errors \cup {"nil"}] /\ "ErrSessionShutdown" \in Errors
            BY DEF Types, TypeOK, Errors
        <3>2. CASE UNCHANGED sessionVars
            BY <3>1, <3>2 DEF sessionVars
        <3>3. CASE Fails("ErrSessionShutdown")
            BY <3>1, <3>3 DEF Fails
        <3> QED BY <1>10, <3>2, <3>3 DEF NoWaitShutdown
    <2>5. TypeOK'
        BY <1>10, <2>2, <2>3, <2>4 DEF NoWaitShutdown, Types, TypeOK, Labels
    <2> QED BY <1>a, <2>1, <2>5 DEF Labels
<1> QED BY <1>2, <1>3, <1>4, <1>5, <1>6, <1>7, <1>8, <1>9, <1>10 DEF Recv

LEMMA NextTypes ==
    ASSUME Types, RecvHolds, [Next]_vars
    PROVE  Types'
<1>1. CASE UNCHANGED vars
    BY <1>1 DEF vars, sessionVars, lockVars, streamVars, queueVars, callVars, peerVars, Types,
                TypeOK, CallsOnce, UserCloses, SendHolds, Items
<1>2. CASE CloseCall
    <2>1. recv \in {user, recv, send} \cap Tasks
        BY TaskNames
    <2> QED BY <1>2, <2>1, CloseTypes
<1>3. CASE Next /\ ~CloseCall
    BY <1>3, CloseTypes, WaitTypes, UserTypes, CloserTypes, RepeaterTypes, ControlTypes, SendTypes, RecvTypes,
       TaskKinds DEF Next
<1> QED BY <1>1, <1>2, <1>3

(* Steps of all but recv leave recv and its frame alone. *)
LEMMA RecvUndisturbed ==
    ASSUME Types, Next
    PROVE  \/ Recv \/ Close(recv) \/ \E kind \in Kinds, s \in Streams : RecvFrame(kind, s)
           \/ pc'[recv] = pc[recv] /\ frame' = frame
<1> USE DEF sessionVars, lockVars, streamVars, queueVars, callVars, peerVars
<1>1. ASSUME NEW t \in Tasks \ {recv}, NEW l \in Labels, Goto(t, l) PROVE pc'[recv] = pc[recv]
    BY <1>1, GotoTypes, TaskNames DEF Types, TypeOK, Labels
<1> USE DEF Labels
<1>2. CASE CloseCall
    BY <1>1, <1>2, TaskNames DEF CloseCall
<1>3. CASE \E t \in {user, send} \cap Tasks : Close(t)
    <2>1. PICK t \in {user, send} \cap Tasks : Close(t)
        BY <1>3
    <2>2. t \in Tasks \ {recv} /\ frame' = frame /\ (pc' = pc \/ \E l \in Labels : Goto(t, l))
        BY <2>1, TaskNames DEF Close, ExitErr, CloseBegin, CloseNotify, HangUp, CloseLock, CloseEnd, ForceClose
    <2> QED BY <1>1, <2>2
<1>4. ASSUME NEW t \in Senders, WaitForSend(t) PROVE pc'[recv] = pc[recv] /\ frame' = frame
    <2>1. t \in Tasks \ {recv} /\ frame' = frame /\ \E l \in Labels : Goto(t, l)
        BY <1>4, TaskNames DEF WaitForSend, Enqueue, Await, GiveUp, Return
    <2> QED BY <1>1, <2>1
<1>5. CASE OpenStream \/ OpenRegister \/ AcceptStream \/ AcceptShutdown \/ GoAway
    <2>1. frame' = frame /\ \E t \in {open, accept, announce} \cap Users, l \in Labels : Goto(t, l)
        BY <1>5 DEF OpenStream, OpenRegister, AcceptStream, AcceptShutdown, GoAway
    <2> QED BY <1>1, <2>1, TaskNames
<1>6. ASSUME NEW t \in Users,
             StreamClose(t) \/ StreamUnregister(t) \/ StreamWrite(t) \/ StreamRead(t) \/ Control(t)
      PROVE  pc'[recv] = pc[recv] /\ frame' = frame
    <2>1. t \in Tasks \ {recv} /\ frame' = frame /\ \E l \in Labels : Goto(t, l)
        BY <1>6, TaskNames DEF StreamClose, StreamUnregister, StreamWrite, StreamRead, Control
    <2> QED BY <1>1, <2>1
<1>7. CASE Send \/ SendWrite
    <2>1. frame' = frame /\ \E l \in Labels : Goto(send, l)
        BY <1>7 DEF Send, SendTake, SendError, SendStop, SendWrite
    <2> QED BY <1>1, <2>1, TaskNames
<1>8. CASE PeerHangsUp \/ RecvGoAway
    BY <1>8 DEF PeerHangsUp, RecvGoAway
<1> QED BY <1>2, <1>3, <1>4, <1>5, <1>6, <1>7, <1>8 DEF Next

(* Which actions move a task. *)
LEMMA Movers ==
    ASSUME Types, Next, NEW t \in Tasks, pc'[t] # pc[t]
    PROVE  \/ t = recv /\ (Recv \/ \E kind \in Kinds, s \in Streams : RecvFrame(kind, s))
           \/ t = send /\ (Send \/ SendWrite)
           \/ t = user /\ CloseCall
           \/ t \in {user, recv, send} /\ Close(t)
           \/ t \in Senders /\ WaitForSend(t)
           \/ t = open /\ (OpenStream \/ OpenRegister)
           \/ t = accept /\ (AcceptStream \/ AcceptShutdown)
           \/ t = announce /\ GoAway
           \/ t \in Closers \cap Users /\ (StreamClose(t) \/ StreamUnregister(t))
           \/ t \in Writers \cap Users /\ StreamWrite(t)
           \/ t \in Updaters \cap Users /\ StreamRead(t)
           \/ t \in Controllers \cap Users /\ Control(t)
<1>1. pc \in [Tasks -> Labels]
    BY DEF Types, TypeOK, Labels
<1>2. ASSUME NEW u, NEW l, Goto(u, l) PROVE u = t
    BY <1>1, <1>2 DEF Goto
<1>3. ~PeerHangsUp /\ ~RecvGoAway
    BY DEF PeerHangsUp, RecvGoAway
<1>4. CASE CloseCall
    BY <1>2, <1>4 DEF CloseCall
<1>5. ASSUME NEW u, Close(u) PROVE u = t
    BY <1>2, <1>5 DEF Close, ExitErr, CloseBegin, CloseNotify, HangUp, CloseLock, CloseEnd, ForceClose
<1>6. ASSUME NEW u, WaitForSend(u) PROVE u = t
    BY <1>2, <1>6 DEF WaitForSend, Enqueue, Await, GiveUp, Return
<1>7. ASSUME NEW u,
             StreamClose(u) \/ StreamUnregister(u) \/ StreamWrite(u) \/ StreamRead(u) \/ Control(u)
      PROVE  u = t
    BY <1>2, <1>7 DEF StreamClose, StreamUnregister, StreamWrite, StreamRead, Control
<1>8. OpenStream \/ OpenRegister => t = open
    BY <1>2 DEF OpenStream, OpenRegister
<1>9. AcceptStream \/ AcceptShutdown => t = accept
    BY <1>2 DEF AcceptStream, AcceptShutdown
<1>10. GoAway => t = announce
    BY <1>2 DEF GoAway
<1>11. Send \/ SendWrite => t = send
    BY <1>2 DEF Send, SendTake, SendError, SendStop, SendWrite
<1>12. Recv \/ (\E kind \in Kinds, s \in Streams : RecvFrame(kind, s)) => t = recv
    BY <1>2 DEF Recv, RecvError, RecvLookup, RecvFlags, RecvUnregister, RecvIncoming, SendNoWait,
                NoWaitShutdown, RecvFrame
<1> QED BY <1>3, <1>4, <1>5, <1>6, <1>7, <1>8, <1>9, <1>10, <1>11, <1>12 DEF Next

LEMMA NextRecvHolds ==
    ASSUME Types, RecvHolds, [Next]_vars
    PROVE  RecvHolds'
<1> USE DEF sessionVars, lockVars, streamVars, queueVars, callVars, peerVars
<1>t. pc \in [Tasks -> Labels] /\ recv \in Tasks
    BY TaskNames DEF Types, TypeOK, Labels
<1>1. CASE UNCHANGED vars \/ (pc'[recv] = pc[recv] /\ frame' = frame)
    BY <1>1 DEF vars, RecvHolds
<1>2. CASE \E kind \in Kinds, s \in Streams : RecvFrame(kind, s)
    <2>1. PICK kind \in Kinds, s \in Streams : RecvFrame(kind, s)
        BY <1>2
    <2>2. PICK l \in Labels : Goto(recv, l) /\ (l = "incoming" => s \in Incoming)
        BY <2>1 DEF RecvFrame, Labels
    <2>3. pc'[recv] = l
        BY <1>t, <2>2 DEF Goto
    <2>4. frame' = [kind |-> kind, id |-> s]
        BY <2>1 DEF RecvFrame
    <2> QED BY <2>2, <2>3, <2>4 DEF RecvHolds
<1>3. CASE Recv
    <2>1. frame' = frame
        BY <1>3 DEF Recv, RecvError, RecvLookup, RecvFlags, RecvUnregister, RecvIncoming, SendNoWait,
                    NoWaitShutdown
    <2>2. PICK l \in Labels \ {"incoming"} :
             /\ Goto(recv, l)
             /\ l \in {"lookup", "flags", "unregister"} =>
                   pc[recv] \in {"lookup", "flags", "unregister", "incoming"}
        BY <1>3 DEF Recv, RecvError, RecvLookup, RecvFlags, RecvUnregister, RecvIncoming, SendNoWait,
                    NoWaitShutdown, Labels
    <2>3. pc'[recv] = l
        BY <1>t, <2>2 DEF Goto
    <2> QED BY <2>1, <2>2, <2>3 DEF RecvHolds
<1>4. CASE Close(recv)
    <2>1. frame' = frame /\ (pc' = pc \/ \E l \in Closing \cup {"close", "done"} : Goto(recv, l))
        BY <1>4 DEF Close, ExitErr, CloseBegin, CloseNotify, HangUp, CloseLock, CloseEnd, ForceClose, Closing
    <2>2. pc' = pc \/ pc'[recv] \in Closing \cup {"close", "done"}
        BY <1>t, <2>1 DEF Goto
    <2> QED BY <2>1, <2>2 DEF RecvHolds, Closing
<1> QED BY <1>1, <1>2, <1>3, <1>4, RecvUndisturbed

LEMMA InitRecvHolds == Init => RecvHolds
    BY InitLabels DEF RecvHolds

(* TypeOK for every instance: the channels keep to their capacity, no state is set that is
   none of the six, and no lock is held by anybody but a goroutine of the session. *)
THEOREM TypesHold == Spec => []TypeOK
<1>1. Types => TypeOK
    BY DEF Types
<1> QED BY InitTypes, InitRecvHolds, NextTypes, NextRecvHolds, <1>1, PTL DEF Spec

-----------------------------------------------------------------------------
(* The error of a session *)

LEMMA ErrorKept ==
    ASSUME Types, ErrorSet, [Next]_vars
    PROVE  /\ shutdownErr # "nil" => shutdownErr' = shutdownErr
           /\ shutdown => shutdown'
           /\ shutdown' => shutdown \/ shutdownErr' # "nil"
<1> USE DEF sessionVars
<1>1. ASSUME NEW t \in Tasks, Close(t)
      PROVE  /\ shutdownErr # "nil" => shutdownErr' = shutdownErr
             /\ shutdown => shutdown'
             /\ shutdown' => shutdown \/ shutdownErr' # "nil"
    BY <1>1 DEF ErrorSet, Close, ExitErr, CloseBegin, CloseNotify, HangUp, CloseLock, CloseEnd, ForceClose, KeepFirst
<1>2. ASSUME Next, \A t \in Tasks : ~Close(t) PROVE UNCHANGED <<shutdown, shutdownErr>>
    BY <1>2 DEF Next, CloseCall, PeerHangsUp, WaitForSend, Enqueue, Await, GiveUp, Return, OpenStream,
        OpenRegister, AcceptStream, AcceptShutdown, GoAway, StreamClose, StreamUnregister,
        StreamWrite, StreamRead, Control, Send, SendTake, SendError, SendStop, SendWrite, Recv, RecvError, RecvLookup,
        RecvFlags, RecvUnregister, RecvIncoming, SendNoWait, NoWaitShutdown, RecvGoAway, RecvFrame,
        Fails
<1> QED BY <1>1, <1>2 DEF vars

-----------------------------------------------------------------------------
(* Who may close: OneCloser *)

(* Steps that are not of exitErr or Close move a task from one label to another, none of
   them one of Close, and touch neither the flags nor shutdownLock. *)
LEMMA OtherSteps ==
    ASSUME Types, RecvHolds, Next, ~\E t \in {user, recv, send} \cap Tasks : Close(t)
    PROVE  /\ UNCHANGED <<shutdown, connClosed, left>> /\ lock'["shutdown"] = lock["shutdown"]
           /\ pc' = pc \/ \E t \in Tasks, l \in Labels \ Closing :
                             Goto(t, l) /\ pc[t] \notin Closing
<1> USE DEF sessionVars, lockVars, streamVars, queueVars, callVars, peerVars
<1>l. /\ lock \in [{"shutdown", "stream"} \cup Streams -> Tasks \cup {free}]
      /\ "shutdown" \notin Streams /\ "shutdown" # "stream"
    BY StreamNames DEF Types, TypeOK
<1>1. CASE CloseCall
    BY <1>1, TaskNames DEF CloseCall, Labels, Closing
<1>2. CASE PeerHangsUp \/ RecvGoAway
    BY <1>2 DEF PeerHangsUp, RecvGoAway
<1>3. ASSUME NEW t \in Senders, WaitForSend(t)
      PROVE  /\ UNCHANGED <<shutdown, connClosed, left>> /\ lock' = lock
             /\ \E l \in Labels \ Closing : Goto(t, l) /\ pc[t] \notin Closing
    BY <1>3 DEF WaitForSend, Enqueue, Await, GiveUp, Return, Labels, Closing
<1>4. ASSUME OpenStream \/ OpenRegister \/ AcceptStream \/ AcceptShutdown \/ GoAway
      PROVE  /\ UNCHANGED <<shutdown, connClosed, left>> /\ lock' = lock
             /\ \E t \in {open, accept, announce} \cap Users, l \in Labels \ Closing :
                   Goto(t, l) /\ pc[t] \notin Closing
    BY <1>4 DEF OpenStream, OpenRegister, AcceptStream, AcceptShutdown, GoAway, Labels, Closing
<1>5. ASSUME NEW t \in Closers \cap Users, StreamClose(t) \/ StreamUnregister(t)
      PROVE  /\ UNCHANGED <<shutdown, connClosed, left>> /\ lock'["shutdown"] = lock["shutdown"]
             /\ \E l \in Labels \ Closing : Goto(t, l) /\ pc[t] \notin Closing
    <2>1. t[2] \in Streams
        BY TaskNames, StreamNames
    <2> QED BY <1>5, <1>l, <2>1 DEF StreamClose, StreamUnregister, Labels, Closing
<1>6. ASSUME NEW t \in (Repeaters \cup Controllers) \cap Users, StreamWrite(t) \/ StreamRead(t) \/ Control(t)
      PROVE  /\ UNCHANGED <<shutdown, connClosed, left>> /\ lock' = lock
             /\ \E l \in Labels \ Closing : Goto(t, l) /\ pc[t] \notin Closing
    BY <1>6 DEF StreamWrite, StreamRead, Control, Labels, Closing
<1>7. CASE Send \/ SendWrite
    <2>1. /\ UNCHANGED <<shutdown, connClosed, left>> /\ lock' = lock
          /\ \E l \in Labels \ Closing : Goto(send, l) /\ pc[send] \notin Closing
        BY <1>7 DEF Send, SendTake, SendError, SendStop, SendWrite, Labels, Closing
    <2> QED BY <2>1, TaskNames
<1>8. CASE Recv
    <2>1. pc[recv] \in {"lookup", "flags", "unregister", "incoming"} => frame.id \in Streams
        BY DEF RecvHolds
    <2>2. UNCHANGED <<shutdown, connClosed, left>>
        BY <1>8 DEF Recv, RecvError, RecvLookup, RecvFlags, RecvUnregister, RecvIncoming, SendNoWait,
                    NoWaitShutdown, Fails
    <2>3. lock'["shutdown"] = lock["shutdown"]
        BY <1>8, <1>l, <2>1 DEF Recv, RecvError, RecvLookup, RecvFlags, RecvUnregister,
                    RecvIncoming, SendNoWait, NoWaitShutdown, Unlocked
    <2>4. \E l \in Labels \ Closing : Goto(recv, l) /\ pc[recv] \notin Closing
        BY <1>8 DEF Recv, RecvError, RecvLookup, RecvFlags, RecvUnregister, RecvIncoming, SendNoWait,
                    NoWaitShutdown, Labels, Closing
    <2> QED BY <2>2, <2>3, <2>4, TaskNames
<1>9. ASSUME NEW kind \in Kinds, NEW s \in Streams, RecvFrame(kind, s)
      PROVE  /\ UNCHANGED <<shutdown, connClosed, left>> /\ lock' = lock
             /\ \E l \in Labels \ Closing : Goto(recv, l) /\ pc[recv] \notin Closing
    BY <1>9 DEF RecvFrame, Labels, Closing
<1>10. Writers \cup Updaters \cup Controllers \subseteq Repeaters \cup Controllers
    BY TaskKinds
<1> QED BY <1>1, <1>2, <1>3, <1>4, <1>5, <1>6, <1>7, <1>8, <1>9, <1>10, TaskNames DEF Next

LEMMA NextOneCloser ==
    ASSUME Types, RecvHolds, OneCloser, [Next]_vars
    PROVE  OneCloser' /\ (Swept' => Swept \/ \E t \in Tasks : CloseEnd(t))
<1> USE DEF sessionVars, lockVars
<1>t. /\ pc \in [Tasks -> Labels] /\ free \notin Tasks
      /\ lock \in [{"shutdown", "stream"} \cup Streams -> Tasks \cup {free}]
      /\ "shutdown" \notin Streams /\ "shutdown" # "stream"
    BY TaskNames, StreamNames DEF Types, TypeOK, Labels
<1>1. CASE UNCHANGED vars
    BY <1>1 DEF vars, OneCloser, Swept, Free
<1>2. CASE Next /\ ~\E t \in {user, recv, send} \cap Tasks : Close(t)
    <2>1. /\ UNCHANGED <<shutdown, connClosed>> /\ lock'["shutdown"] = lock["shutdown"]
          /\ pc' = pc \/ \E t \in Tasks, l \in Labels \ Closing : Goto(t, l) /\ pc[t] \notin Closing
        BY <1>2, OtherSteps
    <2>2. \A u \in Tasks : /\ pc'[u] \in Closing => pc'[u] = pc[u]
                           /\ pc[u] \in Closing => pc'[u] = pc[u]
        BY <1>t, <2>1 DEF Goto
    <2> QED BY <1>t, <2>1, <2>2 DEF OneCloser, Swept, Free, Closing
<1>3. ASSUME NEW t \in {user, recv, send} \cap Tasks, Close(t)
      PROVE  OneCloser' /\ (Swept' => Swept \/ CloseEnd(t))
    <2>g. ASSUME NEW l \in Labels, Goto(t, l) PROVE pc'[t] = l /\ \A u \in Tasks \ {t} : pc'[u] = pc[u]
        BY <1>t, <2>g DEF Goto
    <2>1. CASE ExitErr(t)
        <3>1. pc'[t] = "close" /\ \A u \in Tasks \ {t} : pc'[u] = pc[u]
            BY <2>1, <2>g DEF ExitErr, Labels
        <3> QED BY <1>t, <2>1, <3>1 DEF ExitErr, OneCloser, Swept, Free, Closing
    <2>2. CASE CloseBegin(t)
        <3>1. CASE shutdown
            <4>1. pc'[t] = "done" /\ \A u \in Tasks \ {t} : pc'[u] = pc[u]
                BY <2>2, <2>g, <3>1 DEF CloseBegin, Labels
            <4> QED BY <1>t, <2>2, <3>1, <4>1 DEF CloseBegin, OneCloser, Swept, Free, Closing
        <3>2. CASE ~shutdown
            <4>1. pc'[t] = "error" /\ \A u \in Tasks \ {t} : pc'[u] = pc[u]
                BY <2>2, <2>g, <3>2 DEF CloseBegin, Labels
            <4>2. /\ ~shutdown' /\ lock'["shutdown"] = t /\ connClosed' = connClosed
                  /\ lock["shutdown"] = free
                BY <1>t, <2>2, <3>2 DEF CloseBegin, Free
            <4> QED BY <1>t, <3>2, <4>1, <4>2 DEF OneCloser, Swept, Free, Closing
        <3> QED BY <3>1, <3>2
    <2>7. CASE CloseNotify(t)
        <3>1. \E l \in {"notify", "hangup"} :
                 /\ pc'[t] = l /\ \A u \in Tasks \ {t} : pc'[u] = pc[u]
                 /\ l = "notify" => shutdown' = shutdown
                 /\ l = "hangup" => shutdown'
            BY <2>7, <2>g DEF CloseNotify, Labels
        <3>2. UNCHANGED <<lock, connClosed>> /\ pc[t] \in Closing /\ (shutdown => shutdown')
            BY <2>7 DEF CloseNotify, Closing
        <3>3. lock["shutdown"] = t
            BY <3>2 DEF OneCloser
        <3>4. ~Swept' /\ \A u \in Tasks \ {t} : pc[u] \notin Closing
            BY <1>t, <3>2, <3>3 DEF OneCloser, Swept, Free
        <3> QED BY <1>t, <3>1, <3>2, <3>3, <3>4 DEF OneCloser, Closing
    <2>3. CASE HangUp(t)
        <3>1. pc'[t] = "lock" /\ \A u \in Tasks \ {t} : pc'[u] = pc[u]
            BY <2>3, <2>g DEF HangUp, Labels
        <3> QED BY <1>t, <2>3, <3>1 DEF HangUp, OneCloser, Swept, Free, Closing
    <2>4. CASE CloseLock(t)
        <3>1. pc'[t] = "sweep" /\ \A u \in Tasks \ {t} : pc'[u] = pc[u]
            BY <2>4, <2>g DEF CloseLock, Labels
        <3>2. lock'["shutdown"] = lock["shutdown"]
            BY <1>t, <2>4 DEF CloseLock
        <3> QED BY <1>t, <2>4, <3>1, <3>2 DEF CloseLock, OneCloser, Swept, Free, Closing
    <2>5. CASE CloseEnd(t)
        <3>1. pc'[t] = "done" /\ \A u \in Tasks \ {t} : pc'[u] = pc[u]
            BY <2>5, <2>g DEF CloseEnd, Labels
        <3>2. lock'["shutdown"] = free
            BY <1>t, <2>5 DEF CloseEnd
        <3> QED BY <1>t, <2>5, <3>1, <3>2 DEF CloseEnd, OneCloser, Swept, Free, Closing
    <2>6. CASE \E s \in Streams : ForceClose(t, s)
        BY <2>6 DEF ForceClose, OneCloser, Swept, Free
    <2> QED BY <1>3, <2>1, <2>2, <2>3, <2>4, <2>5, <2>6, <2>7 DEF Close
<1> QED BY <1>1, <1>2, <1>3

-----------------------------------------------------------------------------
(* The error comes first *)

LEMMA InitErrorSet == Init => ErrorSet
    BY InitLabels DEF ErrorSet

LEMMA NextErrorSet ==
    ASSUME Types, RecvHolds, ErrorSet, [Next]_vars
    PROVE  ErrorSet'
<1>t. pc \in [Tasks -> Labels]
    BY DEF Types, TypeOK, Labels
<1>1. CASE UNCHANGED vars
    BY <1>1 DEF vars, sessionVars, ErrorSet
<1>2. CASE Next
    <2>1. SUFFICES ASSUME NEW t \in Tasks, pc'[t] = "notify" PROVE shutdownErr' # "nil"
        BY DEF ErrorSet
    <2>2. CASE pc[t] = "notify"
        BY <2>2, <1>2, ErrorKept DEF ErrorSet
    <2>3. CASE pc[t] # "notify"
        <3>1. \E u \in {user, recv, send} \cap Tasks : Close(u)
            <4>1. SUFFICES ASSUME ~\E u \in {user, recv, send} \cap Tasks : Close(u) PROVE FALSE
                OBVIOUS
            <4>2. pc' = pc \/ \E u \in Tasks, l \in Labels \ Closing : Goto(u, l)
                BY <1>2, <4>1, OtherSteps
            <4> QED BY <1>t, <2>1, <2>3, <4>2 DEF Goto, Closing
        <3>2. PICK u \in Tasks : Close(u)
            BY <3>1
        <3>3. CloseNotify(u) /\ pc[u] = "error"
            BY <1>t, <2>1, <2>3, <3>2 DEF Close, ExitErr, CloseBegin, CloseNotify, HangUp, CloseLock,
                CloseEnd, ForceClose, Goto
        <3> QED BY <3>3 DEF CloseNotify, KeepFirst
    <2> QED BY <2>2, <2>3
<1> QED BY <1>1, <1>2

(* FirstErrorWins for every instance. *)
THEOREM FirstErrorIsKept == Spec => FirstErrorWins
<1>1. Types /\ ErrorSet /\ [Next]_vars => [shutdownErr # "nil" => shutdownErr' = shutdownErr]_vars
    BY ErrorKept
<1> QED BY InitTypes, InitRecvHolds, InitErrorSet, NextTypes, NextRecvHolds, NextErrorSet, <1>1, PTL
        DEF Spec, FirstErrorWins

(* ErrorBeforeShutdown for every instance: whoever has closed shutdownCh had set the error,
   in a step before it, and no goroutine takes it back in between. *)
THEOREM ErrorComesFirst == Spec => []ErrorBeforeShutdown
<1>1. Init => ErrorBeforeShutdown
    BY DEF Init, ErrorBeforeShutdown
<1>2. ASSUME Types, ErrorSet, ErrorBeforeShutdown, [Next]_vars PROVE ErrorBeforeShutdown'
    <2>1. shutdown' => shutdownErr' # "nil"
        BY <1>2, ErrorKept DEF ErrorBeforeShutdown
    <2>2. accepted' # "nil"
        <3>1. CASE AcceptStream
            <4>1. accepted' \in Incoming
                BY <1>2, <3>1 DEF AcceptStream, Types, TypeOK
            <4> QED BY <4>1, StreamNames
        <3>2. CASE AcceptShutdown
            BY <1>2, <3>2 DEF AcceptShutdown, ErrorBeforeShutdown
        <3>3. CASE ~AcceptStream /\ ~AcceptShutdown
            <4>1. accepted' = accepted
                BY <1>2, <3>3 DEF vars, streamVars, Next, CloseCall, PeerHangsUp, WaitForSend, Enqueue, Await,
                    GiveUp, Return, OpenStream, OpenRegister, GoAway, StreamClose, StreamUnregister,
                    StreamWrite, StreamRead, Control, Send, SendTake, SendError, SendStop, SendWrite, Recv, RecvError,
                    RecvLookup, RecvFlags, RecvUnregister, RecvIncoming, SendNoWait, NoWaitShutdown,
                    RecvGoAway, RecvFrame, Close, ExitErr, CloseBegin, CloseNotify, HangUp, CloseLock, CloseEnd,
                    ForceClose
            <4> QED BY <1>2, <4>1 DEF ErrorBeforeShutdown
        <3> QED BY <3>1, <3>2, <3>3
    <2> QED BY <2>1, <2>2 DEF ErrorBeforeShutdown
<1> QED BY InitTypes, InitRecvHolds, InitErrorSet, NextTypes, NextRecvHolds, NextErrorSet, <1>1, <1>2, PTL
        DEF Spec

-----------------------------------------------------------------------------
(* Which streams live: LiveAreRegistered and BegunOnce *)

(* What enters and leaves the table, and when. *)
Begins(s) == s \in streams' \ streams

LEMMA TableSteps ==
    ASSUME Types, RecvHolds, [Next]_vars
    PROVE  /\ \A s : Begins(s) =>
                 \/ OpenRegister /\ s = Fresh
                 \/ RecvIncoming /\ s = frame.id /\ s \in Incoming
           /\ \A s \in streams \ streams' :
                 \/ \E t \in Closers \cap Users : pc[t] = "unregister" /\ s = t[2]
                 \/ pc[recv] = "unregister" /\ s = frame.id
<1> USE DEF streamVars
<1>1. CASE UNCHANGED vars
    BY <1>1 DEF vars, Begins
<1>2. CASE OpenRegister
    BY <1>2 DEF OpenRegister, Begins
<1>3. CASE RecvIncoming
    <2>1. frame.id \in Incoming
        BY <1>3 DEF RecvIncoming, RecvHolds
    <2> QED BY <1>3, <2>1 DEF RecvIncoming, Begins
<1>4. CASE Next /\ ~OpenRegister /\ ~RecvIncoming
    <2>1. \/ streams' = streams
          \/ \E t \in Closers \cap Users : StreamUnregister(t)
          \/ RecvUnregister
        BY <1>4 DEF Next, CloseCall, PeerHangsUp, WaitForSend, Enqueue, Await, GiveUp, Return, OpenStream,
            AcceptStream, AcceptShutdown, GoAway, StreamClose, StreamWrite, StreamRead, Control, Send, SendTake,
            SendError, SendStop, SendWrite, Recv, RecvError, RecvLookup, RecvFlags,
            SendNoWait, NoWaitShutdown, RecvGoAway, RecvFrame, Close, ExitErr, CloseBegin, CloseNotify, HangUp,
            CloseLock, ForceClose, CloseEnd
    <2> QED BY <2>1 DEF StreamUnregister, RecvUnregister, Begins
<1> QED BY <1>1, <1>2, <1>3, <1>4

LEMMA BeginsOnce ==
    ASSUME Types, RecvHolds, BegunOnce, [Next]_vars, NEW s, Begins(s)
    PROVE  s \in Streams \ Old /\ state[s] = "none" /\ Free("stream")
<1>1. CASE OpenRegister /\ s = Fresh
    BY <1>1, StreamNames, StreamAssumption DEF OpenRegister, BegunOnce
<1>2. CASE RecvIncoming /\ s = frame.id /\ s \in Incoming
    BY <1>2, StreamNames, StreamAssumption DEF RecvIncoming, BegunOnce, Begins
<1> QED BY <1>1, <1>2, TableSteps

(* A step that does not begin a stream leaves it what it was or brings it nearer to its
   end. *)
LEMMA StateSteps ==
    ASSUME Types, RecvHolds, BegunOnce, [Next]_vars
    PROVE  \A s \in Streams :
              /\ Live(s)' => Live(s) \/ Begins(s)
              /\ state[s] # "none" => state'[s] # "none"
              /\ state[s] # "none" /\ ~Live(s) => ~Live(s)'
              /\ state[s] = "none" => state'[s] = "none" \/ Begins(s)
<1> SUFFICES \A s \in Streams :
                /\ Live(s)' => Live(s) \/ Begins(s)
                /\ state[s] # "none" => state'[s] # "none"
                /\ state[s] = "none" => state'[s] = "none" \/ Begins(s)
    BY BeginsOnce
<1> USE DEF streamVars, Live
<1>1. CASE UNCHANGED vars
    BY <1>1 DEF vars
<1>2. CASE state' = state
    BY <1>2
<1>s. state \in [Streams -> {"none", "Open", "LocalClose", "RemoteClose", "Closed", "Reset"}]
    BY DEF Types, TypeOK
<1>3. ASSUME NEW t \in Tasks, NEW s \in Streams, ForceClose(t, s)
      PROVE  state' = [state EXCEPT ![s] = "Closed"] /\ state[s] # "none"
    BY <1>3 DEF ForceClose, BegunOnce
<1>4. CASE OpenRegister
    <2>1. Fresh \notin streams
        BY <1>4, StreamNames DEF OpenRegister, BegunOnce
    <2> QED BY <1>4, <1>s, <2>1, StreamNames DEF OpenRegister, Begins
<1>5. ASSUME NEW t \in Closers \cap Users, StreamClose(t)
      PROVE  \A s \in Streams :
                /\ Live(s)' => Live(s)
                /\ state[s] # "none" => state'[s] # "none"
                /\ state[s] = "none" => state'[s] = "none"
    <2>1. t[2] \in Streams /\ state[t[2]] # "none"
        BY TaskNames, StreamNames DEF BegunOnce
    <2> QED BY <1>5, <1>s, <2>1 DEF StreamClose
<1>6. CASE RecvFlags
    <2>1. frame.id \in Streams /\ state[frame.id] # "none"
        BY <1>6 DEF RecvFlags, RecvHolds, BegunOnce
    <2> QED BY <1>6, <1>s, <2>1 DEF RecvFlags
<1>7. CASE RecvIncoming
    <2>1. frame.id \in Incoming /\ frame.id \in Streams
        BY <1>7, StreamNames DEF RecvIncoming, RecvHolds
    <2> QED BY <1>7, <1>s, <2>1 DEF RecvIncoming, Begins
<1>8. CASE Next /\ ~RecvIncoming /\ ~RecvFlags /\ ~OpenRegister
    <2>1. \/ state' = state
          \/ \E t \in Tasks, s \in Streams : ForceClose(t, s)
          \/ \E t \in Closers \cap Users : StreamClose(t)
        BY <1>8 DEF Next, CloseCall, PeerHangsUp, WaitForSend, Enqueue, Await, GiveUp, Return, OpenStream,
            AcceptStream, AcceptShutdown, GoAway, StreamUnregister, StreamWrite, StreamRead, Control, Send, SendTake,
            SendError, SendStop, SendWrite, Recv, RecvError, RecvLookup, RecvUnregister,
            SendNoWait, NoWaitShutdown, RecvGoAway, RecvFrame, Close, ExitErr, CloseBegin, CloseNotify, HangUp,
            CloseLock, CloseEnd
    <2> QED BY <1>2, <1>3, <1>5, <1>s, <2>1
<1> QED BY <1>1, <1>4, <1>6, <1>7, <1>8

(* streamLock stays with the goroutine that sweeps. *)
LEMMA SweepLock ==
    ASSUME Types, RecvHolds, OneCloser, LiveAreRegistered, [Next]_vars,
           NEW t \in Tasks, pc[t] = "sweep", pc'[t] = "sweep"
    PROVE  lock'["stream"] = t /\ (left' = left \/ \E u \in Tasks, s \in Streams : ForceClose(u, s))
<1> USE DEF lockVars
<1>1. /\ lock["stream"] = t /\ t # free
      /\ lock \in [{"shutdown", "stream"} \cup Streams -> Tasks \cup {free}]
      /\ "stream" \notin Streams /\ "stream" # "shutdown"
    BY TaskNames, StreamNames DEF LiveAreRegistered, Types, TypeOK
<1>2. \A u \in Tasks : pc[u] = "sweep" => u = t
    BY DEF LiveAreRegistered
<1>3. ASSUME NEW u \in {user, recv, send} \cap Tasks, Close(u)
      PROVE  lock'["stream"] = t /\ (left' = left \/ \E w \in Tasks, s \in Streams : ForceClose(w, s))
    <2>1. ~CloseLock(u)
        BY <1>1 DEF CloseLock, Free
    <2>2. ~CloseEnd(u)
        <3>1. SUFFICES ASSUME CloseEnd(u) PROVE FALSE
            OBVIOUS
        <3>2. u = t
            BY <1>2, <3>1 DEF CloseEnd
        <3> QED BY <3>1, <3>2 DEF CloseEnd, Goto, Types, TypeOK
    <2> QED BY <1>1, <1>3, <2>1, <2>2 DEF Close, ExitErr, CloseBegin, CloseNotify, HangUp, ForceClose
<1>4. CASE UNCHANGED vars
    BY <1>1, <1>4 DEF vars
<1>5. CASE Next /\ ~\E u \in {user, recv, send} \cap Tasks : Close(u)
    <2>1. left' = left
        BY <1>5, OtherSteps
    <2>2. ~RecvIncoming \/ lock' = lock
        BY <1>1 DEF RecvIncoming, Free
    <2>3. SendNoWait \/ NoWaitShutdown => lock' = lock
        <3>1. SendNoWait \/ NoWaitShutdown => t # recv /\ lock' = Unlocked
            BY DEF SendNoWait, NoWaitShutdown
        <3> QED BY <1>1, <3>1 DEF Unlocked
    <2>4. RecvFlags \/ RecvUnregister => lock'["stream"] = lock["stream"]
        <3>1. RecvFlags \/ RecvUnregister => frame.id \in Streams
            BY DEF RecvFlags, RecvUnregister, RecvHolds
        <3> QED BY <1>1, <3>1 DEF RecvFlags, RecvUnregister
    <2>5. ASSUME NEW u \in Closers \cap Users, StreamClose(u) \/ StreamUnregister(u)
          PROVE  lock'["stream"] = lock["stream"]
        <3>1. u[2] \in Streams
            BY TaskNames, StreamNames
        <3> QED BY <1>1, <2>5, <3>1 DEF StreamClose, StreamUnregister
    <2>6. lock'["stream"] = lock["stream"]
        BY <1>5, <2>2, <2>3, <2>4, <2>5 DEF Next, CloseCall, PeerHangsUp, WaitForSend, Enqueue, Await,
            GiveUp, Return, OpenStream, OpenRegister, AcceptStream, AcceptShutdown, GoAway, StreamWrite, StreamRead, Control, Send,
            SendTake, SendError, SendStop, SendWrite, Recv, RecvError, RecvLookup, RecvGoAway,
            RecvFrame
    <2> QED BY <1>1, <2>1, <2>6
<1> QED BY <1>3, <1>4, <1>5

LEMMA NextLive ==
    ASSUME Types, RecvHolds, OneCloser, LiveAreRegistered, BegunOnce, [Next]_vars
    PROVE  LiveAreRegistered'
<1>t. pc \in [Tasks -> Labels] /\ recv \in Tasks
    BY TaskNames DEF Types, TypeOK, Labels
<1>1. ASSUME NEW s \in Streams, Live(s)' PROVE s \in streams'
    <2>1. CASE Begins(s)
        BY <2>1 DEF Begins
    <2>2. CASE Live(s)
        <3>1. s \in streams
            BY <2>2 DEF LiveAreRegistered
        <3>2. \A t \in Closers \cap Users : pc[t] = "unregister" => s # t[2]
            BY <2>2 DEF LiveAreRegistered
        <3>3. pc[recv] = "unregister" => s # frame.id
            BY <2>2 DEF LiveAreRegistered
        <3> QED BY <3>1, <3>2, <3>3, TableSteps
    <2> QED BY <1>1, <2>1, <2>2, StateSteps
<1>2. ASSUME NEW t \in Closers \cap Users, pc'[t] = "unregister" PROVE ~Live(t[2])'
    <2>1. t \in Tasks /\ t[2] \in Old /\ t[2] \in Streams /\ t # recv
        BY TaskNames, StreamNames
    <2>2. CASE pc[t] = "unregister"
        BY <2>1, <2>2, StateSteps DEF LiveAreRegistered, BegunOnce
    <2>3. CASE pc[t] # "unregister"
        <3>1. Next /\ pc'[t] # pc[t]
            BY <1>2, <2>3 DEF vars
        <3>2. WaitForSend(t) \/ StreamClose(t) \/ StreamUnregister(t) \/ Control(t)
            <4>1. t \notin {user, recv, send, open, accept, announce} \cup Repeaters
                BY TaskNames, TaskKinds
            <4> QED BY <2>1, <3>1, <4>1, Movers, TaskKinds
        <3>3. StreamClose(t)
            BY <1>2, <1>t, <2>1, <3>2 DEF WaitForSend, Enqueue, Await, GiveUp, Return, StreamUnregister, Control, Goto
        <3>4. state[t[2]] = "RemoteClose" /\ state' = [state EXCEPT ![t[2]] = "Closed"]
            BY <1>2, <1>t, <2>1, <3>3 DEF StreamClose, Goto
        <3> QED BY <2>1, <3>4 DEF Live, Types, TypeOK
    <2> QED BY <2>2, <2>3
<1>3. ASSUME pc'[recv] = "unregister" PROVE ~Live(frame.id)'
    <2>1. CASE pc[recv] = "unregister"
        <3>1. frame' = frame
            <4>1. ~Recv /\ ~Close(recv) /\ ~\E kind \in Kinds, s \in Streams : RecvFrame(kind, s)
                BY <1>3, <1>t, <2>1 DEF Recv, RecvError, RecvLookup, RecvFlags, RecvUnregister, RecvIncoming, SendNoWait,
                    NoWaitShutdown, RecvFrame, Close, ExitErr, CloseBegin, CloseNotify, HangUp, CloseLock, CloseEnd, ForceClose, Goto
            <4> QED BY <4>1, RecvUndisturbed DEF vars, peerVars
        <3>2. frame.id \in Streams /\ state[frame.id] # "none" /\ ~Live(frame.id)
            BY <2>1 DEF RecvHolds, BegunOnce, LiveAreRegistered
        <3> QED BY <3>1, <3>2, StateSteps DEF Live
    <2>2. CASE pc[recv] # "unregister"
        <3>1. Next /\ pc'[recv] # pc[recv]
            BY <1>3, <2>2 DEF vars
        <3>2. RecvFlags
            <4>1. Recv \/ Close(recv) \/ \E kind \in Kinds, s \in Streams : RecvFrame(kind, s)
                BY <3>1, RecvUndisturbed
            <4> QED BY <1>3, <1>t, <4>1 DEF Recv, RecvError, RecvLookup, RecvUnregister, RecvIncoming, SendNoWait,
                    NoWaitShutdown, RecvFrame, Close, ExitErr, CloseBegin, CloseNotify, HangUp, CloseLock, CloseEnd, ForceClose, Goto
        <3>3. frame' = frame /\ frame.id \in Streams
            BY <3>2 DEF RecvFlags, RecvHolds
        <3>4. state'[frame.id] \in {"Reset", "Closed"}
            BY <1>3, <1>t, <3>2, <3>3 DEF RecvFlags, Goto, Types, TypeOK
        <3> QED BY <3>3, <3>4 DEF Live
    <2> QED BY <2>1, <2>2
<1>4. ASSUME NEW t \in Tasks, pc'[t] = "sweep"
      PROVE  lock'["stream"] = t /\ \A s \in Streams : Live(s)' => s \in left'
    <2>1. CASE pc[t] = "sweep"
        <3>1. lock["stream"] = t /\ t # free
            BY <2>1, TaskNames DEF LiveAreRegistered
        <3>2. \A s \in Streams : Live(s)' => Live(s)
            BY <3>1, StateSteps, BeginsOnce DEF Free
        <3>3. \A s \in Streams : Live(s)' => s \in left
            BY <2>1, <3>2 DEF LiveAreRegistered
        <3>4. lock'["stream"] = t /\ (left' = left \/ \E u \in Tasks, x \in Streams : ForceClose(u, x))
            BY <1>4, <2>1, SweepLock
        <3>5. ASSUME NEW u \in Tasks, NEW x \in Streams, ForceClose(u, x), NEW s \in Streams, Live(s)'
              PROVE  s \in left'
            <4>1. left' = left \ {x} /\ state'[x] = "Closed"
                BY <3>5 DEF ForceClose, Types, TypeOK
            <4> QED BY <3>3, <3>5, <4>1 DEF Live
        <3> QED BY <3>3, <3>4, <3>5
    <2>2. CASE pc[t] # "sweep"
        <3>1. Next /\ pc'[t] # pc[t]
            BY <1>4, <2>2 DEF vars
        <3>2. PICK u \in {user, recv, send} \cap Tasks : Close(u)
            <4>1. SUFFICES ASSUME ~\E u \in {user, recv, send} \cap Tasks : Close(u) PROVE FALSE
                OBVIOUS
            <4>2. pc' = pc \/ \E u \in Tasks, l \in Labels \ Closing : Goto(u, l)
                BY <3>1, <4>1, OtherSteps
            <4> QED BY <1>4, <1>t, <2>2, <4>2 DEF Goto, Closing
        <3>3. CloseLock(t)
            BY <1>4, <1>t, <2>2, <3>2 DEF Close, ExitErr, CloseBegin, CloseNotify, HangUp, CloseLock, CloseEnd,
                ForceClose, Goto
        <3>4. lock'["stream"] = t /\ left' = streams /\ state' = state
            BY <3>3, StreamNames DEF CloseLock, streamVars, Types, TypeOK
        <3> QED BY <3>4 DEF Live, LiveAreRegistered
    <2> QED BY <2>1, <2>2
<1> QED BY <1>1, <1>2, <1>3, <1>4 DEF LiveAreRegistered

(* Only RecvFrame gives recv another frame. *)
LEMMA FrameSteps ==
    ASSUME [Next]_vars
    PROVE  frame' = frame \/ \E kind \in Kinds, s \in Streams : RecvFrame(kind, s)
    BY DEF vars, peerVars, Next, CloseCall, PeerHangsUp, WaitForSend, Enqueue, Await, GiveUp, Return, OpenStream,
        OpenRegister, AcceptStream, AcceptShutdown, GoAway, StreamClose, StreamUnregister, StreamWrite, StreamRead, Control,
        Send, SendTake, SendError, SendStop, SendWrite, Recv, RecvError, RecvLookup, RecvFlags,
        RecvUnregister, RecvIncoming, SendNoWait, NoWaitShutdown, RecvGoAway, Close, ExitErr,
        CloseBegin, CloseNotify, HangUp, CloseLock, ForceClose, CloseEnd

(* How the reply to a call comes about, *)
LEMMA ReplySteps ==
    ASSUME Types, [Next]_vars, NEW t \in Senders
    PROVE  \/ result'[t] \in {result[t], "none"}
           \/ Await(t) /\ result'[t] = errCh[Chan(t)]
           \/ GiveUp(t) /\ result'[t] = "ErrSessionShutdown"
<1> USE DEF queueVars, callVars
<1>1. result \in [Senders -> {"none", "nil", "EPIPE", "ErrSessionShutdown"}]
    BY DEF Types, TypeOK
<1>2. ASSUME NEW u \in Senders, WaitForSend(u)
      PROVE  \/ result'[t] = result[t]
             \/ Await(t) /\ result'[t] = errCh[Chan(t)]
             \/ GiveUp(t) /\ result'[t] = "ErrSessionShutdown"
    BY <1>1, <1>2 DEF WaitForSend, Enqueue, Await, GiveUp, Return
<1>3. ASSUME NEW u, NewCall(u) PROVE result'[t] \in {result[t], "none"}
    BY <1>1, <1>3 DEF NewCall
<1>4. CASE UNCHANGED vars
    BY <1>4 DEF vars
<1>5. CASE Next /\ ~\E u \in Senders : WaitForSend(u)
    <2>1. result' = result \/ \E u : NewCall(u)
        BY <1>5 DEF Next, CloseCall, PeerHangsUp, OpenStream, OpenRegister, AcceptStream,
            AcceptShutdown, GoAway, StreamClose, StreamUnregister, StreamWrite, StreamRead, Control,
            Send, SendTake, SendError, SendStop, SendWrite, Recv, RecvError,
            RecvLookup, RecvFlags, RecvUnregister, RecvIncoming, SendNoWait, NoWaitShutdown,
            RecvGoAway, RecvFrame, Close, ExitErr, CloseBegin, CloseNotify, HangUp, CloseLock, ForceClose,
            CloseEnd
    <2> QED BY <1>3, <2>1
<1> QED BY <1>2, <1>4, <1>5

(* and how it enters its channel and leaves it. *)
LEMMA ChanSteps ==
    ASSUME Types, [Next]_vars, NEW c \in Channels
    PROVE  \/ errCh'[c] = errCh[c]
           \/ errCh'[c] = "empty" /\ \E u \in Senders : Await(u) /\ Chan(u) = c
           \/ SendWrite /\ Chan(item.by) = c /\ errCh[c] = "empty" /\ errCh'[c] = "nil"
           \/ SendError /\ Chan(item.by) = c /\ errCh[c] = "empty" /\ errCh'[c] = "EPIPE"
<1> USE DEF queueVars
<1>1. errCh \in [Channels -> {"empty", "nil", "EPIPE"}]
    BY DEF Types, TypeOK
<1>2. ASSUME NEW u \in Senders, WaitForSend(u)
      PROVE  errCh'[c] = errCh[c] \/ (Await(u) /\ Chan(u) = c /\ errCh'[c] = "empty")
    BY <1>1, <1>2 DEF WaitForSend, Enqueue, Await, GiveUp, Return
<1>3. CASE Send \/ SendWrite
    BY <1>1, <1>3 DEF Send, SendTake, SendError, SendStop, SendWrite, Reply
<1>4. CASE UNCHANGED vars
    BY <1>4 DEF vars
<1>5. CASE Next /\ ~Send /\ ~SendWrite /\ ~\E u \in Senders : WaitForSend(u)
    <2>1. errCh' = errCh
        BY <1>5 DEF Next, CloseCall, PeerHangsUp, OpenStream, OpenRegister, AcceptStream,
            AcceptShutdown, GoAway, StreamClose, StreamUnregister, StreamWrite, StreamRead, Control, Recv, RecvError,
            RecvLookup, RecvFlags, RecvUnregister, RecvIncoming, SendNoWait, NoWaitShutdown,
            RecvGoAway, RecvFrame, Close, ExitErr, CloseBegin, CloseNotify, HangUp, CloseLock, ForceClose,
            CloseEnd
    <2> QED BY <2>1
<1> QED BY <1>2, <1>3, <1>4, <1>5

LEMMA NextBegun ==
    ASSUME Types, RecvHolds, BegunOnce, [Next]_vars
    PROVE  BegunOnce'
<1> USE DEF streamVars
<1>t. pc \in [Tasks -> Labels] /\ recv \in Tasks
    BY TaskNames DEF Types, TypeOK, Labels
<1>1. ASSUME NEW s \in Streams, Begins(s) PROVE state'[s] = "Open"
    <2>1. CASE OpenRegister /\ s = Fresh
        BY <2>1, <1>1 DEF OpenRegister, Types, TypeOK
    <2>2. CASE RecvIncoming /\ s = frame.id
        BY <2>2, <1>1 DEF RecvIncoming, Begins, Types, TypeOK
    <2> QED BY <1>1, <2>1, <2>2, TableSteps
<1>2. \A s \in Streams : state[s] # "none" => state'[s] # "none"
    BY StateSteps
<1>3. \A s \in streams' \cup left' \cup Old : state'[s] # "none"
    <2>1. left' \subseteq left \cup streams
        <3>1. CASE \E t \in {user, recv, send} \cap Tasks : Close(t)
            BY <3>1 DEF Close, ExitErr, CloseBegin, CloseNotify, HangUp, CloseLock, CloseEnd, ForceClose, lockVars
        <3>2. CASE UNCHANGED vars
            BY <3>2 DEF vars, lockVars
        <3> QED BY <3>1, <3>2, OtherSteps
    <2>2. streams \cup left \cup Old \subseteq Streams /\ streams' \subseteq Streams
        BY StreamNames, NextTypes DEF Types, TypeOK
    <2> QED BY <1>1, <1>2, <2>1, <2>2 DEF BegunOnce, Begins
<1>4. \A i \in 1..Len(acceptCh') : state'[acceptCh'[i]] # "none"
    <2>1. acceptCh \in Seq(Streams)
        BY StreamNames DEF Types, TypeOK
    <2>2. CASE acceptCh' = acceptCh
        BY <1>2, <2>1, <2>2 DEF BegunOnce
    <2>3. CASE AcceptStream
        BY <1>2, <2>1, <2>3 DEF AcceptStream, BegunOnce
    <2>4. CASE RecvIncoming /\ acceptCh' # acceptCh
        <3>1. frame.id \in Streams /\ acceptCh' = Append(acceptCh, frame.id)
              /\ state' = [state EXCEPT ![frame.id] = "Open"]
            BY <2>4, StreamNames DEF RecvIncoming, RecvHolds
        <3>2. state'[frame.id] # "none"
            BY <3>1 DEF Types, TypeOK
        <3> QED BY <1>2, <2>1, <3>1, <3>2 DEF BegunOnce
    <2>5. acceptCh' = acceptCh \/ AcceptStream \/ RecvIncoming
        BY DEF vars, Next, CloseCall, PeerHangsUp, WaitForSend, Enqueue, Await, GiveUp, Return, OpenStream,
            OpenRegister, AcceptShutdown, GoAway, StreamClose, StreamUnregister, StreamWrite, StreamRead, Control, Send, SendTake,
            SendError, SendStop, SendWrite, Recv, RecvError, RecvLookup, RecvFlags, RecvUnregister,
            SendNoWait, NoWaitShutdown, RecvGoAway, RecvFrame, Close, ExitErr, CloseBegin, CloseNotify, HangUp,
            CloseLock, ForceClose, CloseEnd
    <2> QED BY <2>2, <2>3, <2>4, <2>5
<1>5. accepted' \in Streams => state'[accepted'] # "none"
    <2>1. CASE accepted' = accepted
        BY <1>2, <2>1 DEF BegunOnce
    <2>2. CASE AcceptStream
        <3>1. Len(acceptCh) \in Nat \ {0} /\ accepted' = acceptCh[1] /\ 1 \in 1..Len(acceptCh) /\ state' = state
            BY <2>2 DEF AcceptStream, Types, TypeOK
        <3> QED BY <3>1 DEF BegunOnce
    <2>3. CASE AcceptShutdown
        BY <2>3, StreamNames DEF AcceptShutdown, Types, TypeOK
    <2>4. accepted' = accepted \/ AcceptStream \/ AcceptShutdown
        BY DEF vars, Next, CloseCall, PeerHangsUp, WaitForSend, Enqueue, Await, GiveUp, Return, OpenStream,
            OpenRegister, GoAway, StreamClose, StreamUnregister, StreamWrite, StreamRead, Control, Send, SendTake,
            SendError, SendStop, SendWrite, Recv, RecvError, RecvLookup, RecvFlags, RecvUnregister,
            RecvIncoming, SendNoWait, NoWaitShutdown, RecvGoAway, RecvFrame, Close, ExitErr,
            CloseBegin, CloseNotify, HangUp, CloseLock, ForceClose, CloseEnd
    <2> QED BY <2>1, <2>2, <2>3, <2>4
<1>6. ASSUME open \in Users
      PROVE  /\ (pc'[open] \in {"enqueue", "await"} \/ result'[open] # "none") => state'[Fresh] # "none"
             /\ pc'[open] \in {"idle", "register"} => state'[Fresh] = "none"
    <2>1. open \in Tasks /\ open \in Senders \ Repeaters /\ Fresh \in Streams
        BY <1>6, TaskNames, StreamNames
    <2>2. CASE OpenRegister
        <3>1. Goto(open, "enqueue") /\ state' = [state EXCEPT ![Fresh] = "Open"]
            BY <2>2 DEF OpenRegister
        <3>2. pc'[open] = "enqueue" /\ state'[Fresh] = "Open"
            BY <1>t, <2>1, <3>1 DEF Goto, Types, TypeOK
        <3> QED BY <3>2
    <2>3. CASE ~OpenRegister
        <3>1. ~Begins(Fresh)
            BY <2>3, TableSteps, StreamAssumption
        <3>2. pc'[open] = pc[open] \/ WaitForSend(open) \/ OpenStream
            <4>1. open \notin Closers \cup Repeaters \cup Controllers /\ open \notin {user, recv, send, accept, announce}
                BY <2>1, TaskNames, TaskKinds
            <4> QED BY <2>1, <2>3, <4>1, Movers, TaskKinds DEF vars
        <3>3. /\ pc'[open] \in {"enqueue", "await"} => pc[open] \in {"enqueue", "await"}
              /\ pc'[open] \in {"idle", "register"} => pc[open] \in {"idle", "register"}
            BY <1>t, <2>1, <3>2 DEF WaitForSend, Enqueue, Await, GiveUp, Return, OpenStream, Goto
        <3>4. result'[open] # "none" => result[open] # "none" \/ pc[open] \in {"enqueue", "await"}
            BY <2>1, ReplySteps DEF Await, GiveUp, Return
        <3> QED BY <1>6, <2>1, <3>1, <3>3, <3>4, StateSteps DEF BegunOnce
    <2> QED BY <2>2, <2>3
<1>7. ASSUME pc'[recv] \in {"flags", "unregister"} PROVE state'[frame'.id] # "none"
    <2>1. frame' = frame
        BY <1>7, <1>t, FrameSteps DEF RecvFrame, Goto
    <2>2. pc'[recv] = pc[recv] \/ RecvLookup \/ RecvFlags
        <3>1. pc'[recv] = pc[recv] \/ Recv \/ Close(recv)
            BY <1>7, <1>t, RecvUndisturbed DEF vars, RecvFrame, Goto
        <3> QED BY <1>7, <1>t, <3>1 DEF Recv, RecvError, RecvUnregister, RecvIncoming, SendNoWait,
                    NoWaitShutdown, Close, ExitErr, CloseBegin, CloseNotify, HangUp, CloseLock, CloseEnd, ForceClose, Goto
    <2>3. frame.id \in Streams /\ state[frame.id] # "none"
        BY <1>7, <1>t, <2>2 DEF RecvLookup, RecvFlags, RecvHolds, BegunOnce, Goto
    <2> QED BY <1>2, <2>1, <2>3
<1>8. ASSUME pc'[recv] = "incoming" PROVE state'[frame'.id] = "none" \/ frame'.id \in streams'
    <2>1. CASE \E kind \in Kinds, s \in Streams : RecvFrame(kind, s)
        <3>1. PICK kind \in Kinds, s \in Streams : RecvFrame(kind, s)
            BY <2>1
        <3>2. frame' = [kind |-> kind, id |-> s] /\ state' = state /\ streams' = streams
            BY <3>1 DEF RecvFrame
        <3>3. state[s] = "none" \/ s \in streams
            BY <1>8, <1>t, <3>1 DEF RecvFrame, Goto
        <3> QED BY <3>2, <3>3
    <2>2. CASE frame' = frame /\ ~\E kind \in Kinds, s \in Streams : RecvFrame(kind, s)
        <3>1. pc'[recv] = pc[recv]
            <4>1. pc'[recv] = pc[recv] \/ Recv \/ Close(recv)
                BY <2>2, RecvUndisturbed DEF vars
            <4> QED BY <1>8, <1>t, <2>2, <4>1 DEF Recv, RecvError, RecvLookup, RecvFlags, RecvUnregister, RecvIncoming,
                    SendNoWait, NoWaitShutdown, Close, ExitErr, CloseBegin, CloseNotify, HangUp, CloseLock, CloseEnd,
                    ForceClose, Goto
        <3>2. frame.id \in Incoming /\ frame.id \in Streams /\ (state[frame.id] = "none" \/ frame.id \in streams)
            BY <1>8, <3>1, StreamNames DEF RecvHolds, BegunOnce
        <3>3. frame.id \notin Old
            BY <3>2, StreamAssumption
        <3>4. frame.id \in streams => frame.id \in streams'
            BY <1>8, <3>1, <3>3, TableSteps, TaskNames
        <3>5. state[frame.id] = "none" => state'[frame.id] = "none" \/ frame.id \in streams'
            BY <3>2, StateSteps DEF Begins
        <3> QED BY <2>2, <3>2, <3>4, <3>5
    <2> QED BY <2>1, <2>2, FrameSteps
<1> QED BY <1>3, <1>4, <1>5, <1>6, <1>7, <1>8 DEF BegunOnce

-----------------------------------------------------------------------------
(* What the callers are told: NoReplyYet and LateStreams *)

LEMMA NextNoReply ==
    ASSUME Types, NoReplyYet, [Next]_vars
    PROVE  NoReplyYet'
<1> USE DEF queueVars, callVars
<1>t. pc \in [Tasks -> Labels]
    BY DEF Types, TypeOK, Labels
<1> SUFFICES ASSUME NEW t \in {open, accept} \cap Users, pc'[t] \in {"idle", "register"}
             PROVE  /\ errCh'[t] = "empty" /\ result'[t] = "none"
                    /\ item'.by # t
                    /\ \A i \in 1..Len(sendCh') : sendCh'[i].by # t
    BY DEF NoReplyYet
<1>1. t \in Tasks /\ t \in Senders \ Repeaters /\ t \notin {user, recv, send, announce} \cup Closers \cup Repeaters \cup Controllers
    BY TaskNames, TaskKinds
<1>2. ~WaitForSend(t)
    BY <1>1, <1>t DEF WaitForSend, Enqueue, Await, GiveUp, Return, Goto
<1>3. pc[t] \in {"idle", "register"}
    <2>1. pc'[t] = pc[t] \/ OpenStream \/ OpenRegister \/ AcceptStream \/ AcceptShutdown
        BY <1>1, <1>2, Movers, TaskKinds DEF vars
    <2> QED BY <1>t, <1>1, <2>1 DEF OpenStream, OpenRegister, AcceptStream, AcceptShutdown, Goto
<1>4. /\ errCh[t] = "empty" /\ result[t] = "none" /\ item.by # t
      /\ \A i \in 1..Len(sendCh) : sendCh[i].by # t
    BY <1>3 DEF NoReplyYet
<1>5. errCh'[t] = "empty" /\ result'[t] = "none"
    <2>1. t \in Channels /\ Chan(t) = t /\ \A u : Chan(u) = t => u = t
        BY <1>1, ChanNames
    <2> QED BY <1>1, <1>2, <1>4, <2>1, ReplySteps, ChanSteps DEF WaitForSend
<1>s. sendCh \in Seq(Items)
    BY DEF Types, TypeOK
<1>6. CASE UNCHANGED <<sendCh, item>>
    BY <1>4, <1>5, <1>6
<1>7. CASE SendTake
    <2>1. sendCh # <<>> /\ item' = Head(sendCh) /\ sendCh' = Tail(sendCh)
        BY <1>7 DEF SendTake
    <2> QED BY <1>4, <1>5, <1>s, <2>1
<1>8. ASSUME NEW u \in Tasks, u # t, NEW w, sendCh' = Append(sendCh, Item(u, w)), item' = item
      PROVE  item'.by # t /\ \A i \in 1..Len(sendCh') : sendCh'[i].by # t
    <2>1. Item(u, w).by = u
        BY DEF Item
    <2> HIDE DEF Item
    <2> QED BY <1>4, <1>8, <1>s, <2>1
<1>9. \/ UNCHANGED <<sendCh, item>> \/ SendTake
      \/ \E u \in Tasks, w \in {"SYN", "ACK", "goaway", "FIN", "update", "data", "pong", "refuse"} :
            u # t /\ sendCh' = Append(sendCh, Item(u, w)) /\ item' = item
    <2>1. ASSUME NEW u \in Senders, Enqueue(u)
          PROVE  u # t /\ u \in Tasks /\ sendCh' = Append(sendCh, Item(u, What(u))) /\ item' = item
        BY <1>2, <2>1, TaskNames DEF Enqueue, Own, WaitForSend
    <2>2. \A u : What(u) \in {"SYN", "ACK", "goaway", "FIN", "update", "data", "pong", "refuse"}
        BY DEF What
    <2>3. CASE SendNoWait
        BY <1>1, <2>3, TaskNames DEF SendNoWait
    <2>4. CASE ~SendNoWait /\ ~\E u \in Senders : Enqueue(u)
        BY <2>4 DEF vars, Next, CloseCall, PeerHangsUp, WaitForSend, Await, GiveUp, Return, OpenStream,
            OpenRegister, AcceptStream, AcceptShutdown, GoAway, StreamClose, StreamUnregister,
            StreamWrite, StreamRead, Control, Send, SendError, SendStop, SendWrite, Recv, RecvError, RecvLookup,
            RecvFlags, RecvUnregister, RecvIncoming, NoWaitShutdown, RecvGoAway, RecvFrame,
            Close, ExitErr, CloseBegin, CloseNotify, HangUp, CloseLock, ForceClose, CloseEnd
    <2> QED BY <2>1, <2>2, <2>3, <2>4
<1> QED BY <1>5, <1>6, <1>7, <1>8, <1>9

LEMMA NextLate ==
    ASSUME Types, RecvHolds, OneCloser, LiveAreRegistered, BegunOnce, NoReplyYet, LateStreams,
           [Next]_vars
    PROVE  LateStreams'
<1>1. CASE \E t \in Tasks : CloseEnd(t)
    <2>1. PICK t \in Tasks : CloseEnd(t)
        BY <1>1
    <2>2. \A s \in Streams : ~Live(s)
        BY <2>1 DEF CloseEnd, LiveAreRegistered
    <2>3. state' = state
        BY <2>1 DEF CloseEnd, streamVars
    <2> QED BY <2>2, <2>3 DEF LateStreams, Live
<1>2. ASSUME Swept, NEW t, Told(t)', t \in Senders, t \in {open, accept} PROVE Told(t)
    <2>0. t \in Channels /\ Chan(t) = t
        BY <1>2, ChanNames
    <2>1. ~SendWrite
        BY <1>2 DEF SendWrite, OneCloser
    <2>2. errCh'[t] = "nil" => errCh[t] = "nil"
        BY <2>0, <2>1, ChanSteps
    <2>3. result'[t] = "nil" => result[t] = "nil" \/ errCh[t] = "nil"
        BY <1>2, <2>0, ReplySteps
    <2> QED BY <1>2, <2>2, <2>3 DEF Told
<1>3. ASSUME Swept, NEW s \in Streams, Live(s)'
      PROVE  s \notin Old /\ (s = Fresh => ~Told(open)') /\ (s = accepted' => ~Told(accept)')
    <2>1. s \notin Old
        BY <1>3, StateSteps, BeginsOnce DEF LateStreams
    <2>2. ASSUME s = Fresh, Told(open)' PROVE FALSE
        <3>1. open \in Users /\ open \in Senders
            BY <2>2, TaskNames DEF Told
        <3>2. Told(open)
            BY <1>2, <1>3, <2>2, <3>1
        <3>3. CASE Live(s)
            BY <1>3, <2>2, <3>2, <3>3 DEF LateStreams
        <3>4. CASE Begins(s)
            <4>1. pc[open] = "register"
                BY <2>2, <3>4, TableSteps, StreamAssumption DEF OpenRegister
            <4> QED BY <3>1, <3>2, <4>1 DEF NoReplyYet, Told
        <3> QED BY <1>3, <3>3, <3>4, StateSteps
    <2>3. ASSUME s = accepted', Told(accept)' PROVE FALSE
        <3>1. accept \in Users /\ accept \in Senders
            BY <2>3, TaskNames DEF Told
        <3>2. Told(accept)
            BY <1>2, <1>3, <2>3, <3>1
        <3>3. accepted' = accepted
            <4>1. pc[accept] # "idle"
                BY <3>1, <3>2 DEF NoReplyYet, Told
            <4> QED BY <4>1 DEF vars, streamVars, Next, CloseCall, PeerHangsUp, WaitForSend, Enqueue,
                    Await, GiveUp, Return, OpenStream, OpenRegister, AcceptStream, AcceptShutdown, GoAway,
                    StreamClose, StreamUnregister, StreamWrite, StreamRead, Control, Send, SendTake, SendError, SendStop,
                    SendWrite, Recv, RecvError, RecvLookup, RecvFlags, RecvUnregister, RecvIncoming,
                    SendNoWait, NoWaitShutdown, RecvGoAway, RecvFrame, Close, ExitErr, CloseBegin, CloseNotify,
                    HangUp, CloseLock, ForceClose, CloseEnd
        <3>4. CASE Live(s)
            BY <1>3, <2>3, <3>2, <3>3, <3>4 DEF LateStreams
        <3>5. CASE Begins(s)
            BY <2>3, <3>3, <3>5, BeginsOnce DEF BegunOnce
        <3> QED BY <1>3, <3>4, <3>5, StateSteps
    <2> QED BY <2>1, <2>2, <2>3
<1>4. CASE ~\E t \in Tasks : CloseEnd(t)
    <2>1. Swept' => Swept
        BY <1>4, NextOneCloser
    <2> QED BY <1>3, <2>1 DEF LateStreams
<1> QED BY <1>1, <1>4

LEMMA InitSweep == Init => SweepInv
<1> SUFFICES ASSUME Init PROVE SweepInv
    OBVIOUS
<1>1. Types /\ RecvHolds
    BY InitTypes, InitRecvHolds
<1>2. /\ pc \in [Tasks -> {"idle", "done"}] /\ pc[recv] = "idle"
      /\ shutdown = FALSE /\ streams = Old /\ left = {}
      /\ state = [s \in Streams |-> IF s \in Old THEN "Open" ELSE "none"]
      /\ lock = [l \in {"shutdown", "stream"} \cup Streams |-> free]
      /\ acceptCh = <<>> /\ accepted = "none" /\ sendCh = <<>> /\ item = NoItem
      /\ errCh = [c \in Channels |-> "empty"] /\ result = [t \in Senders |-> "none"]
    BY InitLabels DEF Init
<1>3. OneCloser /\ LateStreams
    BY <1>2 DEF OneCloser, LateStreams, Swept, Closing
<1>4. LiveAreRegistered
    BY <1>2, TaskNames DEF LiveAreRegistered, Live
<1>5. BegunOnce
    <2>1. open \in Users => open \in Senders /\ open \in Tasks
        BY TaskNames
    <2>2. open \in Users => pc[open] \in {"idle", "done"} /\ result[open] = "none"
        BY <1>2, <2>1
    <2>3. state[Fresh] = "none" /\ \A s \in Old : state[s] # "none"
        BY <1>2, StreamNames, StreamAssumption
    <2>4. pc[recv] = "idle" /\ accepted \notin Streams
        BY <1>2, TaskNames, StreamNames
    <2>5. \A s \in streams \cup left \cup Old : state[s] # "none"
        BY <1>2, <2>3
    <2>6. \A i \in 1..Len(acceptCh) : state[acceptCh[i]] # "none"
        BY <1>2
    <2> QED BY <2>2, <2>3, <2>4, <2>5, <2>6 DEF BegunOnce
<1>6. NoReplyYet
    <2>1. \A t \in {open, accept} \cap Users : t \in Senders /\ t \in Channels /\ NoItem.by # t
        BY TaskNames, ChanNames DEF NoItem
    <2> QED BY <1>2, <2>1 DEF NoReplyYet
<1> QED BY <1>1, <1>3, <1>4, <1>5, <1>6 DEF SweepInv

LEMMA NextSweep == SweepInv /\ [Next]_vars => SweepInv'
    BY NextTypes, NextRecvHolds, NextOneCloser, NextLive, NextBegun, NextNoReply, NextLate DEF SweepInv

(* SweepComplete for every number of streams, every backlog and every queue: when Close has
   released shutdownLock, no stream is open that a user holds. *)
THEOREM SweepReachesAll == Spec => []SweepComplete
<1>1. ASSUME SweepInv PROVE SweepComplete
    <2>1. ASSUME NEW s \in Streams, Swept, Got(s) PROVE state[s] \in {"Closed", "Reset"}
        <3>1. ~Live(s)
            BY <2>1, <1>1 DEF SweepInv, LateStreams, Got, Told
        <3>2. state[s] # "none"
            BY <2>1, <1>1 DEF SweepInv, BegunOnce, Got
        <3> QED BY <1>1, <3>1, <3>2 DEF Live, SweepInv, Types, TypeOK
    <2> QED BY <2>1 DEF SweepComplete
<1> QED BY InitSweep, NextSweep, <1>1, PTL DEF Spec

(* NoSilentDeath for every instance: recv and send end by way of Close, which finds or sets
   shutdown, or, for send, because it saw shutdownCh closed. *)
THEOREM NoneDiesSilently == Spec => []NoSilentDeath
<1>1. Init => OneCloser
    BY InitSweep DEF SweepInv
<1>2. Init => NoSilentDeath
    BY InitLabels DEF NoSilentDeath
<1>3. ASSUME Types, RecvHolds, OneCloser, ErrorSet, NoSilentDeath, [Next]_vars
      PROVE  NoSilentDeath'
    <2>t. pc \in [Tasks -> Labels]
        BY <1>3 DEF Types, TypeOK, Labels
    <2> SUFFICES ASSUME NEW t \in {recv, send}, pc'[t] = "done" PROVE shutdown'
        BY DEF NoSilentDeath
    <2>1. shutdown => shutdown'
        BY <1>3, ErrorKept
    <2>2. t \in Tasks /\ t \notin Users /\ t # user /\ (t = send => t # recv)
        BY TaskNames
    <2>3. CASE pc'[t] = pc[t]
        BY <1>3, <2>1, <2>3 DEF NoSilentDeath
    <2>4. CASE pc'[t] # pc[t]
        <3>1. \/ t = recv /\ (Recv \/ \E kind \in Kinds, s \in Streams : RecvFrame(kind, s))
              \/ t = send /\ (Send \/ SendWrite)
              \/ Close(t)
            <4>1. t \notin Senders /\ t # open /\ t # accept /\ t # announce
                BY DEF recv, send, open, accept, announce, Senders, Users, Closers, Writers, Updaters
            <4> QED BY <1>3, <2>2, <2>4, <4>1, Movers DEF vars
        <3>2. CASE t = recv /\ (Recv \/ \E kind \in Kinds, s \in Streams : RecvFrame(kind, s))
            BY <2>t, <2>2, <3>2 DEF Recv, RecvError, RecvLookup, RecvFlags, RecvUnregister, RecvIncoming,
                SendNoWait, NoWaitShutdown, RecvFrame, Goto
        <3>3. CASE t = send /\ (Send \/ SendWrite)
            BY <2>1, <2>t, <2>2, <3>3 DEF Send, SendTake, SendError, SendStop, SendWrite, Goto
        <3>4. CASE Close(t)
            <4>1. shutdown
                BY <1>3, <2>t, <2>2, <3>4 DEF Close, ExitErr, CloseBegin, CloseNotify, HangUp, CloseLock, CloseEnd, ForceClose,
                    OneCloser, Closing, Goto
            <4> QED BY <2>1, <4>1
        <3> QED BY <3>1, <3>2, <3>3, <3>4
    <2> QED BY <2>3, <2>4
<1> QED BY InitTypes, InitRecvHolds, InitErrorSet, NextTypes, NextRecvHolds, NextOneCloser, NextErrorSet,
        <1>1, <1>2, <1>3, PTL DEF Spec

-----------------------------------------------------------------------------
(* How a caller of waitForSendErr goes on *)

CallBegun(t) ==
    /\ pc[t] \in {"idle", "register", "unregister"}
    /\ pc'[t] = IF t \in Controllers THEN "control" ELSE "enqueue"
    /\ calls'[t] = calls[t] + 1 /\ result'[t] = "none"
CallDeclined(t) ==
    /\ pc[t] \in {"idle", "register", "unregister"} /\ pc'[t] \in {"register", "unregister", "done"}
    /\ calls'[t] = calls[t] /\ result'[t] = result[t]
Unmoved(t) == pc'[t] = pc[t] /\ calls'[t] = calls[t] /\ result'[t] = result[t]

LEMMA CallerSteps ==
    ASSUME Types, [Next]_vars, NEW t \in Senders
    PROVE  \/ Unmoved(t) \/ Enqueue(t) \/ Await(t) \/ GiveUp(t)
           \/ (t \in Controllers /\ Control(t)) \/ CallBegun(t) \/ CallDeclined(t)
<1> USE DEF callVars
<1>t. /\ pc \in [Tasks -> Labels] /\ calls \in [Senders -> 0..MaxCalls + 1]
      /\ result \in [Senders -> {"none", "nil", "EPIPE", "ErrSessionShutdown"}]
      /\ t \in Tasks /\ t # recv /\ t # send /\ t # user
    BY TaskNames DEF Types, TypeOK, Labels
<1>1. ASSUME NEW u, u # t, pc' = pc \/ \E l : Goto(u, l), NewCall(u) \/ UNCHANGED callVars
      PROVE  Unmoved(t)
    BY <1>1, <1>t DEF Goto, NewCall, Unmoved
<1>2. ASSUME NEW u \in Tasks, pc[u] \in {"idle", "register", "unregister"},
             \/ NewCall(u) /\ Goto(u, IF u \in Controllers THEN "control" ELSE "enqueue")
             \/ UNCHANGED callVars /\ \E l \in {"register", "unregister", "done"} : Goto(u, l)
      PROVE  Unmoved(t) \/ CallBegun(t) \/ CallDeclined(t)
    <2>1. CASE u # t
        BY <1>1, <1>2, <2>1
    <2>2. CASE u = t
        BY <1>2, <1>t, <2>2 DEF Goto, NewCall, CallBegun, CallDeclined
    <2> QED BY <2>1, <2>2
<1>3. ASSUME NEW u \in Senders, WaitForSend(u) PROVE Unmoved(t) \/ Enqueue(t) \/ Await(t) \/ GiveUp(t)
    <2>1. CASE u = t
        BY <1>3, <2>1 DEF WaitForSend
    <2>2. CASE u # t
        BY <1>3, <1>t, <2>2 DEF WaitForSend, Enqueue, Await, GiveUp, Return, Goto, Unmoved
    <2> QED BY <2>1, <2>2
<1>4. CASE OpenStream \/ OpenRegister
    <2>1. open \notin Controllers /\ open \in Tasks
        BY <1>4, TaskNames, TaskKinds DEF OpenStream, OpenRegister
    <2> QED BY <1>2, <1>4, <2>1 DEF OpenStream, OpenRegister
<1>5. CASE AcceptStream \/ AcceptShutdown
    <2>1. accept \notin Controllers /\ accept \in Tasks
        BY <1>5, TaskNames, TaskKinds DEF AcceptStream, AcceptShutdown
    <2> QED BY <1>2, <1>5, <2>1 DEF AcceptStream, AcceptShutdown
<1>6. CASE GoAway
    <2>1. announce \notin Controllers /\ announce \in Tasks
        BY <1>6, TaskNames, TaskKinds DEF GoAway
    <2> QED BY <1>2, <1>6, <2>1 DEF GoAway
<1>7. ASSUME NEW u \in Closers \cap Users, StreamClose(u) \/ StreamUnregister(u)
      PROVE  Unmoved(t) \/ CallBegun(t) \/ CallDeclined(t)
    <2>1. u \in Controllers /\ u \in Tasks
        BY TaskNames, TaskKinds
    <2> QED BY <1>2, <1>7, <2>1 DEF StreamClose, StreamUnregister
<1>8. ASSUME NEW u \in Writers \cap Users, StreamWrite(u)
      PROVE  Unmoved(t) \/ CallBegun(t) \/ CallDeclined(t)
    <2>1. u \notin Controllers /\ u \in Tasks
        BY TaskNames, TaskKinds
    <2> QED BY <1>2, <1>8, <2>1 DEF StreamWrite
<1>9. ASSUME NEW u \in Updaters \cap Users, StreamRead(u)
      PROVE  Unmoved(t) \/ CallBegun(t) \/ CallDeclined(t)
    <2>1. u \in Controllers /\ u \in Tasks
        BY TaskNames, TaskKinds
    <2> QED BY <1>2, <1>9, <2>1 DEF StreamRead
<1>10. ASSUME NEW u \in Controllers \cap Users, Control(u)
       PROVE  Unmoved(t) \/ (t \in Controllers /\ Control(t))
    <2>1. CASE u = t
        BY <1>10, <2>1
    <2>2. CASE u # t
        BY <1>1, <1>10, <2>2 DEF Control
    <2> QED BY <2>1, <2>2
<1>11. CASE UNCHANGED vars
    BY <1>11 DEF vars, Unmoved
<1>12. ASSUME NEW u \in {user, recv, send} \cap Tasks, Close(u) PROVE Unmoved(t)
    <2>1. UNCHANGED callVars /\ (pc' = pc \/ \E l : Goto(u, l))
        BY <1>12 DEF Close, ExitErr, CloseBegin, CloseNotify, HangUp, CloseLock, CloseEnd, ForceClose
    <2> QED BY <1>1, <1>t, <2>1
<1>13. CASE CloseCall \/ PeerHangsUp \/ RecvGoAway
    BY <1>1, <1>13, <1>t DEF CloseCall, PeerHangsUp, RecvGoAway
<1>14. CASE Send \/ SendWrite
    <2>1. UNCHANGED callVars /\ \E l : Goto(send, l)
        BY <1>14 DEF Send, SendTake, SendError, SendStop, SendWrite
    <2> QED BY <1>1, <1>t, <2>1
<1>15. CASE Recv \/ \E kind \in Kinds, s \in Streams : RecvFrame(kind, s)
    <2>1. UNCHANGED callVars /\ \E l : Goto(recv, l)
        BY <1>15 DEF Recv, RecvError, RecvLookup, RecvFlags, RecvUnregister, RecvIncoming, SendNoWait,
            NoWaitShutdown, RecvFrame
    <2> QED BY <1>1, <1>t, <2>1
<1> QED BY <1>3, <1>4, <1>5, <1>6, <1>7, <1>8, <1>9, <1>10, <1>11, <1>12, <1>13, <1>14, <1>15 DEF Next

(* What send does next to an item depends on its own label. *)
LEMMA SenderSteps ==
    ASSUME Types, [Next]_vars
    PROVE  /\ pc'[send] \in {"idle", "write"} => pc[send] \in {"idle", "write"}
           /\ pc'[send] = "write" => pc[send] = "write" \/ SendTake
<1>1. pc \in [Tasks -> Labels] /\ send \in Tasks
    BY TaskNames DEF Types, TypeOK, Labels
<1>2. CASE pc'[send] = pc[send]
    BY <1>2
<1>3. CASE pc'[send] # pc[send]
    <2>1. send \notin Senders \cup Closers \cup Writers \cup Updaters \cup Controllers /\ send # recv
          /\ send # user /\ send # open /\ send # accept /\ send # announce
        BY DEF send, recv, user, open, accept, announce, Senders, Users, Closers, Writers, Updaters, Controllers
    <2>2. Next
        BY <1>3 DEF vars
    <2>3. Send \/ SendWrite \/ Close(send)
        BY <1>1, <1>3, <2>1, <2>2, Movers
    <2>4. CASE Close(send)
        BY <1>1, <1>3, <2>4 DEF Close, ExitErr, CloseBegin, CloseNotify, HangUp, CloseLock, CloseEnd,
            ForceClose, Goto
    <2>5. CASE Send \/ SendWrite
        BY <1>1, <2>5 DEF Send, SendTake, SendError, SendStop, SendWrite, Goto
    <2> QED BY <2>3, <2>4, <2>5
<1> QED BY <1>2, <1>3

-----------------------------------------------------------------------------
(* Who holds controlHdrLock is a caller at work on that stream. *)

ControlHeld ==
    /\ \A t \in Controllers \cap Users :
          pc[t] \in {"enqueue", "await"} => controlHdrLock[t[2]] = t
    /\ \A s \in Old : controlHdrLock[s] # free =>
          /\ controlHdrLock[s] \in Controllers \cap Users /\ controlHdrLock[s][2] = s
          /\ pc[controlHdrLock[s]] \in {"enqueue", "await"}

LEMMA InitControl == Init => ControlHeld
    BY InitLabels, TaskNames DEF Init, ControlHeld

LEMMA ControlSteps ==
    ASSUME [Next]_vars
    PROVE  \/ UNCHANGED controlHdrLock
           \/ \E t \in Controllers \cap Users : Control(t)
           \/ \E t \in Senders : Await(t) \/ GiveUp(t)
    BY DEF lockVars, vars, Next, CloseCall, PeerHangsUp, WaitForSend, Enqueue, OpenStream,
        OpenRegister, AcceptStream, AcceptShutdown, GoAway, StreamClose, StreamUnregister, StreamWrite,
        StreamRead, Send, SendTake, SendError, SendStop, SendWrite, Recv, RecvError, RecvLookup, RecvFlags,
        RecvUnregister, RecvIncoming, SendNoWait, NoWaitShutdown, RecvGoAway, RecvFrame, Close, ExitErr,
        CloseBegin, CloseNotify, HangUp, CloseLock, ForceClose, CloseEnd

LEMMA NextControl ==
    ASSUME Types, ControlHeld, [Next]_vars
    PROVE  ControlHeld'
<1>t. /\ pc \in [Tasks -> Labels] /\ controlHdrLock \in [Old -> Tasks \cup {free}]
      /\ \A t \in Tasks : t # free
      /\ \A t \in Controllers \cap Users : t \in Senders /\ t \in Tasks /\ t[2] \in Old
    BY TaskNames, TaskKinds DEF Types, TypeOK, Labels
<1>1. ASSUME NEW t \in Controllers \cap Users, Control(t) PROVE ControlHeld'
    <2>1. /\ controlHdrLock[t[2]] = free /\ controlHdrLock' = [controlHdrLock EXCEPT ![t[2]] = t]
          /\ Goto(t, "enqueue") /\ pc[t] = "control"
        BY <1>1 DEF Control
    <2>2. pc'[t] = "enqueue" /\ \A u \in Tasks \ {t} : pc'[u] = pc[u]
        BY <1>t, <2>1 DEF Goto
    <2>3. ASSUME NEW u \in Controllers \cap Users, pc'[u] \in {"enqueue", "await"}
          PROVE  controlHdrLock'[u[2]] = u
        <3>1. CASE u = t
            BY <1>t, <2>1, <3>1
        <3>2. CASE u # t
            BY <1>t, <2>1, <2>2, <2>3, <3>2 DEF ControlHeld
        <3> QED BY <3>1, <3>2
    <2>4. ASSUME NEW s \in Old, controlHdrLock'[s] # free
          PROVE  /\ controlHdrLock'[s] \in Controllers \cap Users /\ controlHdrLock'[s][2] = s
                 /\ pc'[controlHdrLock'[s]] \in {"enqueue", "await"}
        <3>1. CASE s = t[2]
            BY <1>t, <2>1, <2>2, <3>1
        <3>2. CASE s # t[2]
            <4>1. controlHdrLock'[s] = controlHdrLock[s]
                BY <1>t, <2>1, <3>2
            <4> QED BY <1>t, <2>1, <2>2, <2>4, <3>2, <4>1 DEF ControlHeld
        <3> QED BY <3>1, <3>2
    <2> QED BY <2>3, <2>4 DEF ControlHeld
<1>2. ASSUME NEW t \in Senders, Await(t) \/ GiveUp(t) PROVE ControlHeld'
    <2>1. /\ controlHdrLock' = [s \in Old |-> IF controlHdrLock[s] = t THEN free ELSE controlHdrLock[s]]
          /\ \E l \in {"idle", "done"} : Goto(t, l)
        BY <1>2 DEF Await, GiveUp, Return
    <2>2. pc'[t] \in {"idle", "done"} /\ \A u \in Tasks \ {t} : pc'[u] = pc[u]
        BY <1>t, <2>1, TaskNames DEF Goto
    <2> QED BY <1>t, <2>1, <2>2 DEF ControlHeld
<1>3. CASE UNCHANGED controlHdrLock /\ ~\E t \in Senders : Await(t) \/ GiveUp(t)
    <2>1. ASSUME NEW t \in Controllers \cap Users
          PROVE  pc'[t] \in {"enqueue", "await"} <=> pc[t] \in {"enqueue", "await"}
        <3>1. t \in Senders /\ t \in Tasks /\ t[2] \in Old
            BY <1>t
        <3>2. ~Control(t)
            BY <1>3, <1>t, <3>1 DEF Control
        <3> QED BY <1>t, <1>3, <3>1, <3>2, CallerSteps
                DEF Unmoved, Enqueue, Goto, CallBegun, CallDeclined
    <2> QED BY <1>3, <2>1 DEF ControlHeld
<1>4. CASE UNCHANGED controlHdrLock /\ \E t \in Senders : Await(t) \/ GiveUp(t)
    BY <1>2, <1>4
<1> QED BY <1>1, <1>2, <1>3, <1>4, ControlSteps

(* So no two callers await a reply from one channel. *)
LEMMA OneAwaits ==
    ASSUME Types, ControlHeld, NEW t \in Senders, NEW u \in Senders, Chan(t) = Chan(u),
           pc[t] = "await", pc[u] = "await"
    PROVE  t = u
<1>1. SUFFICES ASSUME t # u PROVE FALSE
    OBVIOUS
<1>2. t \in Controllers \cap Users /\ u \in Controllers \cap Users /\ t[2] = u[2]
    BY <1>1, ChanNames, TaskNames
<1> QED BY <1>1, <1>2 DEF ControlHeld

(* What a step makes of the frames: queued by its sender, taken or written. *)
LEMMA ItemSteps ==
    ASSUME Types, [Next]_vars
    PROVE  \/ UNCHANGED <<sendCh, item, written>>
           \/ SendTake
           \/ SendWrite
           \/ \E u \in Senders : Enqueue(u)
           \/ SendNoWait
    BY DEF queueVars, vars, Next, CloseCall, PeerHangsUp, WaitForSend, Await, GiveUp, Return, OpenStream,
        OpenRegister, AcceptStream, AcceptShutdown, GoAway, StreamClose, StreamUnregister, StreamWrite, StreamRead, Control,
        Send, SendError, SendStop, Recv, RecvError, RecvLookup, RecvFlags, RecvUnregister, RecvIncoming,
        NoWaitShutdown, RecvGoAway, RecvFrame, Close, ExitErr, CloseBegin, CloseNotify, HangUp, CloseLock, ForceClose,
        CloseEnd

-----------------------------------------------------------------------------
(* What a nil says *)

(* An item that is queued or that send is writing. *)
Sending(i) == (pc[send] = "write" /\ i = item) \/ \E n \in 1..Len(sendCh) : i = sendCh[n]
CallItems == {i \in Items : i.by \in Senders}
(* Its caller awaits the reply to it. *)
Current(i) == pc[i.by] = "await" /\ i = Own(i.by)

(* A call has one item, which is not there before the call queues it. *)
Numbered ==
    \A i \in CallItems : Sending(i) \/ i \in written =>
        i.no <= calls[i.by] /\ (pc[i.by] \in {"control", "enqueue"} => i.no < calls[i.by])
Once ==
    /\ \A m, n \in 1..Len(sendCh) : m # n /\ sendCh[m].by \in Senders => sendCh[m] # sendCh[n]
    /\ pc[send] = "write" /\ item.by \in Senders =>
          item \notin written /\ \A n \in 1..Len(sendCh) : sendCh[n] # item
    /\ \A n \in 1..Len(sendCh) : sendCh[n].by \in Senders => sendCh[n] \notin written

(* While send goes on, whoever does not await the reply to his item gave up, which he
   does at shutdown only, or took a nil that such an item had left. *)
Expected ==
    pc[send] \in {"idle", "write"} => \A i \in CallItems : Sending(i) => i \in late \/ Current(i)
ErrorEnds == \A c \in Channels : errCh[c] = "EPIPE" => pc[send] \notin {"idle", "write"}
NilAnswers ==
    \A c \in Channels : errCh[c] = "nil" =>
        \E i \in written : i \in CallItems /\ Chan(i.by) = c /\ (i \in late \/ Current(i))
LateEnds == late # {} => shutdown

ReplyInv ==
    /\ ControlHeld /\ Numbered /\ Once /\ Expected /\ ErrorEnds /\ NilAnswers /\ LateEnds
    /\ NilIsAReply

LEMMA ReplyTypes ==
    ASSUME Types
    PROVE  /\ pc \in [Tasks -> Labels] /\ sendCh \in Seq(Items) /\ written \subseteq Items
           /\ calls \in [Senders -> 0..MaxCalls + 1] /\ MaxCalls \in Nat
           /\ \A t \in Senders : calls[t] \in Nat
           /\ pc[send] = "write" => item \in Items
           /\ \A i \in Items : i.no \in Nat
           /\ \A t \in Senders : t # recv /\ t # send /\ t \in Tasks
           /\ send \in Tasks /\ recv \in Tasks /\ recv \notin Senders
           /\ \A t \in Senders : Own(t).by = t /\ Own(t).no = calls[t]
           /\ \A t \in Senders : Own(t) \in CallItems
<1>1. \A t \in Senders : t # recv /\ t # send /\ t \in Tasks
    BY TaskNames
<1>2. /\ send \in Tasks /\ recv \in Tasks /\ recv \notin Senders
    BY TaskNames
<1>3. /\ pc \in [Tasks -> Labels] /\ sendCh \in Seq(Items) /\ written \subseteq Items
      /\ calls \in [Senders -> 0..MaxCalls + 1]
      /\ pc[send] = "write" => item \in Items
    BY DEF Types, TypeOK, Labels, SendHolds
<1>4. ASSUME NEW t \in Senders PROVE Own(t).by = t /\ Own(t).no = calls[t]
    BY <1>1 DEF Own, Item
<1>5. ASSUME NEW t \in Senders PROVE Own(t) \in Items
    BY <1>1, <1>3 DEF Own, Item, What, Items
<1>6. \A i \in Items : i.no \in Nat
    BY BoundAssumption DEF Items
<1> QED BY <1>1, <1>2, <1>3, <1>4, <1>5, <1>6, BoundAssumption DEF CallItems

(* What is queued, sent and written comes from the queue, and into it from its caller. *)
LEMMA SendingSteps ==
    ASSUME Types, [Next]_vars, NEW i \in CallItems
    PROVE  /\ Sending(i)' => Sending(i) \/ (Enqueue(i.by) /\ i = Own(i.by))
           /\ i \in written' => i \in written \/ Sending(i)
           /\ i \in written => i \in written'
<1>t. i \in Items /\ i.by \in Senders
    BY DEF CallItems
<1>1. CASE UNCHANGED <<sendCh, item, written>> /\ ~SendTake
    BY <1>1, SenderSteps DEF Sending
<1>2. CASE SendTake
    <2>1. /\ sendCh # <<>> /\ item' = Head(sendCh) /\ sendCh' = Tail(sendCh) /\ written' = written
        BY <1>2 DEF SendTake
    <2>2. ASSUME NEW n \in 1..Len(sendCh') PROVE \E m \in 1..Len(sendCh) : sendCh'[n] = sendCh[m]
        <3>1. n + 1 \in 1..Len(sendCh) /\ sendCh'[n] = sendCh[n + 1]
            BY <2>1, <2>2, ReplyTypes
        <3> QED BY <3>1
    <2>3. 1 \in 1..Len(sendCh) /\ item' = sendCh[1]
        BY <2>1, ReplyTypes
    <2> QED BY <2>1, <2>2, <2>3 DEF Sending
<1>3. CASE SendWrite
    <2>1. /\ pc[send] = "write" /\ written' = written \cup {item} /\ sendCh' = sendCh /\ item' = item
          /\ pc'[send] = "idle"
        BY <1>3, ReplyTypes DEF SendWrite, Goto
    <2> QED BY <2>1 DEF Sending
<1>4. ASSUME NEW x, sendCh' = Append(sendCh, x), UNCHANGED <<item, written>>, ~SendTake
      PROVE  /\ Sending(i)' => Sending(i) \/ i = x
             /\ i \in written' <=> i \in written
    <2>1. \A n \in 1..Len(sendCh') : sendCh'[n] = x \/ \E m \in 1..Len(sendCh) : sendCh'[n] = sendCh[m]
        BY <1>4, ReplyTypes
    <2> QED BY <1>4, <2>1, SenderSteps DEF Sending
<1>5. ASSUME NEW u \in Senders, Enqueue(u), ~SendTake
      PROVE  /\ Sending(i)' => Sending(i) \/ (Enqueue(i.by) /\ i = Own(i.by))
             /\ i \in written' <=> i \in written
    <2>1. sendCh' = Append(sendCh, Own(u)) /\ UNCHANGED <<item, written>>
        BY <1>5 DEF Enqueue
    <2>2. Own(u).by = u
        BY ReplyTypes
    <2> QED BY <1>4, <1>5, <2>1, <2>2
<1>6. CASE SendNoWait /\ ~SendTake
    <2>1. sendCh' = Append(sendCh, Item(recv, pc[recv])) /\ UNCHANGED <<item, written>>
        BY <1>6 DEF SendNoWait
    <2>2. i # Item(recv, pc[recv])
        BY <1>t, ReplyTypes DEF Item
    <2> QED BY <1>4, <1>6, <2>1, <2>2
<1> QED BY <1>1, <1>2, <1>3, <1>5, <1>6, ItemSteps

LEMMA NextNumbered ==
    ASSUME Types, Numbered, [Next]_vars
    PROVE  Numbered'
<1> SUFFICES ASSUME NEW i \in CallItems, Sending(i)' \/ i \in written'
             PROVE  i.no <= calls'[i.by] /\ (pc'[i.by] \in {"control", "enqueue"} => i.no < calls'[i.by])
    BY DEF Numbered, CallItems
<1>t. i \in Items /\ i.by \in Senders /\ i.by \in Tasks /\ i.no \in Nat /\ calls[i.by] \in Nat
    BY ReplyTypes DEF CallItems
<1>p. pc \in [Tasks -> Labels]
    BY ReplyTypes
<1>1. CASE Sending(i) \/ i \in written
    <2>1. i.no <= calls[i.by] /\ (pc[i.by] \in {"control", "enqueue"} => i.no < calls[i.by])
        BY <1>1 DEF Numbered
    <2>2. CASE Unmoved(i.by) \/ CallBegun(i.by) \/ CallDeclined(i.by)
        BY <1>t, <2>1, <2>2 DEF Unmoved, CallBegun, CallDeclined
    <2>3. CASE Enqueue(i.by) \/ Await(i.by) \/ GiveUp(i.by)
        <3>1. calls' = calls /\ pc'[i.by] \in {"await", "idle", "done"}
            BY <1>p, <1>t, <2>3 DEF Enqueue, Await, GiveUp, Return, Goto, callVars
        <3> QED BY <2>1, <3>1
    <2>4. CASE Control(i.by)
        <3>1. calls' = calls /\ pc[i.by] = "control"
            BY <2>4 DEF Control, callVars
        <3> QED BY <2>1, <3>1
    <2> QED BY <1>t, <2>2, <2>3, <2>4, CallerSteps
<1>2. CASE Enqueue(i.by) /\ i = Own(i.by)
    <2>1. calls' = calls /\ pc'[i.by] = "await" /\ i.no = calls[i.by]
        BY <1>p, <1>t, <1>2, ReplyTypes DEF Enqueue, callVars, Goto
    <2> QED BY <1>t, <2>1
<1> QED BY <1>1, <1>2, SendingSteps

LEMMA NextOnce ==
    ASSUME Types, Numbered, Once, [Next]_vars
    PROVE  Once'
<1>t. sendCh \in Seq(Items) /\ pc \in [Tasks -> Labels] /\ (pc[send] = "write" => item \in Items)
    BY ReplyTypes
<1>1. CASE UNCHANGED <<sendCh, item, written>> /\ ~SendTake
    BY <1>1, SenderSteps DEF Once
<1>2. CASE SendTake
    <2>1. /\ sendCh # <<>> /\ item' = Head(sendCh) /\ sendCh' = Tail(sendCh) /\ written' = written
        BY <1>2 DEF SendTake
    <2>2. item' = sendCh[1] /\ 1 \in 1..Len(sendCh)
        BY <1>t, <2>1
    <2>3. ASSUME NEW n \in 1..Len(sendCh') PROVE n + 1 \in 1..Len(sendCh) /\ sendCh'[n] = sendCh[n + 1] /\ n + 1 # 1
        BY <1>t, <2>1, <2>3
    <2>4. \A m, n \in 1..Len(sendCh') : m # n => m + 1 # n + 1
        OBVIOUS
    <2> QED BY <2>1, <2>2, <2>3, <2>4 DEF Once
<1>3. CASE SendWrite
    <2>1. /\ pc[send] = "write" /\ written' = written \cup {item} /\ sendCh' = sendCh /\ item' = item
          /\ pc'[send] = "idle"
        BY <1>3, ReplyTypes DEF SendWrite, Goto
    <2> QED BY <2>1 DEF Once
<1>4. ASSUME NEW x, sendCh' = Append(sendCh, x), UNCHANGED <<item, written>>, ~SendTake,
             x.by \notin Senders \/ (x \in CallItems /\ ~Sending(x) /\ x \notin written)
      PROVE  Once'
    <2>1. ASSUME NEW n \in 1..Len(sendCh')
          PROVE  \/ n \in 1..Len(sendCh) /\ sendCh'[n] = sendCh[n]
                 \/ n = Len(sendCh) + 1 /\ n \notin 1..Len(sendCh) /\ sendCh'[n] = x
        BY <1>4, <1>t, <2>1
    <2>2. \A n \in 1..Len(sendCh) : sendCh[n].by \in Senders \/ x.by \in Senders => sendCh[n] # x
        BY <1>4 DEF Sending
    <2>3. pc'[send] = "write" => pc[send] = "write" /\ (item.by \in Senders \/ x.by \in Senders => item # x)
        BY <1>4, SenderSteps DEF Sending
    <2>4. \A m, n \in 1..Len(sendCh') : m # n /\ sendCh'[m].by \in Senders => sendCh'[m] # sendCh'[n]
        BY <2>1, <2>2 DEF Once
    <2>5. pc'[send] = "write" /\ item'.by \in Senders =>
              item' \notin written' /\ \A n \in 1..Len(sendCh') : sendCh'[n] # item'
        BY <1>4, <2>1, <2>3 DEF Once
    <2>6. \A n \in 1..Len(sendCh') : sendCh'[n].by \in Senders => sendCh'[n] \notin written'
        BY <1>4, <2>1 DEF Once
    <2> QED BY <2>4, <2>5, <2>6 DEF Once
<1>5. ASSUME NEW u \in Senders, Enqueue(u), ~SendTake PROVE Once'
    <2>1. sendCh' = Append(sendCh, Own(u)) /\ UNCHANGED <<item, written>> /\ pc[u] = "enqueue"
        BY <1>5 DEF Enqueue
    <2>2. Own(u) \in CallItems /\ Own(u).by = u /\ Own(u).no = calls[u] /\ calls[u] \in Nat
        BY ReplyTypes
    <2>3. ~Sending(Own(u)) /\ Own(u) \notin written
        BY <2>1, <2>2 DEF Numbered
    <2> QED BY <1>4, <1>5, <2>1, <2>2, <2>3
<1>6. CASE SendNoWait /\ ~SendTake
    <2>1. sendCh' = Append(sendCh, Item(recv, pc[recv])) /\ UNCHANGED <<item, written>>
        BY <1>6 DEF SendNoWait
    <2>2. Item(recv, pc[recv]).by \notin Senders
        BY ReplyTypes DEF Item
    <2> QED BY <1>4, <1>6, <2>1, <2>2
<1> QED BY <1>1, <1>2, <1>3, <1>5, <1>6, ItemSteps

(* An item awaited stays awaited, or its caller returns: late, or because it was written,
   or because send has failed. *)
LEMMA CurrentSteps ==
    ASSUME Types, ErrorEnds, [Next]_vars, NEW i \in CallItems, i \in late \/ Current(i)
    PROVE  \/ i \in late' \/ Current(i)'
           \/ Await(i.by) /\ (i \in written \/ pc[send] \notin {"idle", "write"})
<1>t. i.by \in Senders /\ i.by \in Tasks /\ pc \in [Tasks -> Labels] /\ Chan(i.by) \in Channels
    BY ReplyTypes, ChanNames DEF CallItems
<1>0. CASE i \in late
    <2>1. late \subseteq late'
        BY DEF vars, queueVars, Next, CloseCall, PeerHangsUp, WaitForSend, Enqueue, Await, GiveUp,
            OpenStream, OpenRegister, AcceptStream, AcceptShutdown, GoAway, StreamClose, StreamUnregister,
            StreamWrite, StreamRead, Control, Send, SendTake, SendError, SendStop, SendWrite, Recv, RecvError,
            RecvLookup, RecvFlags, RecvUnregister, RecvIncoming, SendNoWait, NoWaitShutdown, RecvGoAway,
            RecvFrame, Close, ExitErr, CloseBegin, CloseNotify, HangUp, CloseLock, ForceClose, CloseEnd
    <2> QED BY <1>0, <2>1
<1>1. CASE Current(i)
    <2>0. pc[i.by] = "await" /\ i = Own(i.by)
        BY <1>1 DEF Current
    <2>1. CASE Unmoved(i.by)
        <3>1. i = Own(i.by)'
            BY <2>0, <2>1 DEF Unmoved, Own, Item
        <3> QED BY <2>0, <2>1, <3>1 DEF Unmoved, Current
    <2>2. CASE GiveUp(i.by)
        BY <2>0, <2>2 DEF GiveUp
    <2>3. CASE Await(i.by)
        <3>1. errCh[Chan(i.by)] \in {"nil", "EPIPE"}
            BY <1>t, <2>3 DEF Await, Types, TypeOK
        <3> QED BY <1>t, <2>0, <2>3, <3>1 DEF Await, ErrorEnds
    <2>4. ~Enqueue(i.by) /\ ~Control(i.by) /\ ~CallBegun(i.by) /\ ~CallDeclined(i.by)
        BY <2>0 DEF Enqueue, Control, CallBegun, CallDeclined
    <2> QED BY <1>t, <2>1, <2>2, <2>3, <2>4, CallerSteps
<1> QED BY <1>0, <1>1

LEMMA NextExpected ==
    ASSUME Types, Once, Expected, ErrorEnds, [Next]_vars
    PROVE  Expected'
<1> SUFFICES ASSUME pc'[send] \in {"idle", "write"}, NEW i \in CallItems, Sending(i)'
             PROVE  i \in late' \/ Current(i)'
    BY DEF Expected, CallItems
<1>1. pc[send] \in {"idle", "write"}
    BY SenderSteps
<1>2. CASE Sending(i)
    <2>1. i \in late \/ Current(i)
        BY <1>1, <1>2 DEF Expected
    <2>2. i \notin written
        BY <1>2 DEF Once, Sending, CallItems
    <2> QED BY <1>1, <2>1, <2>2, CurrentSteps
<1>3. CASE Enqueue(i.by) /\ i = Own(i.by)
    <2>1. pc'[i.by] = "await"
        BY <1>3, ReplyTypes DEF Enqueue, Goto, CallItems
    <2>2. Own(i.by)' = Own(i.by)
        BY <1>3 DEF Enqueue, callVars, Own, Item
    <2> QED BY <1>3, <2>1, <2>2 DEF Current
<1> QED BY <1>2, <1>3, SendingSteps

LEMMA NextErrorEnds ==
    ASSUME Types, ErrorEnds, [Next]_vars
    PROVE  ErrorEnds'
<1> SUFFICES ASSUME NEW c \in Channels, errCh'[c] = "EPIPE" PROVE pc'[send] \notin {"idle", "write"}
    BY DEF ErrorEnds
<1>1. CASE errCh[c] = "EPIPE"
    BY <1>1, SenderSteps DEF ErrorEnds
<1>2. CASE SendError
    BY <1>2, ReplyTypes DEF SendError, Goto
<1> QED BY <1>1, <1>2, ChanSteps

LEMMA NextNilAnswers ==
    ASSUME Types, ControlHeld, Expected, ErrorEnds, NilAnswers, [Next]_vars
    PROVE  NilAnswers'
<1> SUFFICES ASSUME NEW c \in Channels, errCh'[c] = "nil"
             PROVE  \E i \in written' : i \in CallItems /\ Chan(i.by) = c /\ (i \in late' \/ Current(i)')
    BY DEF NilAnswers, CallItems
<1>1. CASE errCh[c] = "nil"
    <2>1. PICK i \in written : i \in CallItems /\ Chan(i.by) = c /\ (i \in late \/ Current(i))
        BY <1>1 DEF NilAnswers
    <2>2. ~Await(i.by)
        <3>1. c = Chan(i.by) /\ c \in Channels
            BY <2>1
        <3> QED BY <1>1, <3>1 DEF Await, Types, TypeOK
    <2>3. i \in written'
        BY <2>1, SendingSteps
    <2> QED BY <2>1, <2>2, <2>3, CurrentSteps
<1>2. CASE SendWrite /\ Chan(item.by) = c
    <2>1. /\ pc[send] = "write" /\ written' = written \cup {item} /\ UNCHANGED <<late, calls>>
          /\ \A t \in Senders : pc'[t] = pc[t]
        BY <1>2, ReplyTypes DEF SendWrite, Goto, callVars
    <2>2. item \in CallItems
        <3>1. item \in Items /\ item.by \in Tasks
            BY <2>1, ReplyTypes DEF Items
        <3> QED BY <1>2, <3>1, ChanNames DEF CallItems
    <2>3. item \in late \/ Current(item)
        BY <2>1, <2>2 DEF Expected, Sending
    <2>4. \A i \in CallItems : Current(i) => Current(i)'
        BY <2>1 DEF Current, CallItems, Own, Item
    <2> QED BY <1>2, <2>1, <2>2, <2>3, <2>4
<1> QED BY <1>1, <1>2, ChanSteps

(* A nil that t takes from its channel. *)
LEMMA NilTaken ==
    ASSUME Types, ControlHeld, NilAnswers, LateEnds, NEW t \in Senders, Await(t),
           errCh[Chan(t)] = "nil"
    PROVE  Own(t) \in written \/ (shutdown /\ \E i \in written \cap late : Chan(i.by) = Chan(t))
<1>1. PICK i \in written : i \in CallItems /\ Chan(i.by) = Chan(t) /\ (i \in late \/ Current(i))
    BY ChanNames DEF NilAnswers
<1>2. CASE i \in late
    BY <1>1, <1>2 DEF LateEnds
<1>3. CASE Current(i)
    <2>1. pc[i.by] = "await" /\ i.by \in Senders /\ pc[t] = "await"
        BY <1>1, <1>3 DEF Current, CallItems, Await
    <2>2. i.by = t
        BY <1>1, <2>1, OneAwaits
    <2> QED BY <1>1, <1>3, <2>2 DEF Current
<1> QED BY <1>1, <1>2, <1>3

LEMMA ShutdownStays == ASSUME [Next]_vars, shutdown PROVE shutdown'
    BY DEF sessionVars, vars, Next, CloseCall, PeerHangsUp, WaitForSend, Enqueue, Await, GiveUp, Return,
        OpenStream, OpenRegister, AcceptStream, AcceptShutdown, GoAway, StreamClose, StreamUnregister,
        StreamWrite, StreamRead, Control, Send, SendTake, SendError, SendStop, SendWrite, Recv, RecvError,
        RecvLookup, RecvFlags, RecvUnregister, RecvIncoming, SendNoWait, NoWaitShutdown, RecvGoAway,
        RecvFrame, Fails, Close, ExitErr, CloseBegin, CloseNotify, HangUp, CloseLock, ForceClose, CloseEnd

LEMMA NextLateEnds ==
    ASSUME Types, ControlHeld, NilAnswers, LateEnds, [Next]_vars
    PROVE  LateEnds'
<1>1. CASE late' = late
    BY <1>1, ShutdownStays DEF LateEnds
<1>2. ASSUME NEW t \in Senders, GiveUp(t) PROVE shutdown
    BY <1>2 DEF GiveUp
<1>3. ASSUME NEW t \in Senders, Await(t), late' # late PROVE shutdown
    <2>1. errCh[Chan(t)] = "nil" /\ Own(t) \notin written
        BY <1>3 DEF Await
    <2> QED BY <1>3, <2>1, NilTaken
<1>4. late' = late \/ \E t \in Senders : Await(t) \/ GiveUp(t)
    BY DEF vars, queueVars, Next, CloseCall, PeerHangsUp, WaitForSend, Enqueue, OpenStream,
        OpenRegister, AcceptStream, AcceptShutdown, GoAway, StreamClose, StreamUnregister, StreamWrite,
        StreamRead, Control, Send, SendTake, SendError, SendStop, SendWrite, Recv, RecvError, RecvLookup,
        RecvFlags, RecvUnregister, RecvIncoming, SendNoWait, NoWaitShutdown, RecvGoAway, RecvFrame, Close,
        ExitErr, CloseBegin, CloseNotify, HangUp, CloseLock, ForceClose, CloseEnd
<1> QED BY <1>1, <1>2, <1>3, <1>4, ShutdownStays DEF LateEnds

LEMMA NextNilIsAReply ==
    ASSUME Types, ControlHeld, ErrorEnds, NilAnswers, LateEnds, NilIsAReply, [Next]_vars
    PROVE  NilIsAReply'
<1> SUFFICES ASSUME NEW t \in Senders, result'[t] = "nil"
             PROVE  \/ Own(t)' \in written'
                    \/ shutdown' /\ \E i \in written' \cap late' : Chan(i.by) = Chan(t)
    BY DEF NilIsAReply
<1>0. written \subseteq written' /\ late \subseteq late'
    <2>1. written \subseteq written'
        BY ItemSteps DEF SendTake, SendWrite, Enqueue, SendNoWait
    <2>2. late \subseteq late'
        BY DEF vars, queueVars, Next, CloseCall, PeerHangsUp, WaitForSend, Enqueue, Await, GiveUp,
            OpenStream, OpenRegister, AcceptStream, AcceptShutdown, GoAway, StreamClose, StreamUnregister,
            StreamWrite, StreamRead, Control, Send, SendTake, SendError, SendStop, SendWrite, Recv, RecvError,
            RecvLookup, RecvFlags, RecvUnregister, RecvIncoming, SendNoWait, NoWaitShutdown, RecvGoAway,
            RecvFrame, Close, ExitErr, CloseBegin, CloseNotify, HangUp, CloseLock, ForceClose, CloseEnd
    <2> QED BY <2>1, <2>2
<1>1. \/ result[t] = "nil" /\ calls'[t] = calls[t]
      \/ Await(t) /\ errCh[Chan(t)] = "nil" /\ calls'[t] = calls[t]
    <2>0. result \in [Senders -> {"none", "nil", "EPIPE", "ErrSessionShutdown"}]
        BY DEF Types, TypeOK
    <2> QED BY <2>0, CallerSteps DEF Unmoved, Enqueue, Await, GiveUp, Return, Control, CallBegun,
            CallDeclined, callVars
<1>2. \/ Own(t) \in written
      \/ shutdown /\ \E i \in written \cap late : Chan(i.by) = Chan(t)
    BY <1>1, NilTaken DEF NilIsAReply
<1>3. Own(t)' = Own(t)
    BY <1>1 DEF Own, Item
<1> QED BY <1>0, <1>2, <1>3, ShutdownStays

LEMMA InitReplies == Init => ReplyInv
<1> SUFFICES ASSUME Init PROVE ReplyInv
    OBVIOUS
<1>1. /\ pc \in [Tasks -> {"idle", "done"}] /\ pc[send] = "idle"
      /\ sendCh = <<>> /\ written = {} /\ late = {}
      /\ errCh = [c \in Channels |-> "empty"] /\ result = [t \in Senders |-> "none"]
    BY InitLabels DEF Init
<1>2. pc[send] = "idle" /\ \A i : ~Sending(i)
    BY <1>1, TaskNames DEF Sending
<1>3. ControlHeld /\ Numbered /\ Expected /\ ErrorEnds /\ NilAnswers /\ LateEnds /\ NilIsAReply
    BY <1>1, <1>2, InitControl DEF Numbered, Expected, ErrorEnds, NilAnswers, LateEnds, NilIsAReply
<1>4. Once
    BY <1>1, <1>2 DEF Once
<1> QED BY <1>3, <1>4 DEF ReplyInv

LEMMA NextReplies == Types /\ ReplyInv /\ [Next]_vars => ReplyInv'
    BY NextControl, NextNumbered, NextOnce, NextExpected, NextErrorEnds, NextNilAnswers, NextLateEnds,
       NextNilIsAReply DEF ReplyInv

(* NilIsAReply for every instance: however many calls of Write, Read and Close share a reply
   channel, a nil is the reply to a frame that was written, and while the session is up to
   the caller's own. *)
THEOREM NilsAreReplies == Spec => []NilIsAReply
<1>1. ReplyInv => NilIsAReply
    BY DEF ReplyInv
<1> QED BY InitTypes, InitRecvHolds, NextTypes, NextRecvHolds, InitReplies, NextReplies, <1>1, PTL DEF Spec

-----------------------------------------------------------------------------
(* Where a session stops *)

(* The labels of each kind of task. *)
Ways ==
    /\ pc[recv] \in {"idle", "exit", "close", "done", "lookup", "flags", "unregister", "incoming",
                     "pong", "refuse", "goaway"} \cup Closing
    /\ pc[send] \in {"idle", "write", "exit", "close", "done"} \cup Closing
    /\ \A t \in Senders :
          /\ pc[t] \in {"idle", "control", "enqueue", "await", "register", "unregister", "done"}
          /\ pc[t] = "control" => t \in Controllers

(* Who holds a stateLock between two steps is about to unregister that stream; who holds
   streamLock sweeps, or is recv in incomingStream with a frame to send. *)
Unregisters(u, s) == pc[u] = "unregister" /\ s = IF u = recv THEN frame.id ELSE u[2]
Holding ==
    /\ \A s \in Streams, u \in Tasks : lock[s] = u => Unregisters(u, s)
    /\ \A u \in Tasks : lock["stream"] = u =>
          pc[u] = "sweep" \/ (u = recv /\ pc[u] \in {"refuse", "goaway"})

FlagFrames == pc[recv] \in {"lookup", "flags"} => frame.kind \in {"FIN", "RST"}

(* The frame of a caller that waits for its reply is queued or being written. *)
Queued(t) == \E i \in 1..Len(sendCh) : sendCh[i].by = t
Awaiting ==
    \A t \in Senders : pc[t] = "await" /\ errCh[Chan(t)] = "empty" =>
        Queued(t) \/ (pc[send] = "write" /\ item.by = t)

StopInv == Ways /\ Holding /\ FlagFrames /\ Awaiting /\ ControlHeld

LEMMA NextWays ==
    ASSUME Types, Ways, [Next]_vars
    PROVE  Ways'
<1>t. pc \in [Tasks -> Labels]
    BY DEF Types, TypeOK, Labels
<1>1. CASE UNCHANGED vars
    BY <1>1 DEF vars, Ways
<1>2. CASE Next
  <2>1. ASSUME pc'[recv] # pc[recv]
        PROVE  pc'[recv] \in {"idle", "exit", "close", "done", "lookup", "flags", "unregister", "incoming",
                              "pong", "refuse", "goaway"} \cup Closing
    <3>1. Recv \/ (\E kind \in Kinds, s \in Streams : RecvFrame(kind, s)) \/ Close(recv)
        BY <1>2, <2>1, RecvUndisturbed
    <3>2. CASE Close(recv)
        BY <1>t, <2>1, <3>2, TaskNames DEF Close, ExitErr, CloseBegin, CloseNotify, HangUp, CloseLock, CloseEnd,
            ForceClose, Goto, Closing
    <3>3. CASE Recv
        BY <1>t, <2>1, <3>3, TaskNames DEF Recv, RecvError, RecvLookup, RecvFlags, RecvUnregister,
            RecvIncoming, SendNoWait, NoWaitShutdown, Goto
    <3>4. CASE \E kind \in Kinds, s \in Streams : RecvFrame(kind, s)
        BY <1>t, <2>1, <3>4, TaskNames DEF RecvFrame, Goto
    <3> QED BY <3>1, <3>2, <3>3, <3>4
  <2>2. ASSUME pc'[send] # pc[send]
        PROVE  pc'[send] \in {"idle", "write", "exit", "close", "done"} \cup Closing
    <3>1. send \notin Senders /\ send # open /\ send # accept /\ send # announce
        BY DEF send, open, accept, announce, Senders, Users, Closers, Writers, Updaters
    <3>2. Send \/ SendWrite \/ Close(send)
        BY <1>2, <2>2, <3>1, Movers, TaskNames
    <3>3. CASE Close(send)
        BY <1>t, <2>2, <3>3, TaskNames DEF Close, ExitErr, CloseBegin, CloseNotify, HangUp, CloseLock, CloseEnd,
            ForceClose, Goto, Closing
    <3>4. CASE Send \/ SendWrite
        BY <1>t, <2>2, <3>4, TaskNames DEF Send, SendTake, SendError, SendStop, SendWrite, Goto
    <3> QED BY <3>2, <3>3, <3>4
  <2>3. ASSUME NEW t \in Senders
        PROVE  /\ pc'[t] \in {"idle", "control", "enqueue", "await", "register", "unregister", "done"}
               /\ pc'[t] = "control" => t \in Controllers
    <3>1. /\ t \in Tasks
          /\ pc[t] \in {"idle", "control", "enqueue", "await", "register", "unregister", "done"}
          /\ pc[t] = "control" => t \in Controllers
        BY TaskNames DEF Ways
    <3> QED BY <1>t, <3>1, CallerSteps DEF Unmoved, Enqueue, Await, GiveUp, Return, Control, Goto,
            CallBegun, CallDeclined
  <2> QED BY <2>1, <2>2, <2>3 DEF Ways
<1> QED BY <1>1, <1>2

(* How a lock comes to its holder. *)
LEMMA LocksTaken ==
    ASSUME Types, RecvHolds, [Next]_vars, NEW l \in {"stream"} \cup Streams, NEW u \in Tasks,
           lock'[l] = u, lock[l] # u
    PROVE  \/ l = "stream" /\ (pc'[u] = "sweep" \/ (u = recv /\ pc'[u] \in {"refuse", "goaway"}))
           \/ l \in Streams /\ Unregisters(u, l)'
<1> USE DEF lockVars
<1>t. /\ lock \in [{"shutdown", "stream"} \cup Streams -> Tasks \cup {free}]
      /\ pc \in [Tasks -> Labels] /\ free \notin Tasks
      /\ "stream" \notin Streams /\ "shutdown" \notin Streams /\ "stream" # "shutdown"
    BY TaskNames, StreamNames DEF Types, TypeOK, Labels
<1>1. ASSUME NEW t \in {user, recv, send} \cap Tasks, Close(t)
      PROVE  l = "stream" /\ pc'[u] = "sweep"
    BY <1>1, <1>t DEF Close, ExitErr, CloseBegin, CloseNotify, HangUp, CloseLock, CloseEnd, ForceClose, Goto
<1>2. ASSUME NEW t \in Closers \cap Users, StreamClose(t)
      PROVE  l \in Streams /\ Unregisters(u, l)'
  <2>1. t \in Tasks /\ t[2] \in Streams /\ t # recv
      BY TaskNames, StreamNames
  <2>2. lock' = [lock EXCEPT ![t[2]] = t] /\ Goto(t, "unregister")
      BY <1>2, <1>t DEF StreamClose
  <2> QED BY <1>t, <2>1, <2>2 DEF Goto, Unregisters
<1>3. CASE RecvFlags
  <2>1. frame.id \in Streams /\ frame' = frame
      BY <1>3 DEF RecvFlags, RecvHolds
  <2>2. lock' = [lock EXCEPT ![frame.id] = recv] /\ Goto(recv, "unregister")
      BY <1>3, <1>t DEF RecvFlags
  <2> QED BY <1>t, <2>1, <2>2, TaskNames DEF Goto, Unregisters
<1>4. CASE RecvIncoming
  <2>1. lock' = [lock EXCEPT !["stream"] = recv] /\ (Goto(recv, "goaway") \/ Goto(recv, "refuse"))
      BY <1>4, <1>t DEF RecvIncoming
  <2> QED BY <1>t, <2>1, TaskNames DEF Goto
<1>5. CASE lock' = lock
    BY <1>5
<1>6. CASE SendNoWait \/ NoWaitShutdown
    BY <1>t, <1>6 DEF SendNoWait, NoWaitShutdown, Unlocked
<1>7. CASE RecvUnregister
  <2>1. frame.id \in Streams
      BY <1>7 DEF RecvUnregister, RecvHolds
  <2> QED BY <1>t, <1>7, <2>1 DEF RecvUnregister
<1>8. ASSUME NEW t \in Closers \cap Users, StreamUnregister(t) PROVE FALSE
  <2>1. t[2] \in Streams
      BY TaskNames, StreamNames
  <2> QED BY <1>t, <1>8, <2>1 DEF StreamUnregister
<1>9. CASE UNCHANGED vars
    BY <1>9 DEF vars
<1>10. CASE Next /\ ~(\E t \in {user, recv, send} \cap Tasks : Close(t))
             /\ ~(\E t \in Closers \cap Users : StreamClose(t) \/ StreamUnregister(t))
             /\ ~(RecvFlags \/ RecvUnregister \/ RecvIncoming \/ SendNoWait \/ NoWaitShutdown)
  <2>1. lock' = lock
      BY <1>10 DEF Next, CloseCall, PeerHangsUp, WaitForSend, Enqueue, Await, GiveUp, Return, OpenStream,
        OpenRegister, AcceptStream, AcceptShutdown, GoAway, StreamWrite, StreamRead, Control, Send, SendTake, SendError,
        SendStop, SendWrite, Recv, RecvError, RecvLookup, RecvGoAway, RecvFrame
  <2> QED BY <1>5, <2>1
<1> QED BY <1>1, <1>2, <1>3, <1>4, <1>5, <1>6, <1>7, <1>8, <1>9, <1>10

(* Who gives a lock back before it goes on. *)
LEMMA NextHolding ==
    ASSUME Types, RecvHolds, Ways, Holding, [Next]_vars
    PROVE  Holding'
<1> USE DEF lockVars
<1>t. /\ lock \in [{"shutdown", "stream"} \cup Streams -> Tasks \cup {free}]
      /\ pc \in [Tasks -> Labels] /\ free \notin Tasks
      /\ "stream" \notin Streams /\ "shutdown" \notin Streams /\ "stream" # "shutdown"
    BY TaskNames, StreamNames DEF Types, TypeOK, Labels
<1>1. ASSUME NEW s \in Streams, NEW u \in Tasks, lock'[s] = u PROVE Unregisters(u, s)'
  <2>1. CASE lock[s] # u
      BY <1>1, <1>t, <2>1, LocksTaken
  <2>2. CASE lock[s] = u
    <3>1. Unregisters(u, s)
        BY <2>2 DEF Holding
    <3>2. ASSUME pc'[u] # pc[u] PROVE FALSE
      <4>0. Next
          BY <3>2 DEF vars
      <4>1. CASE u = recv /\ (Recv \/ \E kind \in Kinds, x \in Streams : RecvFrame(kind, x))
        <5>1. RecvUnregister
            BY <3>1, <4>1 DEF Unregisters, Recv, RecvError, RecvLookup, RecvFlags, RecvIncoming,
                SendNoWait, NoWaitShutdown, RecvFrame
        <5> QED BY <1>1, <1>t, <3>1, <4>1, <5>1 DEF RecvUnregister, Unregisters
      <4>2. CASE u \in Closers \cap Users /\ (StreamClose(u) \/ StreamUnregister(u))
        <5>1. StreamUnregister(u) /\ u # recv
            BY <3>1, <4>2, TaskNames DEF Unregisters, StreamClose
        <5> QED BY <1>1, <1>t, <3>1, <5>1 DEF StreamUnregister, Unregisters
      <4>3. CASE Close(u)
          BY <3>1, <3>2, <4>3 DEF Unregisters, Close, ExitErr, CloseBegin, CloseNotify, HangUp, CloseLock, CloseEnd,
            ForceClose
      <4>4. CASE \/ WaitForSend(u) \/ StreamWrite(u) \/ StreamRead(u) \/ Control(u)
                 \/ (u = send /\ (Send \/ SendWrite))
                 \/ (u = user /\ CloseCall) \/ (u = open /\ (OpenStream \/ OpenRegister))
                 \/ (u = accept /\ (AcceptStream \/ AcceptShutdown)) \/ (u = announce /\ GoAway)
          BY <3>1, <4>4 DEF Unregisters, WaitForSend, Enqueue, Await, GiveUp, Return, StreamWrite, StreamRead, Control, Send,
            SendTake, SendError, SendStop, SendWrite, CloseCall, OpenStream, OpenRegister,
            AcceptStream, AcceptShutdown, GoAway
      <4>5. \/ u = recv /\ (Recv \/ \E kind \in Kinds, x \in Streams : RecvFrame(kind, x))
            \/ u \in Closers \cap Users /\ (StreamClose(u) \/ StreamUnregister(u))
            \/ Close(u) \/ WaitForSend(u) \/ StreamWrite(u) \/ StreamRead(u) \/ Control(u)
                 \/ (u = send /\ (Send \/ SendWrite))
            \/ (u = user /\ CloseCall) \/ (u = open /\ (OpenStream \/ OpenRegister))
            \/ (u = accept /\ (AcceptStream \/ AcceptShutdown)) \/ (u = announce /\ GoAway)
          BY <3>2, <4>0, Movers
      <4> QED BY <4>1, <4>2, <4>3, <4>4, <4>5
    <3>3. u = recv => frame' = frame
        BY <3>1, FrameSteps DEF RecvFrame, Unregisters
    <3> QED BY <3>1, <3>2, <3>3 DEF Unregisters
  <2> QED BY <2>1, <2>2
<1>2. ASSUME NEW u \in Tasks, lock'["stream"] = u
      PROVE  pc'[u] = "sweep" \/ (u = recv /\ pc'[u] \in {"refuse", "goaway"})
  <2>1. CASE lock["stream"] # u
      BY <1>2, <1>t, <2>1, LocksTaken
  <2>2. CASE lock["stream"] = u
    <3>1. pc[u] = "sweep" \/ (u = recv /\ pc[u] \in {"refuse", "goaway"})
        BY <2>2 DEF Holding
    <3>2. ASSUME pc'[u] # pc[u] PROVE FALSE
      <4>0. Next
          BY <3>2 DEF vars
      <4>1. CASE u = recv /\ (Recv \/ \E kind \in Kinds, x \in Streams : RecvFrame(kind, x))
        <5>1. SendNoWait \/ NoWaitShutdown
            BY <3>1, <4>1 DEF Recv, RecvError, RecvLookup, RecvFlags, RecvUnregister, RecvIncoming,
                RecvFrame
        <5> QED BY <1>2, <1>t, <2>2, <4>1, <5>1 DEF SendNoWait, NoWaitShutdown, Unlocked
      <4>2. CASE Close(u)
        <5>1. CloseEnd(u)
            BY <3>1, <3>2, <4>2 DEF Close, ExitErr, CloseBegin, CloseNotify, HangUp, CloseLock, ForceClose
        <5> QED BY <1>2, <1>t, <5>1 DEF CloseEnd
      <4>3. CASE \/ WaitForSend(u) \/ StreamWrite(u) \/ StreamRead(u) \/ Control(u)
                 \/ (u = send /\ (Send \/ SendWrite))
                 \/ (u = user /\ CloseCall) \/ (u = open /\ (OpenStream \/ OpenRegister))
                 \/ (u = accept /\ (AcceptStream \/ AcceptShutdown)) \/ (u = announce /\ GoAway)
                 \/ StreamClose(u) \/ StreamUnregister(u)
          BY <3>1, <4>3 DEF WaitForSend, Enqueue, Await, GiveUp, Return, StreamWrite, StreamRead, Control, Send,
            SendTake, SendError, SendStop, SendWrite, CloseCall, OpenStream, OpenRegister,
            AcceptStream, AcceptShutdown, GoAway, StreamClose, StreamUnregister
      <4>4. \/ u = recv /\ (Recv \/ \E kind \in Kinds, x \in Streams : RecvFrame(kind, x))
            \/ u \in Closers \cap Users /\ (StreamClose(u) \/ StreamUnregister(u))
            \/ Close(u) \/ WaitForSend(u) \/ StreamWrite(u) \/ StreamRead(u) \/ Control(u)
                 \/ (u = send /\ (Send \/ SendWrite))
            \/ (u = user /\ CloseCall) \/ (u = open /\ (OpenStream \/ OpenRegister))
            \/ (u = accept /\ (AcceptStream \/ AcceptShutdown)) \/ (u = announce /\ GoAway)
          BY <3>2, <4>0, Movers
      <4> QED BY <4>1, <4>2, <4>3, <4>4
    <3> QED BY <3>1, <3>2
  <2> QED BY <2>1, <2>2
<1> QED BY <1>1, <1>2 DEF Holding

LEMMA NextFlagFrames ==
    ASSUME Types, FlagFrames, [Next]_vars
    PROVE  FlagFrames'
<1>t. pc \in [Tasks -> Labels] /\ recv \in Tasks
    BY TaskNames DEF Types, TypeOK, Labels
<1>1. CASE UNCHANGED vars \/ (pc'[recv] = pc[recv] /\ frame' = frame)
    BY <1>1 DEF vars, peerVars, FlagFrames
<1>2. CASE \E kind \in Kinds, s \in Streams : RecvFrame(kind, s)
  <2>1. PICK kind \in Kinds, s \in Streams : RecvFrame(kind, s)
      BY <1>2
  <2>2. frame'.kind = kind /\ (pc'[recv] \in {"lookup", "flags"} => kind \in {"FIN", "RST"})
      BY <1>t, <2>1 DEF RecvFrame, Goto
  <2> QED BY <2>2 DEF FlagFrames
<1>3. CASE Recv
  <2>1. frame' = frame /\ (pc'[recv] \in {"lookup", "flags"} => pc[recv] = "lookup")
      BY <1>t, <1>3 DEF Recv, RecvError, RecvLookup, RecvFlags, RecvUnregister, RecvIncoming, SendNoWait,
            NoWaitShutdown, peerVars, Goto
  <2> QED BY <2>1 DEF FlagFrames
<1>4. CASE Close(recv)
  <2>1. pc' = pc \/ pc'[recv] \notin {"lookup", "flags"}
      BY <1>t, <1>4 DEF Close, ExitErr, CloseBegin, CloseNotify, HangUp, CloseLock, CloseEnd, ForceClose, Goto
  <2>2. frame' = frame
      BY <1>4 DEF Close, ExitErr, CloseBegin, CloseNotify, HangUp, CloseLock, CloseEnd, ForceClose, peerVars
  <2> QED BY <2>1, <2>2 DEF FlagFrames
<1> QED BY <1>1, <1>2, <1>3, <1>4, RecvUndisturbed

(* A frame goes from its caller into sendCh, from there to send, and then there is a reply. *)
LEMMA NextAwaiting ==
    ASSUME Types, Ways, ControlHeld, Awaiting, [Next]_vars
    PROVE  Awaiting'
<1> SUFFICES ASSUME NEW t \in Senders, pc'[t] = "await", errCh'[Chan(t)] = "empty"
             PROVE  Queued(t)' \/ (pc'[send] = "write" /\ item'.by = t)
    BY DEF Awaiting
<1>t. /\ pc \in [Tasks -> Labels] /\ sendCh \in Seq(Items)
      /\ errCh \in [Channels -> {"empty", "nil", "EPIPE"}] /\ Chan(t) \in Channels
      /\ t \in Tasks /\ t # recv /\ t # send /\ t # user /\ send \in Tasks
    BY TaskNames, ChanNames DEF Types, TypeOK, Labels
<1>q. ASSUME NEW x, sendCh' = Append(sendCh, x), x.by = t \/ Queued(t) PROVE Queued(t)'
  <2>1. CASE x.by = t
    <3>1. sendCh'[Len(sendCh) + 1] = x /\ Len(sendCh) + 1 \in 1..Len(sendCh')
        BY <1>q, <1>t
    <3> QED BY <2>1, <3>1 DEF Queued
  <2>2. CASE Queued(t)
    <3>1. PICK i \in 1..Len(sendCh) : sendCh[i].by = t
        BY <2>2 DEF Queued
    <3>2. i \in 1..Len(sendCh') /\ sendCh'[i] = sendCh[i]
        BY <1>q, <1>t, <3>1
    <3> QED BY <3>1, <3>2 DEF Queued
  <2> QED BY <1>q, <2>1, <2>2
<1>1. CASE Enqueue(t)
  <2>1. Own(t).by = t
      BY ReplyTypes
  <2> QED BY <1>1, <1>q, <2>1 DEF Enqueue
<1>2. CASE UNCHANGED vars
    BY <1>2 DEF vars, queueVars, Awaiting, Queued
<1>3. CASE Next /\ ~Enqueue(t)
  <2>1. pc[t] = "await"
    <3> QED BY <1>3, <1>t, CallerSteps DEF Unmoved, Await, GiveUp, Return, Control, Goto, CallBegun,
            CallDeclined
  <2>2. errCh[Chan(t)] = "empty"
    <3>1. ASSUME NEW u \in Senders, Await(u), Chan(u) = Chan(t) PROVE FALSE
      <4>1. pc[u] = "await"
          BY <3>1 DEF Await
      <4>2. u = t
          BY <2>1, <3>1, <4>1, OneAwaits
      <4> QED BY <1>t, <3>1, <4>2 DEF Await, Return, Goto
    <3> QED BY <1>t, <3>1, ChanSteps
  <2>3. ~((SendWrite \/ SendError) /\ item.by = t)
      BY <1>t, <2>2 DEF SendWrite, SendError, Reply
  <2>4. Queued(t) \/ (pc[send] = "write" /\ item.by = t)
      BY <2>1, <2>2 DEF Awaiting
  <2>5. CASE SendTake
    <3>1. sendCh # <<>> /\ item' = Head(sendCh) /\ sendCh' = Tail(sendCh) /\ pc'[send] = "write"
          /\ pc[send] = "idle"
        BY <1>t, <2>5 DEF SendTake, Goto
    <3>2. PICK i \in 1..Len(sendCh) : sendCh[i].by = t
        BY <2>4, <3>1 DEF Queued
    <3>3. CASE i = 1
        BY <1>t, <3>1, <3>2, <3>3
    <3>4. CASE i # 1
      <4>1. i - 1 \in 1..Len(sendCh') /\ sendCh'[i - 1] = sendCh[i]
          BY <1>t, <3>1, <3>2, <3>4
      <4> QED BY <3>2, <4>1 DEF Queued
    <3> QED BY <3>3, <3>4
  <2>6. CASE ~SendTake
    <3>1. Queued(t) => Queued(t)'
      <4>1. CASE sendCh' = sendCh
          BY <4>1 DEF Queued
      <4>2. CASE \E x : sendCh' = Append(sendCh, x)
          BY <4>2, <1>q
      <4> QED BY <2>6, <4>1, <4>2, ItemSteps DEF SendWrite, Enqueue, SendNoWait
    <3>2. ASSUME pc[send] = "write", item.by = t PROVE pc'[send] = "write" /\ item'.by = t
      <4>1. pc'[send] = pc[send]
        <5>1. send \notin Senders /\ send # open /\ send # accept /\ send # announce
            BY DEF send, open, accept, announce, Senders, Users, Closers, Writers, Updaters
        <5>2. ASSUME pc'[send] # pc[send] PROVE Send \/ SendWrite \/ Close(send)
            BY <1>3, <1>t, <5>1, <5>2, Movers, TaskNames
        <5>3. ~Close(send) \/ pc' = pc
            BY <3>2 DEF Close, ExitErr, CloseBegin, CloseNotify, HangUp, CloseLock, CloseEnd, ForceClose
        <5>4. ~(Send \/ SendWrite)
            BY <2>3, <3>2 DEF Send, SendTake, SendStop
        <5> QED BY <5>2, <5>3, <5>4
      <4>2. item' = item
          BY <2>6, ItemSteps DEF SendWrite, Enqueue, SendNoWait
      <4> QED BY <3>2, <4>1, <4>2
    <3> QED BY <2>4, <3>1, <3>2
  <2> QED BY <2>5, <2>6
<1> QED BY <1>1, <1>2, <1>3

LEMMA InitStop == Init => StopInv
<1> SUFFICES ASSUME Init PROVE StopInv
    OBVIOUS
<1>1. /\ pc \in [Tasks -> {"idle", "done"}] /\ pc[recv] = "idle" /\ pc[send] = "idle"
      /\ lock = [l \in {"shutdown", "stream"} \cup Streams |-> free]
    BY InitLabels DEF Init
<1>2. \A t \in Tasks : pc[t] \in {"idle", "done"}
    BY <1>1
<1>3. Ways /\ FlagFrames /\ Awaiting
    BY <1>2, TaskNames DEF Ways, FlagFrames, Awaiting
<1>4. Holding
    BY <1>1, TaskNames DEF Holding
<1> QED BY <1>3, <1>4, InitControl DEF StopInv

LEMMA NextStop == SweepInv /\ StopInv /\ [Next]_vars => StopInv'
    BY NextWays, NextHolding, NextFlagFrames, NextAwaiting, NextControl DEF SweepInv, StopInv

(* A stateLock that is not free is held by someone who waits for streamLock. *)
LEMMA LockWaits ==
    ASSUME SweepInv, StopInv, NEW s \in Streams, ~Free(s)
    PROVE  \E u \in Tasks : lock[s] = u /\ pc[u] = "unregister"
<1>1. lock[s] \in Tasks
    BY DEF SweepInv, Types, TypeOK, Free
<1> QED BY <1>1 DEF StopInv, Holding, Unregisters

(* Close is stuck at a stateLock only. *)
LEMMA SweepWaits ==
    ASSUME SweepInv, StopInv, ~Moves, NEW t \in Tasks, pc[t] = "sweep"
    PROVE  LockCycle
<1>1. t \in {user, recv, send}
    BY DEF StopInv, Ways, Tasks, Senders
<1>2. left # {} /\ \A s \in left : ~Free(s)
    BY <1>1 DEF Moves, CloseMoves
<1>3. PICK s \in left : ~Free(s)
    BY <1>2
<1>4. s \in Streams
    BY DEF SweepInv, Types, TypeOK
<1>5. PICK u \in Tasks : lock[s] = u /\ pc[u] = "unregister"
    BY <1>3, <1>4, LockWaits
<1>6. lock["stream"] = t
    BY DEF SweepInv, LiveAreRegistered
<1> QED BY <1>3, <1>5, <1>6 DEF LockCycle

(* Otherwise nobody waits for a lock, and Close is over. *)
LEMMA NoLockWait ==
    ASSUME SweepInv, StopInv, ~Moves, \A t \in Tasks : pc[t] # "sweep", Room \/ shutdown
    PROVE  /\ \A t \in Tasks : pc[t] \notin {"exit", "close", "register", "unregister"} \cup Closing
           /\ pc[recv] \in {"idle", "done"} /\ (shutdown => connClosed)
<1>t. /\ lock \in [{"shutdown", "stream"} \cup Streams -> Tasks \cup {free}]
      /\ recv \in Tasks /\ send \in Tasks
    BY TaskNames DEF SweepInv, Types, TypeOK
<1>1. Free("stream")
  <2>1. SUFFICES ASSUME ~Free("stream") PROVE FALSE
      OBVIOUS
  <2>2. lock["stream"] \in Tasks
      BY <1>t, <2>1 DEF Free
  <2>3. pc[recv] \in {"refuse", "goaway"}
      BY <2>2 DEF StopInv, Holding
  <2> QED BY <2>3 DEF Moves, RecvMoves
<1>2. \A t \in Tasks : pc[t] \in {"exit", "close"} \cup Closing => t \in {user, recv, send}
    BY DEF StopInv, Ways, Tasks, Senders, Closing
<1>3. \A t \in Tasks : pc[t] \notin {"error", "notify", "hangup", "lock"}
    BY <1>1, <1>2 DEF Moves, CloseMoves, Closing
<1>4. Free("shutdown")
    BY <1>t, <1>3 DEF SweepInv, OneCloser, Closing, Free
<1>5. shutdown => connClosed
    BY <1>4 DEF SweepInv, OneCloser, Swept
<1>6. \A t \in Tasks : pc[t] \notin {"exit", "close"}
    BY <1>2, <1>4 DEF Moves, CloseMoves
<1>7. pc[recv] \notin {"lookup", "unregister", "incoming", "pong", "refuse", "goaway"}
    BY <1>1 DEF Moves, RecvMoves
<1>8. \A t \in Senders : pc[t] \notin {"register", "unregister"}
    BY <1>1 DEF Moves, CallMoves
<1>9. \A t \in Tasks : pc[t] \notin {"register", "unregister"}
  <2>1. \A t \in Tasks : t \in Senders \/ t = recv \/ t = send \/ (t = user /\ user \in Users)
      BY DEF Tasks, Senders
  <2>2. pc[send] \notin {"register", "unregister"} /\ pc[recv] \notin {"register", "unregister"}
      BY <1>7 DEF StopInv, Ways, Closing
  <2>3. user \in Users => pc[user] \notin {"register", "unregister"}
      BY DEF SweepInv, Types, UserCloses, Closing
  <2> QED BY <1>8, <2>1, <2>2, <2>3
<1>10. pc[recv] # "flags"
  <2>1. SUFFICES ASSUME pc[recv] = "flags" PROVE FALSE
      OBVIOUS
  <2>2. frame.id \in Streams /\ state[frame.id] # "none" /\ frame.kind \in {"FIN", "RST"}
      BY <2>1 DEF SweepInv, RecvHolds, BegunOnce, StopInv, FlagFrames
  <2>3. Free(frame.id)
      BY <1>9, <2>2, LockWaits
  <2> QED BY <2>1, <2>2, <2>3 DEF Moves, RecvMoves
<1>11. pc[recv] \in {"idle", "done"}
    BY <1>3, <1>6, <1>7, <1>10, <1>t DEF StopInv, Ways, Closing
<1> QED BY <1>3, <1>5, <1>6, <1>9, <1>11 DEF Closing

LEMMA WhereItStops ==
    ASSUME SweepInv, StopInv, NoSilentDeath
    PROVE  StopsReleased
<1> SUFFICES ASSUME ~Moves, ~LockCycle, ~WriteBlocked PROVE \A t \in Tasks : Ended(t)
    BY DEF StopsReleased
<1>t. /\ recv \in Tasks /\ send \in Tasks /\ recv # send
      /\ \A t \in Tasks : t \in Senders \/ t = recv \/ t = send \/ (t = user /\ user \in Users)
      /\ user # recv /\ user # send /\ user # accept
    BY TaskNames DEF Tasks, Senders, user, accept
<1>1. \A t \in Tasks : pc[t] # "sweep"
    BY SweepWaits
<1>2. pc[send] = "write" => shutdown \/ connClosed \/ hungUp
    BY DEF WriteBlocked
<1>3. ~shutdown => pc[send] # "write"
    BY <1>2 DEF Moves, SendMoves
<1>4. Room \/ shutdown
  <2>1. SUFFICES ASSUME ~shutdown PROVE Room
      OBVIOUS
  <2>2. pc[send] # "done"
      BY <2>1 DEF NoSilentDeath
  <2>3. CASE pc[send] = "idle"
    <3>1. sendCh = <<>>
        BY <2>3 DEF Moves, SendMoves
    <3> QED BY <3>1, BoundAssumption DEF Room
  <2>4. CASE pc[send] \in {"exit", "close"} \cup Closing
    <3>1. ASSUME NEW t \in Tasks, pc[t] \in Closing PROVE FALSE
      <4>1. pc[t] \in {"error", "notify"}
          BY <2>1, <3>1 DEF SweepInv, OneCloser, Closing
      <4>2. t \in {user, recv, send}
          BY <4>1 DEF StopInv, Ways, Tasks, Senders
      <4> QED BY <4>1, <4>2 DEF Moves, CloseMoves
    <3>2. lock["shutdown"] = free
        BY <3>1 DEF SweepInv, OneCloser, Types, TypeOK
    <3> QED BY <1>t, <2>4, <3>1, <3>2 DEF Moves, CloseMoves, Free
  <2> QED BY <1>3, <2>1, <2>2, <2>3, <2>4 DEF StopInv, Ways
<1>5. /\ \A t \in Tasks : pc[t] \notin {"exit", "close", "register", "unregister"} \cup Closing
      /\ pc[recv] \in {"idle", "done"} /\ (shutdown => connClosed)
    BY <1>1, <1>4, NoLockWait
<1>6. pc[send] \in {"idle", "done"} /\ (shutdown => pc[send] = "done" /\ pc[recv] = "done")
  <2>1. pc[send] \in {"idle", "write", "done"}
      BY <1>5, <1>t DEF StopInv, Ways
  <2>2. CASE shutdown
      BY <1>5, <2>1, <2>2 DEF Moves, SendMoves, RecvMoves
  <2>3. CASE ~shutdown
      BY <1>3, <2>1, <2>3
  <2> QED BY <2>2, <2>3
<1>c. \A t \in Senders : ~CallMoves(t)
    BY DEF Moves
<1>a. ASSUME NEW t \in Senders PROVE pc[t] \notin {"enqueue", "await"}
  <2>1. pc[t] # "enqueue"
      BY <1>4, <1>c DEF CallMoves
  <2>2. pc[t] # "await"
    <3>1. SUFFICES ASSUME pc[t] = "await" PROVE FALSE
        OBVIOUS
    <3>2. ~shutdown /\ errCh[Chan(t)] = "empty"
        BY <1>c, <3>1 DEF CallMoves
    <3>3. Queued(t)
        BY <1>3, <3>1, <3>2 DEF StopInv, Awaiting
    <3>4. sendCh # <<>>
        BY <3>3 DEF Queued
    <3>5. pc[send] = "idle"
        BY <1>6, <3>2 DEF NoSilentDeath
    <3> QED BY <3>4, <3>5 DEF Moves, SendMoves
  <2> QED BY <2>1, <2>2
<1>b. ASSUME NEW t \in Senders PROVE pc[t] # "control"
  <2>1. SUFFICES ASSUME pc[t] = "control" PROVE FALSE
      OBVIOUS
  <2>2. t[2] \in Old /\ t[2] \in Streams
      BY <2>1, TaskNames, TaskKinds, StreamNames DEF StopInv, Ways
  <2>3. Free(t[2])
      BY <1>5, <2>2, LockWaits
  <2>4. controlHdrLock[t[2]] # free
      BY <1>c, <2>1, <2>3 DEF CallMoves
  <2>5. PICK u \in Controllers \cap Users : pc[u] \in {"enqueue", "await"}
      BY <2>2, <2>4 DEF StopInv, ControlHeld
  <2>6. u \in Senders
      BY TaskNames, TaskKinds
  <2> QED BY <1>a, <2>5, <2>6
<1>7. ASSUME NEW t \in Senders PROVE Ended(t)
  <2>1. t \in Tasks /\ t # recv /\ t # send
      BY TaskNames
  <2>2. pc[t] \in {"idle", "done"}
      BY <1>5, <1>a, <1>b, <2>1 DEF StopInv, Ways
  <2> QED BY <1>c, <2>1, <2>2 DEF Ended, CallMoves
<1>8. Ended(recv) /\ Ended(send)
    BY <1>5, <1>6 DEF Ended
<1>9. user \in Users => Ended(user)
    BY <1>5, <1>t, TaskNames DEF SweepInv, Types, UserCloses, Closing, Ended
<1> QED BY <1>t, <1>7, <1>8, <1>9

(* StopsReleased for every instance: nobody in a session waits for ever, but for a peer that
   does not read and in the deadlock of Close (session.go:180). *)
THEOREM SessionsStopReleased == Spec => []StopsReleased
<1>1. Init => SweepInv /\ StopInv
    BY InitSweep, InitStop
<1>2. SweepInv /\ StopInv /\ [Next]_vars => (SweepInv /\ StopInv)'
    BY NextSweep, NextStop
<1>3. Spec => []NoSilentDeath
    BY NoneDiesSilently
<1> QED BY <1>1, <1>2, <1>3, WhereItStops, PTL DEF Spec
=============================================================================
