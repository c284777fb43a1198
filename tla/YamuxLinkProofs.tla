--------------------------- MODULE YamuxLinkProofs ---------------------------
(***************************************************************************)
(* Two sessions, for every number of goroutines, ids, pings and queues: a  *)
(* stream registered after the peer's go-away is never accepted, because   *)
(* no id is given out twice and whoever heard of the go-away announces     *)
(* what it opens to a session that already refuses; every stream and every *)
(* ping is in one place, because each step moves one copy of it; and the   *)
(* two stop with a call waiting only when both wait for each other.        *)
(***************************************************************************)
EXTENDS YamuxLink, TLAPS

Labels == {"idle", "refused", "load", "swap", "register", "enqueue", "await", "answer", "done"}
Kinds == {"none", "syn", "ack", "rst", "ping", "pong", "goaway"}
Senders == Tasks \cup {recv(e) : e \in Ends} \cup {nobody}
Frames == [what : Kinds, id : Nat, by : Senders]

(* The variables the argument speaks of. *)
Shapes ==
    /\ pc \in [Tasks -> Labels] /\ req \in [Tasks -> Frames]
    /\ nextStreamID \in [Ends -> Nat]
    /\ streams \in [Ends -> SUBSET Nat] /\ late \in [Ends -> SUBSET Nat]
    /\ acceptCh \in [Ends -> Seq(Nat)]
    /\ localGoAway \in [Ends -> BOOLEAN] /\ remoteGoAway \in [Ends -> BOOLEAN]
    /\ pingID \in [Ends -> Nat]
    /\ sendCh \in [Ends -> Seq(Frames)] /\ wire \in [Ends -> Seq(Frames)]
    /\ out \in [Ends -> Frames]

Over(s) == {s[i] : i \in DOMAIN s}
(* The frames of e that its peer has yet to read. *)
Way(e) == Over(sendCh[e]) \cup Over(wire[e])

(* An id of the kind that e gives out. *)
OwnId(e, id) == id % 2 = FirstId(e) % 2
(* An opener that has taken its id, until its call has ended. *)
Numbered(t) == req[t].what = "syn" /\ pc[t] \in {"register", "enqueue", "await"}

(* Every stream's id was taken from its opener's counter. *)
TaskIds(t) ==
    /\ req[t].what = "syn" => OwnId(t[1], req[t].id)
    /\ pc[t] = "swap" => req[t].what = "syn" /\ req[t].id < MaxId - 1
    /\ pc[t] = "register" => req[t].what = "syn"
    /\ Numbered(t) => req[t].id < nextStreamID[t[1]]
EndIds(e) ==
    /\ OwnId(e, nextStreamID[e])
    /\ \A f \in Way(e) : f.what = "syn" => f.id < nextStreamID[e]
    /\ \A id \in streams[Peer(e)] : OwnId(e, id) => id < nextStreamID[e]
    /\ \A id \in late[e] : OwnId(e, id) /\ id < nextStreamID[e]
IdsTaken == (\A t \in Tasks : TaskIds(t)) /\ (\A e \in Ends : EndIds(e))

(* A stream that is not yet registered is not yet announced, and no other
   has its id. *)
Unannounced(t) ==
    /\ \A f \in Way(t[1]) : f.what = "syn" => f.id # req[t].id
    /\ req[t].id \notin streams[Peer(t[1])]
    /\ \A u \in Tasks : u # t /\ u[1] = t[1] /\ Numbered(u) => req[u].id # req[t].id
RegisteredFirst == \A t \in Tasks : pc[t] = "register" => Unannounced(t)

(* Who heard of a go-away heard of it from a session that refuses streams. *)
RefusesFirst ==
    /\ \A t \in Tasks : req[t].what = "goaway" => localGoAway[t[1]]
    /\ \A e \in Ends : \A f \in Way(e) : f.what = "goaway" => localGoAway[e]
    /\ \A e \in Ends : remoteGoAway[e] => localGoAway[Peer(e)]
    /\ \A e \in Ends : late[e] # {} => remoteGoAway[e]

(* recv queues answers only. *)
Answers == \A e \in Ends : out[e].what \notin {"syn", "goaway"}

LinkInv == Shapes /\ IdsTaken /\ RegisteredFirst /\ RefusesFirst /\ Answers /\ LateRefused

-----------------------------------------------------------------------------
(* Appending adds the frame appended and no other. *)
LEMMA AppendOver ==
    ASSUME NEW S, NEW s \in Seq(S), NEW x \in S
    PROVE  Append(s, x) \in Seq(S) /\ Over(Append(s, x)) = Over(s) \cup {x}
<1>1. /\ Append(s, x) \in Seq(S) /\ DOMAIN Append(s, x) = 1..Len(s) + 1 /\ DOMAIN s = 1..Len(s)
      /\ \A i \in 1..Len(s) : Append(s, x)[i] = s[i]
      /\ Append(s, x)[Len(s) + 1] = x /\ Len(s) \in Nat
    OBVIOUS
<1>2. QED
    BY <1>1 DEF Over

(* Taking the first frame leaves all others. *)
LEMMA TailOver ==
    ASSUME NEW S, NEW s \in Seq(S), s # <<>>
    PROVE  /\ Head(s) \in S /\ Tail(s) \in Seq(S)
           /\ Over(s) = Over(Tail(s)) \cup {Head(s)}
<1>1. /\ Head(s) \in S /\ Tail(s) \in Seq(S) /\ Len(s) \in Nat \ {0} /\ Head(s) = s[1]
      /\ DOMAIN s = 1..Len(s) /\ DOMAIN Tail(s) = 1..Len(s) - 1
      /\ \A i \in 1..Len(s) - 1 : Tail(s)[i] = s[i + 1]
    OBVIOUS
<1>2. Over(s) \subseteq Over(Tail(s)) \cup {Head(s)}
  <2>1. SUFFICES ASSUME NEW i \in 1..Len(s), i # 1
                 PROVE  s[i] \in Over(Tail(s))
      BY <1>1 DEF Over
  <2>2. i - 1 \in DOMAIN Tail(s) /\ Tail(s)[i - 1] = s[i]
      BY <1>1, <2>1
  <2>3. QED
      BY <2>2 DEF Over
<1>3. Head(s) \in Over(s)
    BY <1>1 DEF Over
<1>4. Over(Tail(s)) \subseteq Over(s)
  <2>1. ASSUME NEW i \in 1..Len(s) - 1
        PROVE  i + 1 \in 1..Len(s) /\ Tail(s)[i] = s[i + 1]
      BY <1>1
  <2>2. QED
      BY <1>1, <2>1 DEF Over
<1>5. QED
    BY <1>1, <1>2, <1>3, <1>4

(* A task is at an end, there are two ends, and every caller is a task. *)
LEMMA EndsFacts ==
    /\ \A t \in Tasks : t[1] \in Ends
    /\ \A e \in Ends : Peer(e) \in Ends /\ Peer(e) # e /\ Peer(Peer(e)) = e
    /\ \A e, a \in Ends : a # e => a = Peer(e)
    /\ Openers \subseteq Tasks /\ Acceptors \subseteq Tasks /\ Pingers \subseteq Tasks /\ Leavers \subseteq Tasks
<1>1. \A t \in Tasks : t[1] \in Ends
    BY TaskAssumption
<1>2. \A e \in Ends : Peer(e) \in Ends /\ Peer(e) # e /\ Peer(Peer(e)) = e
    BY DEF Ends, Peer
<1>3. \A e, a \in Ends : a # e => a = Peer(e)
    BY DEF Ends, Peer
<1>4. QED
    BY <1>1, <1>2, <1>3 DEF Tasks

(* The counters never wrap: OpenStream gives up before. *)
LEMMA NextId ==
    ASSUME NEW id \in Nat, id < MaxId - 1
    PROVE  (id + 2) % (MaxId + 1) = id + 2
BY BoundAssumption

(* The ends give out ids of different kinds, every second one. *)
LEMMA OtherId ==
    ASSUME NEW e \in Ends, NEW id \in Nat
    PROVE  /\ OwnId(e, id) => ~OwnId(Peer(e), id)
           /\ OwnId(e, id) => OwnId(e, id + 2)
BY DEF OwnId, Ends, Peer, FirstId

-----------------------------------------------------------------------------
(* What is on the way is a frame. *)
LEMMA WayFrames ==
    ASSUME Shapes, NEW e \in Ends
    PROVE  Way(e) \subseteq Frames
<1>1. sendCh[e] \in Seq(Frames) /\ wire[e] \in Seq(Frames)
    BY DEF Shapes
<1>2. QED
    BY <1>1 DEF Way, Over

(* A task puts its own frame on the way. *)
LEMMA EnqueueWay ==
    ASSUME Shapes, NEW t \in Tasks, Enqueue(t)
    PROVE  /\ sendCh' \in [Ends -> Seq(Frames)] /\ wire' = wire
           /\ \A a \in Ends : Way(a)' = IF a = t[1] THEN Way(a) \cup {req[t]} ELSE Way(a)
<1> t[1] \in Ends
    BY EndsFacts
<1>1. /\ Append(sendCh[t[1]], req[t]) \in Seq(Frames)
      /\ Over(Append(sendCh[t[1]], req[t])) = Over(sendCh[t[1]]) \cup {req[t]}
    BY AppendOver DEF Shapes
<1>2. /\ sendCh' = [sendCh EXCEPT ![t[1]] = Append(sendCh[t[1]], req[t])] /\ wire' = wire
    BY DEF Enqueue, queueVars
<1>3. QED
    BY <1>1, <1>2 DEF Shapes, Way

(* What send writes stays on the way. *)
LEMMA SendTakeWay ==
    ASSUME Shapes, NEW e \in Ends, SendTake(e)
    PROVE  /\ sendCh' \in [Ends -> Seq(Frames)] /\ wire' \in [Ends -> Seq(Frames)]
           /\ \A a \in Ends : Way(a)' = Way(a)
<1>1. /\ Head(sendCh[e]) \in Frames /\ Tail(sendCh[e]) \in Seq(Frames)
      /\ Over(sendCh[e]) = Over(Tail(sendCh[e])) \cup {Head(sendCh[e])}
    BY TailOver DEF Shapes, SendTake
<1>2. /\ Append(wire[e], Head(sendCh[e])) \in Seq(Frames)
      /\ Over(Append(wire[e], Head(sendCh[e]))) = Over(wire[e]) \cup {Head(sendCh[e])}
    BY <1>1, AppendOver DEF Shapes
<1>3. /\ sendCh' = [sendCh EXCEPT ![e] = Tail(sendCh[e])]
      /\ wire' = [wire EXCEPT ![e] = Append(wire[e], Head(sendCh[e]))]
    BY DEF SendTake
<1>4. QED
    BY <1>1, <1>2, <1>3 DEF Shapes, Way

(* What recv reads was on the way, and nothing comes to it. *)
LEMMA ArrivesWay ==
    ASSUME Shapes, NEW e \in Ends, NEW what, Arrives(e, what), UNCHANGED sendCh
    PROVE  /\ wire' \in [Ends -> Seq(Frames)]
           /\ Head(wire[Peer(e)]) \in Frames \cap Way(Peer(e))
           /\ Head(wire[Peer(e)]).what = what /\ Arrived(e) \in Nat
           /\ \A a \in Ends : Way(a)' \subseteq Way(a)
<1> Peer(e) \in Ends
    BY EndsFacts
<1>1. /\ Head(wire[Peer(e)]) \in Frames /\ Tail(wire[Peer(e)]) \in Seq(Frames)
      /\ Over(wire[Peer(e)]) = Over(Tail(wire[Peer(e)])) \cup {Head(wire[Peer(e)])}
    BY TailOver DEF Shapes, Arrives
<1>2. wire' = [wire EXCEPT ![Peer(e)] = Tail(wire[Peer(e)])] /\ Head(wire[Peer(e)]).what = what
    BY DEF Arrives
<1>3. Arrived(e) \in Nat
    BY <1>1 DEF Arrived, Frames
<1>4. QED
    BY <1>1, <1>2, <1>3 DEF Shapes, Way

(* recv puts its answer on the way. *)
LEMMA SendNoWaitWay ==
    ASSUME Shapes, NEW e \in Ends, SendNoWait(e)
    PROVE  /\ sendCh' \in [Ends -> Seq(Frames)]
           /\ \A a \in Ends : Way(a)' = IF a = e THEN Way(a) \cup {out[e]} ELSE Way(a)
<1>1. /\ Append(sendCh[e], out[e]) \in Seq(Frames)
      /\ Over(Append(sendCh[e], out[e])) = Over(sendCh[e]) \cup {out[e]}
    BY AppendOver DEF Shapes
<1>2. sendCh' = [sendCh EXCEPT ![e] = Append(sendCh[e], out[e])] /\ wire' = wire
    BY DEF SendNoWait
<1>3. QED
    BY <1>1, <1>2 DEF Shapes, Way

-----------------------------------------------------------------------------
(* The sorts of the frames that the actions build. *)
LEMMA FrameTypes ==
    /\ NoFrame \in Frames
    /\ \A what \in Kinds, id \in Nat, t \in Tasks : Frame(what, id, t) \in Frames
    /\ \A what \in Kinds, id \in Nat, e \in Ends : Frame(what, id, recv(e)) \in Frames
    /\ \A what, id, by : Frame(what, id, by).what = what /\ Frame(what, id, by).id = id
BY DEF NoFrame, Frame, Frames, Kinds, Senders

(* Two new sessions keep the invariant. *)
LEMMA InitInv == Init => LinkInv
<1> SUFFICES ASSUME Init PROVE LinkInv
    OBVIOUS
<1>1. Shapes
    BY FrameTypes DEF Init, Shapes, Labels, FirstId
<1>2. \A e \in Ends : Way(e) = {}
    BY DEF Init, Way, Over
<1>3. NoFrame.what = "none"
    BY DEF NoFrame, Frame
<1>4. QED
    BY <1>1, <1>2, <1>3, EndsFacts DEF Init, LinkInv, IdsTaken, TaskIds, EndIds, RegisteredFirst, RefusesFirst, Answers,
       LateRefused, Numbered, OwnId

(* Every step keeps the shapes; the counters stay naturals of their own kind. *)
LEMMA NextShapes ==
    ASSUME LinkInv, [Next]_vars
    PROVE  Shapes'
<1> USE FrameTypes DEF LinkInv
<1>0. \A t \in Tasks : t[1] \in Ends
    BY EndsFacts
<1> USE <1>0 DEF Shapes, Goto, Asks, Labels, Kinds
<1>1. CASE UNCHANGED vars
    BY <1>1 DEF vars, taskVars, streamVars, awayVars, pingVars, queueVars, recvVars
<1>2. ASSUME NEW t \in Tasks, OpenCheck(t) \/ OpenLoad(t) \/ OpenSwap(t) \/ OpenRegister(t)
      PROVE  Shapes'
  <2>1. CASE OpenCheck(t)
      BY <1>2, <2>1 DEF OpenCheck, streamVars, awayVars, pingVars, queueVars, recvVars
  <2>2. CASE OpenLoad(t)
    <3>1. Frame("syn", nextStreamID[t[1]], t) \in Frames
        OBVIOUS
    <3>2. CASE req' = [req EXCEPT ![t] = NoFrame] /\ Goto(t, "refused")
        BY <2>2, <3>2 DEF OpenLoad, streamVars, awayVars, pingVars, queueVars, recvVars
    <3>3. CASE req' = [req EXCEPT ![t] = Frame("syn", nextStreamID[t[1]], t)] /\ Goto(t, "swap")
        BY <2>2, <3>1, <3>3 DEF OpenLoad, streamVars, awayVars, pingVars, queueVars, recvVars
    <3>4. QED
        BY <2>2, <3>2, <3>3 DEF OpenLoad
  <2>3. CASE OpenSwap(t)
    <3>1. req[t].id \in Nat
        BY DEF Frames
    <3>2. CASE nextStreamID[t[1]] = req[t].id
      <4>1. req[t].id < MaxId - 1
          BY <2>3 DEF OpenSwap, IdsTaken, TaskIds, EndIds
      <4>2. /\ nextStreamID' = [nextStreamID EXCEPT ![t[1]] = req[t].id + 2]
            /\ Goto(t, "register")
          BY <2>3, <3>1, <3>2, <4>1, NextId DEF OpenSwap
      <4>3. UNCHANGED <<req, streams, late, acceptCh, awayVars, pingID, sendCh, wire, out>>
          BY <2>3 DEF OpenSwap, streamVars, pingVars, queueVars, recvVars
      <4>4. QED
          BY SMTT(30), <3>1, <4>2, <4>3 DEF awayVars
    <3>3. CASE nextStreamID[t[1]] # req[t].id
        BY <1>2, <2>3, <3>3 DEF OpenSwap, streamVars, awayVars, pingVars, queueVars, recvVars
    <3>4. QED
        BY <3>2, <3>3
  <2>4. CASE OpenRegister(t)
    <3>1. req[t].id \in Nat
        BY DEF Frames
    <3>2. QED
        BY <1>2, <2>4, <3>1 DEF OpenRegister, awayVars, pingVars, queueVars, recvVars
  <2>5. QED
      BY <1>2, <2>1, <2>2, <2>3, <2>4
<1>3. ASSUME NEW t \in Tasks, AcceptStream(t)
      PROVE  Shapes'
    BY <1>3 DEF AcceptStream, awayVars, pingVars, queueVars, recvVars
<1>4. ASSUME NEW t \in Tasks, Ping(t) \/ PingReturns(t)
      PROVE  Shapes'
  <2>1. Frame("ping", pingID[t[1]], t) \in Frames
      OBVIOUS
  <2>2. CASE Ping(t)
      BY <2>1, <2>2 DEF Ping, streamVars, awayVars, queueVars, recvVars
  <2>3. CASE PingReturns(t)
      BY <2>3 DEF PingReturns, streamVars, awayVars, pingVars, queueVars, recvVars
  <2>4. QED
      BY <1>4, <2>2, <2>3
<1>5. ASSUME NEW t \in Tasks, GoAway(t)
      PROVE  Shapes'
    BY <1>5 DEF GoAway, streamVars, pingVars, queueVars, recvVars
<1>6. ASSUME NEW t \in Tasks, Enqueue(t)
      PROVE  Shapes'
    BY <1>6, EnqueueWay DEF Enqueue, streamVars, awayVars, pingVars, recvVars
<1>7. ASSUME NEW e \in Ends, SendTake(e)
      PROVE  Shapes'
    BY <1>7, SendTakeWay DEF SendTake, taskVars, streamVars, awayVars, pingVars, recvVars
<1>8. ASSUME NEW e \in Ends, SendDone(e)
      PROVE  Shapes'
  <2>1. \A u \in Tasks : Replied(u) \in Labels
      BY DEF Replied
  <2>2. pc' \in [Tasks -> Labels]
      BY <1>8, <2>1 DEF SendDone
  <2>3. req' \in [Tasks -> Frames]
      BY <1>8 DEF SendDone
  <2>4. QED
      BY <1>8, <2>2, <2>3 DEF SendDone, streamVars, awayVars, pingVars, recvVars
<1>9. ASSUME NEW e \in Ends, Recv(e)
      PROVE  Shapes'
  <2> USE DEF taskVars, awayVars, pingVars, recvVars, streamVars
  <2>1. CASE SendNoWait(e)
      BY <1>9, <2>1, SendNoWaitWay DEF SendNoWait
  <2>2. CASE RecvSyn(e)
    <3>1. /\ wire' \in [Ends -> Seq(Frames)] /\ Arrived(e) \in Nat
        BY <2>2, ArrivesWay DEF RecvSyn
    <3>2. Frame("rst", Arrived(e), recv(e)) \in Frames
        BY <3>1
    <3>3. out' \in [Ends -> Frames]
        BY <2>2, <3>2 DEF RecvSyn, Answer
    <3>4. CASE UNCHANGED <<streams, acceptCh>>
        BY <2>2, <3>1, <3>3, <3>4 DEF RecvSyn
    <3>5. CASE /\ streams' = [streams EXCEPT ![e] = @ \cup {Arrived(e)}]
               /\ acceptCh' = [acceptCh EXCEPT ![e] = Append(@, Arrived(e))]
        BY <2>2, <3>1, <3>3, <3>5 DEF RecvSyn
    <3>6. QED
        BY <2>2, <3>4, <3>5 DEF RecvSyn
  <2>3. CASE RecvAck(e)
      BY <1>9, <2>3, ArrivesWay DEF RecvAck
  <2>4. CASE RecvRst(e)
      BY <1>9, <2>4, ArrivesWay DEF RecvRst
  <2>5. CASE RecvPing(e)
      BY <1>9, <2>5, ArrivesWay DEF RecvPing, Answer
  <2>6. CASE RecvPong(e)
      BY <1>9, <2>6, ArrivesWay DEF RecvPong
  <2>7. CASE RecvGoAway(e)
      BY <1>9, <2>7, ArrivesWay DEF RecvGoAway
  <2>8. QED
      BY <1>9, <2>1, <2>2, <2>3, <2>4, <2>5, <2>6, <2>7 DEF Recv
<1>10. QED
    BY <1>1, <1>2, <1>3, <1>4, <1>5, <1>6, <1>7, <1>8, <1>9, EndsFacts DEF Next

-----------------------------------------------------------------------------
(* A step that takes no id, registers and accepts no stream, and announces
   nothing new disturbs nothing. *)
QuietTask(t) ==
    \/ pc'[t] = pc[t] /\ req'[t] = req[t]
    \/ /\ pc'[t] # "register" /\ ~Numbered(t)'
       /\ req'[t].what = "syn" => OwnId(t[1], req'[t].id)
       /\ pc'[t] = "swap" => req'[t].what = "syn" /\ req'[t].id < MaxId - 1
       /\ req'[t].what = "goaway" => localGoAway'[t[1]]
Quiet ==
    /\ nextStreamID' = nextStreamID /\ late' = late
    /\ \A e \in Ends :
          /\ streams'[e] \subseteq streams[e]
          /\ localGoAway[e] => localGoAway'[e]
          /\ remoteGoAway[e] => remoteGoAway'[e]
          /\ remoteGoAway'[e] => remoteGoAway[e] \/ localGoAway[Peer(e)]
          /\ \A f \in Way(e)' : f \in Way(e) \/ f.what \notin {"syn", "goaway"}
          /\ out'[e].what \notin {"syn", "goaway"}
    /\ \A t \in Tasks : QuietTask(t)

(* A quiet step keeps the invariant. *)
LEMMA QuietStep ==
    ASSUME LinkInv, Shapes', Quiet
    PROVE  LinkInv'
<1> USE DEF LinkInv
<1>0. /\ \A t \in Tasks : t[1] \in Ends
      /\ \A e \in Ends : Peer(e) \in Ends
    BY EndsFacts
<1>1. \A t \in Tasks : Numbered(t)' => Numbered(t) /\ pc'[t] = pc[t] /\ req'[t] = req[t]
    BY DEF Quiet, QuietTask, Numbered
<1>2. IdsTaken'
  <2>1. \A t \in Tasks :
            /\ req'[t].what = "syn" => OwnId(t[1], req'[t].id)
            /\ pc'[t] = "swap" => req'[t].what = "syn" /\ req'[t].id < MaxId - 1
            /\ pc'[t] = "register" => req'[t].what = "syn"
      BY DEF IdsTaken, TaskIds, EndIds, Quiet, QuietTask
  <2>2. \A t \in Tasks : Numbered(t)' => req'[t].id < nextStreamID'[t[1]]
      BY <1>1 DEF IdsTaken, TaskIds, EndIds, Quiet
  <2>3. \A e \in Ends : \A f \in Way(e)' : f.what = "syn" => f.id < nextStreamID'[e]
      BY DEF IdsTaken, TaskIds, EndIds, Quiet
  <2>4. \A e \in Ends : \A id \in streams'[Peer(e)] : OwnId(e, id) => id < nextStreamID'[e]
      BY <1>0 DEF IdsTaken, TaskIds, EndIds, Quiet
  <2>5. \A e \in Ends :
            /\ OwnId(e, nextStreamID'[e])
            /\ \A id \in late'[e] : OwnId(e, id) /\ id < nextStreamID'[e]
      BY DEF IdsTaken, TaskIds, EndIds, Quiet
  <2>6. QED
      BY <2>1, <2>2, <2>3, <2>4, <2>5 DEF IdsTaken, TaskIds, EndIds, OwnId
<1>3. RegisteredFirst'
  <2>1. SUFFICES ASSUME NEW t \in Tasks, pc'[t] = "register"
                 PROVE  Unannounced(t)'
      BY DEF RegisteredFirst
  <2>2. pc[t] = "register" /\ req'[t] = req[t]
      BY <2>1 DEF Quiet, QuietTask
  <2>3. Unannounced(t)
      BY <2>2 DEF RegisteredFirst
  <2>4. /\ \A f \in Way(t[1])' : f.what = "syn" => f.id # req'[t].id
        /\ req'[t].id \notin streams'[Peer(t[1])]
      BY <1>0, <2>2, <2>3 DEF Unannounced, Quiet
  <2>5. \A u \in Tasks : u # t /\ u[1] = t[1] /\ Numbered(u)' => req'[u].id # req'[t].id
      BY <1>1, <2>2, <2>3 DEF Unannounced
  <2>6. QED
      BY <2>4, <2>5 DEF Unannounced
<1>4. RefusesFirst'
  <2>1. \A t \in Tasks : req'[t].what = "goaway" => localGoAway'[t[1]]
      BY <1>0 DEF RefusesFirst, Quiet, QuietTask
  <2>2. \A e \in Ends : \A f \in Way(e)' : f.what = "goaway" => localGoAway'[e]
      BY DEF RefusesFirst, Quiet
  <2>3. \A e \in Ends : /\ remoteGoAway'[e] => localGoAway'[Peer(e)]
                        /\ late'[e] # {} => remoteGoAway'[e]
      BY <1>0 DEF RefusesFirst, Quiet
  <2>4. QED
      BY <2>1, <2>2, <2>3 DEF RefusesFirst
<1>5. LateRefused'
    BY <1>0 DEF LateRefused, Quiet
<1>6. Answers'
    BY DEF Answers, Quiet
<1>7. QED
    BY <1>2, <1>3, <1>4, <1>5, <1>6

(* The calls that ask, accept, ping, leave or try again are quiet. *)
LEMMA TaskStepsQuiet ==
    ASSUME LinkInv, NEW t \in Tasks,
           \/ OpenCheck(t) \/ OpenLoad(t) \/ AcceptStream(t) \/ Ping(t) \/ PingReturns(t) \/ GoAway(t)
           \/ OpenSwap(t) /\ nextStreamID[t[1]] # req[t].id
    PROVE  Quiet
<1> USE DEF LinkInv, Shapes, Goto, Asks, streamVars, awayVars, pingVars, queueVars, recvVars
<1>0. t[1] \in Ends
    BY EndsFacts
<1>1. /\ nextStreamID' = nextStreamID /\ late' = late /\ streams' = streams
      /\ remoteGoAway' = remoteGoAway /\ out' = out /\ sendCh' = sendCh /\ wire' = wire
      /\ \A e \in Ends : localGoAway[e] => localGoAway'[e]
    BY <1>0 DEF OpenCheck, OpenLoad, AcceptStream, Ping, PingReturns, GoAway, OpenSwap
<1>2. \A e \in Ends : Way(e)' = Way(e)
    BY <1>1 DEF Way
<1>3. \A u \in Tasks : u # t => pc'[u] = pc[u] /\ req'[u] = req[u]
    BY DEF OpenCheck, OpenLoad, AcceptStream, Ping, PingReturns, GoAway, OpenSwap
<1>4. QuietTask(t)
  <2> USE FrameTypes DEF QuietTask, Numbered
  <2>0. /\ req[t].what = "syn" => OwnId(t[1], req[t].id)
        /\ req[t].what = "goaway" => localGoAway[t[1]]
        /\ OwnId(t[1], nextStreamID[t[1]])
        /\ NoFrame.what = "none"
      BY <1>0 DEF IdsTaken, TaskIds, EndIds, RefusesFirst, NoFrame
  <2>1. CASE OpenCheck(t)
      BY <2>0, <2>1, <1>0, <1>1 DEF OpenCheck
  <2>2. CASE OpenLoad(t)
      BY <2>0, <2>2 DEF OpenLoad
  <2>3. CASE AcceptStream(t)
      BY <2>3 DEF AcceptStream
  <2>4. CASE Ping(t)
      BY <2>4 DEF Ping
  <2>5. CASE PingReturns(t)
      BY <2>0, <2>5 DEF PingReturns
  <2>6. CASE GoAway(t)
      BY <1>0, <2>6 DEF GoAway
  <2>7. CASE OpenSwap(t) /\ nextStreamID[t[1]] # req[t].id
      BY <1>0, <1>1, <2>0, <2>7 DEF OpenSwap
  <2>8. QED
      BY <2>1, <2>2, <2>3, <2>4, <2>5, <2>6, <2>7
<1>5. QED
    BY <1>1, <1>2, <1>3, <1>4 DEF Quiet, QuietTask, Answers

(* So are send, and recv when it queues its answer. *)
LEMMA QueueStepsQuiet ==
    ASSUME LinkInv, NEW e \in Ends, SendTake(e) \/ SendDone(e) \/ SendNoWait(e)
    PROVE  Quiet
<1> USE DEF LinkInv, taskVars, streamVars, awayVars, pingVars, queueVars, recvVars
<1>1. /\ nextStreamID' = nextStreamID /\ late' = late /\ streams' = streams
      /\ remoteGoAway' = remoteGoAway /\ localGoAway' = localGoAway
    BY DEF SendTake, SendDone, SendNoWait
<1>2. CASE SendTake(e)
  <2>1. pc' = pc /\ req' = req /\ out' = out
      BY <1>2 DEF SendTake
  <2>2. \A a \in Ends : Way(a)' = Way(a)
      BY <1>2, SendTakeWay
  <2>3. QED
      BY <1>1, <2>1, <2>2 DEF Quiet, QuietTask, Answers
<1>3. CASE SendDone(e)
  <2>1. out' = out /\ \A a \in Ends : Way(a)' = Way(a)
      BY <1>3 DEF SendDone, Way
  <2>2. ASSUME NEW t \in Tasks
        PROVE  QuietTask(t)
    <3>1. CASE t # writing[e]
        BY <1>3, <3>1 DEF SendDone, QuietTask
    <3>2. CASE t = writing[e]
      <4>1. pc'[t] \in {"idle", "answer", "done"}
          BY <1>3, <3>2 DEF SendDone, Replied
      <4>2. req'[t].what \in {"none", "ping"}
          BY <1>3, <3>2 DEF SendDone, NoFrame, Frame
      <4>3. QED
          BY <4>1, <4>2 DEF QuietTask, Numbered
    <3>3. QED
        BY <3>1, <3>2
  <2>3. QED
      BY <1>1, <2>1, <2>2 DEF Quiet, Answers
<1>4. CASE SendNoWait(e)
  <2>1. pc' = pc /\ req' = req /\ out' = [out EXCEPT ![e] = NoFrame]
      BY <1>4 DEF SendNoWait
  <2>2. \A a \in Ends : out'[a].what \notin {"syn", "goaway"}
      BY <2>1 DEF Answers, NoFrame, Frame, Shapes
  <2>3. \A a \in Ends : \A f \in Way(a)' : f \in Way(a) \/ f.what \notin {"syn", "goaway"}
      BY <1>4, SendNoWaitWay DEF Answers
  <2>4. QED
      BY <1>1, <2>1, <2>2, <2>3 DEF Quiet, QuietTask
<1>5. QED
    BY <1>2, <1>3, <1>4

(* So is recv, unless it accepts a stream; a go-away comes from an end that
   already refuses. *)
LEMMA RecvStepsQuiet ==
    ASSUME LinkInv, NEW e \in Ends,
           \/ RecvAck(e) \/ RecvRst(e) \/ RecvPing(e) \/ RecvPong(e) \/ RecvGoAway(e)
           \/ RecvSyn(e) /\ streams' = streams
    PROVE  Quiet
<1> USE DEF LinkInv, taskVars, streamVars, awayVars, pingVars, queueVars, recvVars
<1>0. PICK what : Arrives(e, what)
    BY DEF RecvAck, RecvRst, RecvPing, RecvPong, RecvGoAway, RecvSyn
<1>1. /\ nextStreamID' = nextStreamID /\ late' = late /\ pc' = pc /\ req' = req
      /\ localGoAway' = localGoAway /\ sendCh' = sendCh
    BY DEF RecvAck, RecvRst, RecvPing, RecvPong, RecvGoAway, RecvSyn
<1>2. \A a \in Ends : Way(a)' \subseteq Way(a)
    BY <1>0, <1>1, ArrivesWay
<1>3. \A a \in Ends : streams'[a] \subseteq streams[a]
    BY DEF RecvAck, RecvRst, RecvPing, RecvPong, RecvGoAway, RecvSyn, Shapes
<1>4. \A a \in Ends : out'[a].what \notin {"syn", "goaway"}
  <2>1. CASE out' = out
      BY <2>1 DEF Answers
  <2>2. CASE Answer(e, "rst")
      BY <2>2 DEF Answer, Frame, Answers, Shapes
  <2>3. CASE Answer(e, "pong")
      BY <2>3 DEF Answer, Frame, Answers, Shapes
  <2>4. QED
      BY <2>1, <2>2, <2>3 DEF RecvAck, RecvRst, RecvPing, RecvPong, RecvGoAway, RecvSyn
<1>5. \A a \in Ends : /\ remoteGoAway[a] => remoteGoAway'[a]
                      /\ remoteGoAway'[a] => remoteGoAway[a] \/ localGoAway[Peer(a)]
  <2>1. CASE RecvGoAway(e)
    <3>1. /\ Head(wire[Peer(e)]) \in Way(Peer(e)) /\ Head(wire[Peer(e)]).what = "goaway"
        BY <1>1, <2>1, ArrivesWay DEF RecvGoAway
    <3>2. localGoAway[Peer(e)]
        BY <3>1, EndsFacts DEF RefusesFirst
    <3>3. QED
        BY <2>1, <3>2 DEF RecvGoAway, Shapes
  <2>2. CASE ~RecvGoAway(e)
      BY <2>2 DEF RecvAck, RecvRst, RecvPing, RecvPong, RecvSyn
  <2>3. QED
      BY <2>1, <2>2
<1>6. QED
    BY <1>1, <1>2, <1>3, <1>4, <1>5 DEF Quiet, QuietTask

-----------------------------------------------------------------------------
(* An id taken by compare-and-swap was nobody's. *)
LEMMA SwapKeeps ==
    ASSUME LinkInv, Shapes', NEW t \in Tasks, OpenSwap(t), nextStreamID[t[1]] = req[t].id
    PROVE  LinkInv'
<1> DEFINE e == t[1]
           n == req[t].id
<1> USE DEF LinkInv
<1>0. /\ e \in Ends /\ \A a \in Ends : Peer(a) \in Ends
      /\ \A u \in Tasks : u[1] \in Ends
    BY EndsFacts
<1>1. n \in Nat /\ n < MaxId - 1 /\ nextStreamID[e] = n /\ pc[t] = "swap" /\ req[t].what = "syn"
    BY DEF OpenSwap, IdsTaken, TaskIds, EndIds, Shapes, Frames
<1>2. nextStreamID' = [nextStreamID EXCEPT ![e] = n + 2] /\ pc' = [pc EXCEPT ![t] = "register"]
    BY <1>1, NextId DEF OpenSwap, Goto
<1>3. UNCHANGED <<req, streams, late, localGoAway, remoteGoAway, sendCh, wire, out>>
    BY DEF OpenSwap, streamVars, awayVars, queueVars, recvVars
<1>4. \A a \in Ends : Way(a)' = Way(a)
    BY <1>3 DEF Way
<1>5. \A a \in Ends : /\ nextStreamID[a] \in Nat /\ nextStreamID'[a] \in Nat
                      /\ nextStreamID[a] <= nextStreamID'[a]
  <2>1. \A a \in Ends : nextStreamID'[a] = IF a = e THEN n + 2 ELSE nextStreamID[a]
      BY <1>2 DEF Shapes
  <2>2. \A a \in Ends : nextStreamID[a] \in Nat
      BY DEF Shapes
  <2>3. nextStreamID[e] = n /\ n \in Nat
      BY <1>1
  <2>4. QED
      BY <2>1, <2>2, <2>3
<1>6. \A u \in Tasks : u # t => (Numbered(u)' <=> Numbered(u))
    BY <1>2, <1>3 DEF Numbered, Shapes
<1>7. IdsTaken'
  <2>1. \A a \in Ends : OwnId(a, nextStreamID'[a])
      BY <1>0, <1>1, <1>2, OtherId DEF IdsTaken, TaskIds, EndIds, Shapes
  <2>2. \A u \in Tasks : /\ req'[u].what = "syn" => OwnId(u[1], req'[u].id)
                         /\ pc'[u] = "swap" => req'[u].what = "syn" /\ req'[u].id < MaxId - 1
                         /\ pc'[u] = "register" => req'[u].what = "syn"
      BY <1>1, <1>2, <1>3 DEF IdsTaken, TaskIds, EndIds, Shapes
  <2>3. \A u \in Tasks : Numbered(u)' => req'[u].id < nextStreamID'[u[1]]
    <3>1. n < nextStreamID'[e]
        BY <1>0, <1>1, <1>2 DEF Shapes
    <3>2. \A u \in Tasks : req[u].id \in Nat
        BY DEF Shapes, Frames
    <3>3. QED
        BY <1>0, <1>3, <1>5, <1>6, <3>1, <3>2 DEF IdsTaken, TaskIds, EndIds
  <2>4. \A a \in Ends : \A f \in Way(a)' : f.what = "syn" => f.id < nextStreamID'[a]
    <3>1. \A a \in Ends : \A f \in Way(a) : f.id \in Nat
        BY WayFrames DEF Frames
    <3>2. QED
        BY <1>4, <1>5, <3>1 DEF IdsTaken, TaskIds, EndIds
  <2>5. \A a \in Ends : \A id \in streams'[Peer(a)] : OwnId(a, id) => id < nextStreamID'[a]
    <3>1. \A a \in Ends : \A id \in streams[Peer(a)] : id \in Nat
        BY <1>0 DEF Shapes
    <3>2. QED
        BY <1>3, <1>5, <3>1 DEF IdsTaken, TaskIds, EndIds
  <2>6. \A a \in Ends : \A id \in late'[a] : OwnId(a, id) /\ id < nextStreamID'[a]
    <3>1. \A a \in Ends : \A id \in late[a] : id \in Nat
        BY DEF Shapes
    <3>2. QED
        BY <1>3, <1>5, <3>1 DEF IdsTaken, TaskIds, EndIds
  <2>7. QED
    <3>1. \A u \in Tasks : TaskIds(u)'
        BY <2>2, <2>3 DEF TaskIds, OwnId
    <3>2. \A a \in Ends : EndIds(a)'
        BY <2>1, <2>4, <2>5, <2>6 DEF EndIds, OwnId
    <3>3. QED
        BY <3>1, <3>2 DEF IdsTaken
<1>8. RegisteredFirst'
  <2>1. OwnId(e, n) /\ Unannounced(t)
    <3>1. OwnId(e, n)
        BY <1>0, <1>1 DEF IdsTaken, TaskIds, EndIds
    <3>2. /\ \A f \in Way(e) : f.what = "syn" => f.id # n
          /\ n \notin streams[Peer(e)]
          /\ \A u \in Tasks : u # t /\ u[1] = e /\ Numbered(u) => req[u].id # n
        BY <1>0, <1>1, <3>1 DEF IdsTaken, TaskIds, EndIds
    <3>3. QED
        BY <3>1, <3>2 DEF Unannounced
  <2>2. ASSUME NEW u \in Tasks, pc'[u] = "register"
        PROVE  Unannounced(u)'
    <3>1. CASE u = t
        BY <1>3, <1>4, <1>6, <2>1, <3>1, <1>0 DEF Unannounced
    <3>2. CASE u # t
      <4>1. pc[u] = "register" /\ Numbered(u) /\ Unannounced(u)
          BY <1>2, <2>2, <3>2 DEF Shapes, RegisteredFirst, Numbered, IdsTaken, TaskIds, EndIds
      <4>2. u[1] = e => req[u].id # n
          BY <2>1, <3>2, <4>1 DEF Unannounced
      <4>3. QED
          BY <1>0, <1>3, <1>4, <1>6, <4>1, <4>2 DEF Unannounced
    <3>3. QED
        BY <3>1, <3>2
  <2>3. QED
      BY <2>2 DEF RegisteredFirst
<1>9. RefusesFirst' /\ Answers' /\ LateRefused'
    BY <1>3, <1>4 DEF RefusesFirst, Answers, LateRefused
<1>10. QED
    BY <1>7, <1>8, <1>9

(* A stream is registered before the peer can know of it. *)
LEMMA RegisterKeeps ==
    ASSUME LinkInv, Shapes', NEW t \in Tasks, OpenRegister(t)
    PROVE  LinkInv'
<1> DEFINE e == t[1]
           n == req[t].id
<1> USE DEF LinkInv
<1>0. /\ e \in Ends /\ \A a \in Ends : Peer(a) \in Ends /\ Peer(a) # a /\ Peer(Peer(a)) = a
      /\ \A u \in Tasks : u[1] \in Ends
    BY EndsFacts
<1>1. /\ pc[t] = "register" /\ req[t].what = "syn" /\ n \in Nat
      /\ OwnId(e, n) /\ n < nextStreamID[e] /\ Unannounced(t)
    BY DEF OpenRegister, IdsTaken, TaskIds, EndIds, Numbered, RegisteredFirst, Shapes, Frames
<1>2. /\ pc' = [pc EXCEPT ![t] = "enqueue"]
      /\ streams' = [streams EXCEPT ![e] = streams[e] \cup {n}]
      /\ late' = [late EXCEPT ![e] = IF remoteGoAway[e] THEN late[e] \cup {n} ELSE late[e]]
    BY DEF OpenRegister, Goto
<1>3. UNCHANGED <<req, nextStreamID, localGoAway, remoteGoAway, sendCh, wire, out>>
    BY DEF OpenRegister, awayVars, queueVars, recvVars
<1>4. \A a \in Ends : Way(a)' = Way(a)
    BY <1>3 DEF Way
<1>5. \A u \in Tasks : Numbered(u)' <=> Numbered(u)
    BY <1>1, <1>2, <1>3 DEF Numbered, Shapes
<1>6. \A a \in Ends : \A id \in streams'[a] : id \in streams[a] \/ (a = e /\ id = n)
    BY <1>2 DEF Shapes
<1>7. \A a \in Ends : \A id \in late'[a] : id \in late[a] \/ (a = e /\ id = n /\ remoteGoAway[e])
    BY <1>2 DEF Shapes
<1>8. ~OwnId(Peer(e), n)
    BY <1>0, <1>1, OtherId
<1>9. IdsTaken'
  <2>1. \A u \in Tasks : /\ req'[u].what = "syn" => OwnId(u[1], req'[u].id)
                         /\ pc'[u] = "swap" => req'[u].what = "syn" /\ req'[u].id < MaxId - 1
                         /\ pc'[u] = "register" => req'[u].what = "syn"
                         /\ Numbered(u)' => req'[u].id < nextStreamID'[u[1]]
      BY <1>2, <1>3, <1>5 DEF IdsTaken, TaskIds, EndIds, Shapes
  <2>2. \A a \in Ends : /\ OwnId(a, nextStreamID'[a])
                        /\ \A f \in Way(a)' : f.what = "syn" => f.id < nextStreamID'[a]
      BY <1>3, <1>4 DEF IdsTaken, TaskIds, EndIds
  <2>3. \A a \in Ends : \A id \in streams'[Peer(a)] : OwnId(a, id) => id < nextStreamID'[a]
    <3>1. SUFFICES ASSUME NEW a \in Ends, NEW id \in streams'[Peer(a)], OwnId(a, id)
                   PROVE  id < nextStreamID[a]
        BY <1>3
    <3>2. CASE id \in streams[Peer(a)]
        BY <3>1, <3>2 DEF IdsTaken, TaskIds, EndIds
    <3>3. CASE Peer(a) = e /\ id = n
        BY <1>0, <1>8, <3>1, <3>3
    <3>4. QED
        BY <1>0, <1>6, <3>1, <3>2, <3>3
  <2>4. \A a \in Ends : \A id \in late'[a] : OwnId(a, id) /\ id < nextStreamID'[a]
      BY <1>1, <1>3, <1>7 DEF IdsTaken, TaskIds, EndIds
  <2>5. QED
    <3>1. \A u \in Tasks : TaskIds(u)'
        BY <2>1 DEF TaskIds, OwnId
    <3>2. \A a \in Ends : EndIds(a)'
        BY <2>2, <2>3, <2>4 DEF EndIds, OwnId
    <3>3. QED
        BY <3>1, <3>2 DEF IdsTaken
<1>10. RegisteredFirst'
  <2>1. SUFFICES ASSUME NEW u \in Tasks, pc'[u] = "register"
                 PROVE  Unannounced(u)'
      BY DEF RegisteredFirst
  <2>2. u # t /\ pc[u] = "register" /\ Unannounced(u) /\ OwnId(u[1], req[u].id)
      BY <1>2, <2>1 DEF Shapes, RegisteredFirst, IdsTaken, TaskIds, EndIds
  <2>3. req[u].id \notin streams'[Peer(u[1])]
    <3>1. CASE Peer(u[1]) = e
      <4>1. u[1] = Peer(e)
          BY <1>0, <3>1
      <4>2. req[u].id # n
          BY <1>8, <2>2, <4>1
      <4>3. QED
          BY <1>0, <1>6, <2>2, <4>2 DEF Unannounced
    <3>2. CASE Peer(u[1]) # e
        BY <1>0, <1>6, <2>2, <3>2 DEF Unannounced
    <3>3. QED
        BY <3>1, <3>2
  <2>4. QED
      BY <1>0, <1>3, <1>4, <1>5, <2>2, <2>3 DEF Unannounced
<1>11. RefusesFirst'
    BY <1>0, <1>3, <1>4, <1>7 DEF RefusesFirst
<1>12. LateRefused'
  <2>1. SUFFICES ASSUME NEW a \in Ends, NEW id \in late'[a], id \in streams'[Peer(a)]
                 PROVE  FALSE
      BY DEF LateRefused
  <2>2. OwnId(a, id)
      BY <1>1, <1>7 DEF IdsTaken, TaskIds, EndIds
  <2>3. id \in streams[Peer(a)]
    <3>1. CASE Peer(a) = e /\ id = n
        BY <1>0, <1>8, <2>2, <3>1
    <3>2. QED
        BY <1>0, <1>6, <2>1, <3>1
  <2>4. CASE id \in late[a]
      BY <2>3, <2>4 DEF LateRefused
  <2>5. CASE a = e /\ id = n
      BY <1>1, <2>3, <2>5 DEF Unannounced
  <2>6. QED
      BY <1>7, <2>4, <2>5
<1>13. QED
    BY <1>3, <1>9, <1>10, <1>11, <1>12 DEF Answers

(* A frame that a task queues is that of its call. *)
LEMMA EnqueueKeeps ==
    ASSUME LinkInv, Shapes', NEW t \in Tasks, Enqueue(t)
    PROVE  LinkInv'
<1> DEFINE e == t[1]
<1> USE DEF LinkInv
<1>0. e \in Ends /\ \A u \in Tasks : u[1] \in Ends
    BY EndsFacts
<1>1. pc[t] = "enqueue" /\ pc' = [pc EXCEPT ![t] = "await"]
    BY DEF Enqueue, Goto
<1>2. UNCHANGED <<req, nextStreamID, streams, late, localGoAway, remoteGoAway, out>>
    BY DEF Enqueue, streamVars, awayVars, recvVars
<1>3. \A a \in Ends : \A f \in Way(a)' : f \in Way(a) \/ (a = e /\ f = req[t])
    BY EnqueueWay
<1>4. \A u \in Tasks : Numbered(u)' <=> Numbered(u)
    BY <1>1, <1>2 DEF Numbered, Shapes
<1>5. IdsTaken'
  <2>1. \A u \in Tasks :
           /\ req'[u].what = "syn" => OwnId(u[1], req'[u].id)
           /\ pc'[u] = "swap" => req'[u].what = "syn" /\ req'[u].id < MaxId - 1
           /\ pc'[u] = "register" => req'[u].what = "syn"
           /\ Numbered(u)' => req'[u].id < nextStreamID'[u[1]]
      BY <1>1, <1>2, <1>4 DEF IdsTaken, TaskIds, EndIds, Shapes
  <2>2. \A a \in Ends : \A f \in Way(a)' : f.what = "syn" => f.id < nextStreamID'[a]
    <3>1. req[t].what = "syn" => req[t].id < nextStreamID[e]
        BY <1>1 DEF IdsTaken, TaskIds, Numbered
    <3>2. QED
        BY <1>2, <1>3, <3>1 DEF IdsTaken, EndIds
  <2>3. \A a \in Ends :
           /\ OwnId(a, nextStreamID'[a])
           /\ \A id \in streams'[Peer(a)] : OwnId(a, id) => id < nextStreamID'[a]
           /\ \A id \in late'[a] : OwnId(a, id) /\ id < nextStreamID'[a]
      BY <1>2 DEF IdsTaken, EndIds
  <2>4. \A u \in Tasks : TaskIds(u)'
      BY <2>1 DEF TaskIds, OwnId
  <2>5. \A a \in Ends : EndIds(a)'
      BY <2>2, <2>3 DEF EndIds, OwnId
  <2>6. QED
      BY <2>4, <2>5 DEF IdsTaken
<1>6. RegisteredFirst'
  <2>1. SUFFICES ASSUME NEW u \in Tasks, pc'[u] = "register"
                 PROVE  Unannounced(u)'
      BY DEF RegisteredFirst
  <2>2. u # t /\ pc[u] = "register" /\ Unannounced(u)
      BY <1>1, <2>1 DEF Shapes, RegisteredFirst
  <2>3. e = u[1] /\ req[t].what = "syn" => req[t].id # req[u].id
      BY <1>1, <2>2 DEF Unannounced, Numbered
  <2>4. \A f \in Way(u[1])' : f.what = "syn" => f.id # req'[u].id
      BY <1>0, <1>2, <1>3, <2>2, <2>3 DEF Unannounced
  <2>5. QED
      BY <1>2, <1>4, <2>2, <2>4 DEF Unannounced
<1>7. RefusesFirst'
    BY <1>0, <1>2, <1>3 DEF RefusesFirst
<1>8. QED
    BY <1>2, <1>5, <1>6, <1>7 DEF Answers, LateRefused

(* A stream accepted was announced before, by an opener that had registered
   it before. *)
LEMMA AcceptKeeps ==
    ASSUME LinkInv, Shapes', NEW e \in Ends, RecvSyn(e), streams' # streams
    PROVE  LinkInv'
<1> DEFINE p == Peer(e)
           n == Arrived(e)
<1> USE DEF LinkInv
<1>0. /\ p \in Ends /\ p # e /\ Peer(p) = e /\ \A u \in Tasks : u[1] \in Ends
      /\ \A a \in Ends : Peer(a) \in Ends /\ (Peer(a) = e => a = p)
    BY EndsFacts
<1>1. ~localGoAway[e] /\ streams' = [streams EXCEPT ![e] = streams[e] \cup {n}]
    BY DEF RecvSyn
<1>2. UNCHANGED <<pc, req, nextStreamID, late, localGoAway, remoteGoAway, sendCh, out>>
    BY <1>1 DEF RecvSyn, taskVars, awayVars
<1>3. /\ \A a \in Ends : \A f \in Way(a)' : f \in Way(a)
      /\ Head(wire[p]) \in Way(p) /\ Head(wire[p]).what = "syn" /\ n \in Nat
      /\ n = Head(wire[p]).id
    BY <1>2, ArrivesWay DEF RecvSyn, Arrived
<1>4. n < nextStreamID[p]
    BY <1>0, <1>3 DEF IdsTaken, EndIds
<1>5. late[p] = {}
    BY <1>0, <1>1 DEF RefusesFirst
<1>6. \A a \in Ends : \A id \in streams'[a] : id \in streams[a] \/ (a = e /\ id = n)
    BY <1>1 DEF Shapes
<1>7. \A u \in Tasks : Numbered(u)' <=> Numbered(u)
    BY <1>2 DEF Numbered
<1>8. IdsTaken'
  <2>1. \A u \in Tasks : TaskIds(u)'
      BY <1>2, <1>7 DEF IdsTaken, TaskIds, OwnId
  <2>2. ASSUME NEW a \in Ends
        PROVE  EndIds(a)'
    <3>1. EndIds(a)
        BY DEF IdsTaken
    <3>2. \A id \in streams'[Peer(a)] : OwnId(a, id) => id < nextStreamID[a]
      <4>1. SUFFICES ASSUME NEW id \in streams'[Peer(a)], OwnId(a, id)
                     PROVE  id < nextStreamID[a]
          OBVIOUS
      <4>2. CASE id \in streams[Peer(a)]
          BY <3>1, <4>1, <4>2 DEF EndIds
      <4>3. CASE Peer(a) = e /\ id = n
          BY <1>0, <1>4, <4>3
      <4>4. QED
          BY <1>0, <1>6, <4>1, <4>2, <4>3
    <3>3. QED
        BY <1>2, <1>3, <3>1, <3>2 DEF EndIds, OwnId
  <2>3. QED
      BY <2>1, <2>2 DEF IdsTaken
<1>9. RegisteredFirst'
  <2>1. SUFFICES ASSUME NEW u \in Tasks, pc'[u] = "register"
                 PROVE  Unannounced(u)'
      BY DEF RegisteredFirst
  <2>2. pc[u] = "register" /\ Unannounced(u)
      BY <1>2, <2>1 DEF RegisteredFirst
  <2>3. u[1] = p => req[u].id # n
      BY <1>3, <2>2 DEF Unannounced
  <2>4. req[u].id \notin streams'[Peer(u[1])]
      BY <1>0, <1>6, <2>2, <2>3 DEF Unannounced
  <2>5. QED
      BY <1>0, <1>2, <1>3, <1>7, <2>2, <2>4 DEF Unannounced
<1>10. RefusesFirst'
    BY <1>2, <1>3 DEF RefusesFirst
<1>11. LateRefused'
  <2>1. SUFFICES ASSUME NEW a \in Ends, NEW id \in late[a], id \in streams'[Peer(a)]
                 PROVE  FALSE
      BY <1>2 DEF LateRefused
  <2>2. a # p /\ id \notin streams[Peer(a)]
      BY <1>5, <2>1 DEF LateRefused
  <2>3. QED
      BY <1>0, <1>6, <2>1, <2>2
<1>12. QED
    BY <1>2, <1>8, <1>9, <1>10, <1>11 DEF Answers

-----------------------------------------------------------------------------
(* Every step keeps the invariant. *)
LEMMA NextKeeps == LinkInv /\ [Next]_vars => LinkInv'
<1> SUFFICES ASSUME LinkInv, [Next]_vars PROVE LinkInv'
    OBVIOUS
<1>1. Shapes'
    BY NextShapes
<1>2. CASE UNCHANGED vars
  <2>1. UNCHANGED <<pc, req, nextStreamID, streams, late, localGoAway, remoteGoAway, sendCh, wire, out>>
      BY <1>2 DEF vars, taskVars, streamVars, awayVars, queueVars, recvVars
  <2>2. Quiet
      BY <2>1 DEF Quiet, QuietTask, Way, LinkInv, Answers
  <2>3. QED
      BY <1>1, <2>2, QuietStep
<1>3. ASSUME NEW t \in Tasks, OpenSwap(t)
      PROVE  LinkInv'
    BY <1>1, <1>3, SwapKeeps, TaskStepsQuiet, QuietStep
<1>4. ASSUME NEW t \in Tasks, OpenRegister(t)
      PROVE  LinkInv'
    BY <1>1, <1>4, RegisterKeeps
<1>5. ASSUME NEW t \in Tasks, Enqueue(t)
      PROVE  LinkInv'
    BY <1>1, <1>5, EnqueueKeeps
<1>6. ASSUME NEW t \in Tasks,
             OpenCheck(t) \/ OpenLoad(t) \/ AcceptStream(t) \/ Ping(t) \/ PingReturns(t) \/ GoAway(t)
      PROVE  LinkInv'
    BY <1>1, <1>6, TaskStepsQuiet, QuietStep
<1>7. ASSUME NEW e \in Ends, RecvSyn(e)
      PROVE  LinkInv'
    BY <1>1, <1>7, AcceptKeeps, RecvStepsQuiet, QuietStep
<1>8. ASSUME NEW e \in Ends, SendTake(e) \/ SendDone(e) \/ SendNoWait(e)
      PROVE  LinkInv'
    BY <1>1, <1>8, QueueStepsQuiet, QuietStep
<1>9. ASSUME NEW e \in Ends, RecvAck(e) \/ RecvRst(e) \/ RecvPing(e) \/ RecvPong(e) \/ RecvGoAway(e)
      PROVE  LinkInv'
    BY <1>1, <1>9, RecvStepsQuiet, QuietStep
<1>10. QED
    BY <1>2, <1>3, <1>4, <1>5, <1>6, <1>7, <1>8, <1>9, EndsFacts DEF Next, Recv

(* A stream registered after the peer's go-away was received is never
   accepted by the peer (session.go:121, :464), with any number of
   goroutines that open, accept, ping and leave at either end. *)
THEOREM LateAreRefused == Spec => []LateRefused
<1>1. Init => LinkInv
    BY InitInv
<1>2. LinkInv /\ [Next]_vars => LinkInv'
    BY NextKeeps
<1>3. LinkInv => LateRefused
    BY DEF LinkInv
<1>4. QED
    BY <1>1, <1>2, <1>3, PTL DEF Spec

-----------------------------------------------------------------------------
(* One fate for every stream and ping.  Its places are counted: none, one,
   or more than one (2). *)
Bit(b) == IF b THEN 1 ELSE 0
Num(S) == IF S = {} THEN 0 ELSE IF \E x \in S : S = {x} THEN 1 ELSE 2
Is(f, what, id) == Bit(f.what = what /\ f.id = id)
At(s, what, id) == {i \in 1..Len(s) : s[i].what = what /\ s[i].id = id}
Queued(e, what, id) == Num(At(sendCh[e], what, id)) + Num(At(wire[e], what, id))

(* The ids that OpenStream has taken at an end. *)
Taken(e) == {id \in Nat : OwnId(e, id) /\ FirstId(e) <= id /\ id < nextStreamID[e]}

StreamCopies(e, id) ==
    Num(Opening(e, id, {"register", "enqueue"})) + Queued(e, "syn", id) + Bit(id \in streams[Peer(e)])
    + Queued(Peer(e), "rst", id) + Is(out[Peer(e)], "rst", id) + Bit(id \in resets[e])
PingCopies(t) ==
    Bit(pc[t] = "enqueue") + Queued(t[1], "ping", req[t].id) + Queued(Peer(t[1]), "pong", req[t].id)
    + Is(out[Peer(t[1])], "pong", req[t].id) + Bit(req[t].id \notin pings[t[1]])

Sorts ==
    /\ writing \in [Ends -> Senders]
    /\ resets \in [Ends -> SUBSET Nat] /\ pings \in [Ends -> SUBSET Nat]
    /\ failed \in [Ends -> BOOLEAN] /\ streamLock \in [Ends -> BOOLEAN]

(* A task waits while its frame is in sendCh or being written, and has no
   other one there. *)
Turn(e) ==
    /\ \A i \in 1..Len(sendCh[e]) : sendCh[e][i].by \in Tasks =>
          /\ sendCh[e][i].by[1] = e /\ pc[sendCh[e][i].by] = "await"
          /\ sendCh[e][i].by # writing[e]
    /\ \A i, j \in 1..Len(sendCh[e]) :
          sendCh[e][i].by \in Tasks /\ sendCh[e][i].by = sendCh[e][j].by => i = j
    /\ writing[e] \in Tasks => writing[e][1] = e /\ pc[writing[e]] = "await"
    /\ out[e].by \notin Tasks
Turns == \A e \in Ends : Turn(e)

(* A call asks for what its kind of caller asks for; no two pings of an end
   have one id. *)
Call(t) ==
    /\ req[t].what \in {"none", "syn", "ack", "ping", "goaway"}
    /\ req[t].by \in {t, nobody}
    /\ req[t].what = "syn" => t \in Openers
    /\ Numbered(t) => req[t].id \in Taken(t[1])
    /\ req[t].what = "ping" => /\ t \in Pingers /\ pc[t] \in {"enqueue", "await", "answer"}
                               /\ req[t].id < pingID[t[1]]
PingsDiffer ==
    \A t, u \in Tasks : u # t /\ u[1] = t[1] /\ req[t].what = "ping" /\ req[u].what = "ping"
                       => req[u].id # req[t].id
Calls == (\A t \in Tasks : Call(t)) /\ PingsDiffer

(* No id is on the way, registered or refused that was not taken, or asked
   with, before. *)
Carries(e, f) ==
    /\ f.what = "syn" => f.id \in Taken(e)
    /\ f.what = "rst" => f.id \in Taken(Peer(e))
    /\ f.what = "ping" => f.id < pingID[e]
    /\ f.what = "pong" => f.id < pingID[Peer(e)]
Carried ==
    \A e \in Ends :
        /\ FirstId(e) <= nextStreamID[e]
        /\ out[e].what \in {"none", "rst", "pong"} /\ Carries(e, out[e])
        /\ \A f \in Way(e) : Carries(e, f)
        /\ \A id \in streams[e] : OwnId(e, id) => id \in Taken(e)
        /\ resets[e] \subseteq Taken(e)
        /\ \A id \in pings[e] : id < pingID[e]

StreamFate(e, id) ==
    /\ StreamCopies(e, id) = 1
    /\ id \in streams[e] <=> id \notin resets[e] /\ Opening(e, id, {"register"}) = {}
StreamFates == \A e \in Ends : ~failed[e] /\ \A id \in Taken(e) : StreamFate(e, id)
PingFates == \A t \in Tasks : req[t].what = "ping" => PingCopies(t) = 1

FateInv == Sorts /\ Turns /\ Calls /\ Carried /\ StreamFates /\ PingFates

-----------------------------------------------------------------------------
(* A set counts as none, one or more. *)
LEMMA Counting ==
    /\ \A S : Num(S) \in {0, 1, 2} /\ (Num(S) = 0 <=> S = {}) /\ (Num(S) = 1 <=> \E x : S = {x})
    /\ \A b : Bit(b) \in {0, 1} /\ (Bit(b) = 1 <=> b)
<1>1. \A S : Num(S) \in {0, 1, 2} /\ (Num(S) = 0 <=> S = {})
    BY DEF Num
<1>2. ASSUME NEW S
      PROVE  Num(S) = 1 <=> \E x : S = {x}
  <2>1. (\E x : S = {x}) <=> \E x \in S : S = {x}
      OBVIOUS
  <2>2. CASE \E x \in S : S = {x}
    <3>1. S # {}
        BY <2>2
    <3>2. QED
        BY <2>1, <2>2, <3>1 DEF Num
  <2>3. CASE ~\E x \in S : S = {x}
      BY <2>1, <2>3 DEF Num
  <2>4. QED
      BY <2>2, <2>3
<1>3. QED
    BY <1>1, <1>2 DEF Is, Bit

(* A frame appended counts once more. *)
LEMMA AppendCount ==
    ASSUME NEW s \in Seq(Frames), NEW x \in Frames, NEW what, NEW id
    PROVE  Num(At(s, what, id)) + Is(x, what, id) <= 1 =>
               Num(At(Append(s, x), what, id)) = Num(At(s, what, id)) + Is(x, what, id)
<1>1. /\ Len(s) \in Nat /\ Len(Append(s, x)) = Len(s) + 1 /\ Append(s, x)[Len(s) + 1] = x
      /\ \A i \in 1..Len(s) : Append(s, x)[i] = s[i]
    OBVIOUS
<1>2. CASE x.what = what /\ x.id = id
  <2>1. SUFFICES ASSUME At(s, what, id) = {} PROVE At(Append(s, x), what, id) = {Len(s) + 1}
      BY <1>2, Counting DEF Is, Bit
  <2>2. QED
      BY <1>1, <1>2, <2>1 DEF At
<1>3. CASE ~(x.what = what /\ x.id = id)
  <2>1. At(Append(s, x), what, id) = At(s, what, id)
      BY <1>1, <1>3 DEF At
  <2>2. QED
      BY <1>3, <2>1, Counting DEF Is, Bit
<1>4. QED
    BY <1>2, <1>3

(* The first frame taken counts once less. *)
LEMMA TailCount ==
    ASSUME NEW s \in Seq(Frames), s # <<>>, NEW what, NEW id
    PROVE  Num(At(s, what, id)) <= 1 =>
               Num(At(s, what, id)) = Num(At(Tail(s), what, id)) + Is(Head(s), what, id)
<1>1. PICK n \in Nat : n = Len(s)
    OBVIOUS
<1>2. /\ n # 0 /\ Head(s) = s[1] /\ Len(Tail(s)) = n - 1
      /\ \A i \in 1..n - 1 : Tail(s)[i] = s[i + 1]
    BY <1>1
<1>3. \A i \in 1..n - 1 : i \in At(Tail(s), what, id) <=> i + 1 \in At(s, what, id)
    BY <1>1, <1>2 DEF At
<1>4. At(Tail(s), what, id) \subseteq 1..n - 1 /\ At(s, what, id) \subseteq 1..n
    BY <1>1, <1>2 DEF At
<1>5. 1 \in At(s, what, id) <=> Head(s).what = what /\ Head(s).id = id
    BY <1>1, <1>2 DEF At
<1>6. CASE At(s, what, id) = {}
  <2>1. At(Tail(s), what, id) = {} /\ ~(Head(s).what = what /\ Head(s).id = id)
      BY <1>3, <1>4, <1>5, <1>6
  <2>2. QED
      BY <1>6, <2>1, Counting DEF Is, Bit
<1>7. ASSUME NEW k, At(s, what, id) = {k}, k = 1
      PROVE  Num(At(s, what, id)) = Num(At(Tail(s), what, id)) + Is(Head(s), what, id)
  <2>1. At(Tail(s), what, id) = {} /\ Head(s).what = what /\ Head(s).id = id
    <3>1. \A i \in 1..n - 1 : i + 1 # 1
        OBVIOUS
    <3>2. QED
        BY <1>3, <1>4, <1>5, <1>7, <3>1
  <2>2. Num(At(s, what, id)) = 1 /\ Num(At(Tail(s), what, id)) = 0
      BY <1>7, <2>1, Counting
  <2>3. QED
      BY <2>1, <2>2 DEF Is, Bit
<1>8. ASSUME NEW k, At(s, what, id) = {k}, k # 1
      PROVE  Num(At(s, what, id)) = Num(At(Tail(s), what, id)) + Is(Head(s), what, id)
  <2>1. k \in 1..n /\ k - 1 \in 1..n - 1
      BY <1>4, <1>8
  <2>2. At(Tail(s), what, id) = {k - 1}
      BY <1>3, <1>4, <1>8, <2>1
  <2>3. ~(Head(s).what = what /\ Head(s).id = id)
      BY <1>5, <1>8
  <2>4. Num(At(s, what, id)) = 1 /\ Num(At(Tail(s), what, id)) = 1
      BY <1>8, <2>2, Counting
  <2>5. QED
      BY <2>3, <2>4 DEF Is, Bit
<1>9. SUFFICES ASSUME Num(At(s, what, id)) = 1
               PROVE  Num(At(s, what, id)) = Num(At(Tail(s), what, id)) + Is(Head(s), what, id)
    BY <1>6, Counting
<1>10. PICK k : At(s, what, id) = {k}
    BY <1>9, Counting
<1>11. QED
    BY <1>7, <1>8, <1>10

(* What is counted on the way is a number. *)
LEMMA QueuedNat ==
    \A e, what, id : Queued(e, what, id) \in Nat /\ Queued(e, what, id)' \in Nat
BY Counting DEF Queued

(* A frame is what is looked for, or not. *)
LEMMA IsBit == \A f, what, id : Is(f, what, id) \in {0, 1}
BY DEF Is, Bit

(* A frame queued counts once more at its end. *)
LEMMA PutCount ==
    ASSUME Shapes, NEW e \in Ends, NEW f \in Frames, UNCHANGED wire,
           sendCh' = [sendCh EXCEPT ![e] = Append(sendCh[e], f)]
    PROVE  /\ \A a \in Ends : \A what, id : a # e => Queued(a, what, id)' = Queued(a, what, id)
           /\ \A what, id : Queued(e, what, id) + Is(f, what, id) <= 1 =>
                 Queued(e, what, id)' = Queued(e, what, id) + Is(f, what, id)
<1>1. sendCh[e] \in Seq(Frames) /\ sendCh'[e] = Append(sendCh[e], f)
    BY DEF Shapes
<1>2. \A a \in Ends : \A what, id : a # e => Queued(a, what, id)' = Queued(a, what, id)
    BY DEF Queued, Shapes
<1>3. ASSUME NEW what, NEW id, Queued(e, what, id) + Is(f, what, id) <= 1
      PROVE  Queued(e, what, id)' = Queued(e, what, id) + Is(f, what, id)
  <2>1. Num(At(sendCh[e], what, id)) + Is(f, what, id) <= 1
      BY <1>3, Counting, IsBit DEF Queued
  <2>2. Num(At(sendCh'[e], what, id)) = Num(At(sendCh[e], what, id)) + Is(f, what, id)
      BY <1>1, <2>1, AppendCount
  <2>3. QED
      BY <2>2, Counting, IsBit DEF Queued
<1>4. QED
    BY <1>2, <1>3

(* What send writes is counted once still. *)
LEMMA TakeCount ==
    ASSUME Shapes, NEW e \in Ends, SendTake(e)
    PROVE  \A a \in Ends : \A what, id : Queued(a, what, id) <= 1 => Queued(a, what, id)' = Queued(a, what, id)
<1> DEFINE f == Head(sendCh[e])
<1>1. /\ sendCh[e] \in Seq(Frames) /\ sendCh[e] # <<>> /\ wire[e] \in Seq(Frames)
      /\ sendCh'[e] = Tail(sendCh[e]) /\ wire'[e] = Append(wire[e], f) /\ f \in Frames
    BY TailOver DEF Shapes, SendTake
<1>2. \A a \in Ends : a # e => sendCh'[a] = sendCh[a] /\ wire'[a] = wire[a]
    BY DEF Shapes, SendTake
<1> HIDE DEF f
<1>3. ASSUME NEW what, NEW id, Queued(e, what, id) <= 1
      PROVE  Queued(e, what, id)' = Queued(e, what, id)
  <2>1. Num(At(sendCh[e], what, id)) <= 1
      BY <1>3, Counting DEF Queued
  <2>2. Num(At(sendCh[e], what, id)) = Num(At(sendCh'[e], what, id)) + Is(f, what, id)
      BY <1>1, <2>1, TailCount DEF f
  <2>3. Num(At(wire[e], what, id)) + Is(f, what, id) <= 1
      BY <1>3, <2>2, Counting, IsBit DEF Queued
  <2>4. Num(At(wire'[e], what, id)) = Num(At(wire[e], what, id)) + Is(f, what, id)
      BY <1>1, <2>3, AppendCount
  <2>5. QED
      BY <2>2, <2>4, Counting, IsBit DEF Queued
<1>4. QED
    BY <1>2, <1>3 DEF Queued

(* What recv reads is counted no more. *)
LEMMA ReadCount ==
    ASSUME Shapes, NEW e \in Ends, NEW k, Arrives(e, k), UNCHANGED sendCh
    PROVE  /\ \A what, id : Queued(e, what, id)' = Queued(e, what, id)
           /\ \A what, id : Queued(Peer(e), what, id) <= 1 =>
                 Queued(Peer(e), what, id)
                     = Queued(Peer(e), what, id)' + Bit(what = k /\ id = Arrived(e))
<1> DEFINE p == Peer(e)
           f == Head(wire[p])
<1>0. p \in Ends /\ p # e
    BY EndsFacts
<1>1. /\ wire[p] \in Seq(Frames) /\ wire[p] # <<>> /\ wire'[p] = Tail(wire[p])
      /\ f.what = k /\ f.id = Arrived(e) /\ wire'[e] = wire[e]
    BY <1>0 DEF Shapes, Arrives, Arrived
<1> HIDE DEF f, p
<1>2. ASSUME NEW what, NEW id, Queued(p, what, id) <= 1
      PROVE  Queued(p, what, id) = Queued(p, what, id)' + Bit(what = k /\ id = Arrived(e))
  <2>1. Num(At(wire[p], what, id)) <= 1
      BY <1>2, Counting DEF Queued
  <2>2. Num(At(wire[p], what, id)) = Num(At(wire'[p], what, id)) + Is(f, what, id)
      BY <1>1, <2>1, TailCount DEF f
  <2>3. Is(f, what, id) = Bit(what = k /\ id = Arrived(e))
      BY <1>1 DEF Is
  <2>4. QED
      BY <2>2, <2>3, Counting DEF Queued
<1>3. QED
    BY <1>1, <1>2 DEF Queued, p

-----------------------------------------------------------------------------
(* Nobody, and no recv, is a task. *)
LEMMA NotTasks == nobody \notin Tasks /\ \A e \in Ends : recv(e) \notin Tasks
<1>1. "nobody" \notin Ends
    BY DEF Ends
<1>2. QED
    BY <1>1, TaskAssumption DEF nobody

(* Every step keeps the sorts of the other variables. *)
LEMMA NextSorts ==
    ASSUME Shapes, Shapes', Sorts, [Next]_vars
    PROVE  Sorts'
<1> USE DEF Sorts
<1>1. CASE UNCHANGED vars
    BY <1>1 DEF vars, streamVars, pingVars, queueVars, recvVars
<1>2. ASSUME NEW t \in Tasks, OpenCheck(t) \/ OpenLoad(t) \/ OpenSwap(t) \/ OpenRegister(t)
      PROVE  Sorts'
    BY <1>2 DEF OpenCheck, OpenLoad, OpenSwap, OpenRegister, streamVars, pingVars, queueVars, recvVars
<1>3. ASSUME NEW t \in Tasks, AcceptStream(t) \/ PingReturns(t) \/ GoAway(t) \/ Enqueue(t)
      PROVE  Sorts'
    BY <1>3 DEF AcceptStream, PingReturns, GoAway, Enqueue, streamVars, pingVars, queueVars, recvVars
<1>4. ASSUME NEW t \in Tasks, Ping(t)
      PROVE  Sorts'
  <2>1. pingID[t[1]] \in Nat
      BY EndsFacts DEF Shapes
  <2>2. QED
      BY <1>4, <2>1 DEF Ping, streamVars, queueVars, recvVars
<1>5. ASSUME NEW e \in Ends, SendTake(e)
      PROVE  Sorts'
  <2>1. Head(sendCh[e]).by \in Senders
      BY <1>5, TailOver DEF Shapes, SendTake, Frames
  <2>2. QED
      BY <1>5, <2>1 DEF SendTake, streamVars, pingVars, recvVars
<1>6. ASSUME NEW e \in Ends, SendDone(e) \/ SendNoWait(e) \/ RecvAck(e) \/ RecvPing(e) \/ RecvGoAway(e)
      PROVE  Sorts'
    BY <1>6 DEF SendDone, SendNoWait, RecvAck, RecvPing, RecvGoAway, streamVars, pingVars, recvVars, Senders
<1>7. ASSUME NEW e \in Ends, RecvRst(e) \/ RecvPong(e)
      PROVE  Sorts'
  <2>1. Arrived(e) \in Nat
      BY <1>7, ArrivesWay DEF RecvRst, RecvPong
  <2>2. QED
      BY <1>7, <2>1 DEF RecvRst, RecvPong, streamVars, pingVars, recvVars
<1>8. ASSUME NEW e \in Ends, RecvSyn(e)
      PROVE  Sorts'
    BY <1>8 DEF RecvSyn, pingVars
<1>9. QED
    BY <1>1, <1>2, <1>3, <1>4, <1>5, <1>6, <1>7, <1>8, EndsFacts DEF Next, Recv

-----------------------------------------------------------------------------
(* Turns are kept where nothing is queued, and no task that waits goes on. *)
LEMMA TurnsStay ==
    ASSUME Turns, UNCHANGED <<sendCh, writing>>,
           \A e \in Ends : out'[e] = out[e] \/ out'[e].by \notin Tasks,
           \A t \in Tasks : pc[t] = "await" => pc'[t] = "await"
    PROVE  Turns'
BY DEF Turns, Turn

(* A task queues one frame, its own, and waits. *)
LEMMA EnqueueTurns ==
    ASSUME Shapes, Turns, Calls, NEW t \in Tasks, Enqueue(t)
    PROVE  Turns'
<1> DEFINE e == t[1]
<1>1. e \in Ends /\ sendCh[e] \in Seq(Frames) /\ Len(sendCh[e]) \in Nat
    BY EndsFacts DEF Shapes
<1>2. /\ pc[t] = "enqueue" /\ pc' = [pc EXCEPT ![t] = "await"]
      /\ sendCh' = [sendCh EXCEPT ![e] = Append(sendCh[e], req[t])]
      /\ UNCHANGED <<writing, out>>
    BY DEF Enqueue, Goto, recvVars
<1>3. \A u \in Tasks : pc[u] = "await" => u # t /\ pc'[u] = "await"
    BY <1>2 DEF Shapes
<1>4. req[t].by \in {t, nobody} /\ pc'[t] = "await"
    BY <1>2 DEF Calls, Call, Shapes
<1>5. /\ Len(sendCh'[e]) = Len(sendCh[e]) + 1 /\ sendCh'[e][Len(sendCh[e]) + 1] = req[t]
      /\ \A i \in 1..Len(sendCh[e]) : sendCh'[e][i] = sendCh[e][i]
    BY <1>1, <1>2 DEF Shapes
<1>6. Turn(e)'
  <2>0. Turn(e)
      BY <1>1 DEF Turns
  <2>1. \A i \in 1..Len(sendCh[e]) : sendCh[e][i].by # t
      BY <1>3, <2>0 DEF Turn
  <2>2. writing[e] # t
      BY <1>3, <2>0 DEF Turn
  <2>3. \A i \in 1..Len(sendCh'[e]) :
          \/ i \in 1..Len(sendCh[e]) /\ sendCh'[e][i] = sendCh[e][i]
          \/ i = Len(sendCh[e]) + 1 /\ sendCh'[e][i] = req[t]
      BY <1>1, <1>5
  <2>4. ASSUME NEW i \in 1..Len(sendCh'[e]), sendCh'[e][i].by \in Tasks
        PROVE  /\ sendCh'[e][i].by[1] = e /\ pc'[sendCh'[e][i].by] = "await"
               /\ sendCh'[e][i].by # writing[e]
    <3>1. CASE i \in 1..Len(sendCh[e]) /\ sendCh'[e][i] = sendCh[e][i]
        BY <1>3, <2>0, <2>4, <3>1 DEF Turn
    <3>2. CASE sendCh'[e][i] = req[t]
      <4>1. sendCh'[e][i].by = t
          BY <1>4, <2>4, <3>2, NotTasks
      <4>2. QED
          BY <1>4, <2>2, <4>1
    <3>3. QED
        BY <2>3, <3>1, <3>2
  <2>5. ASSUME NEW i \in 1..Len(sendCh'[e]), NEW j \in 1..Len(sendCh'[e]),
               sendCh'[e][i].by \in Tasks, sendCh'[e][i].by = sendCh'[e][j].by
        PROVE  i = j
    <3>1. CASE i \in 1..Len(sendCh[e]) /\ j \in 1..Len(sendCh[e])
        BY <1>5, <2>0, <2>5, <3>1 DEF Turn
    <3>2. \A k \in 1..Len(sendCh'[e]) : k \notin 1..Len(sendCh[e]) =>
             k = Len(sendCh[e]) + 1 /\ sendCh'[e][k] = req[t]
        BY <2>3
    <3>3. req[t].by \in Tasks => req[t].by = t
        BY <1>4, NotTasks
    <3>4. QED
        BY <1>5, <2>1, <2>5, <3>1, <3>2, <3>3
  <2>6. QED
      BY <1>2, <1>3, <2>0, <2>4, <2>5 DEF Turn
<1>7. ASSUME NEW a \in Ends, a # e
      PROVE  Turn(a)'
  <2>1. Turn(a) /\ sendCh'[a] = sendCh[a]
      BY <1>2, <1>7 DEF Turns, Shapes
  <2>2. QED
      BY <1>2, <1>3, <2>1 DEF Turn
<1>8. QED
    BY <1>6, <1>7 DEF Turns

(* send goes from one frame to the next. *)
LEMMA TakeTurns ==
    ASSUME Shapes, Sorts, Turns, NEW e \in Ends, SendTake(e)
    PROVE  Turns'
<1>1. PICK n \in Nat : n = Len(sendCh[e])
    BY DEF Shapes
<1>2. /\ n # 0 /\ Head(sendCh[e]) = sendCh[e][1] /\ Len(Tail(sendCh[e])) = n - 1
      /\ \A i \in 1..n - 1 : Tail(sendCh[e])[i] = sendCh[e][i + 1]
    BY <1>1 DEF Shapes, SendTake
<1>3. /\ sendCh'[e] = Tail(sendCh[e]) /\ writing'[e] = Head(sendCh[e]).by
      /\ UNCHANGED <<pc, out>>
      /\ \A a \in Ends : a # e => sendCh'[a] = sendCh[a] /\ writing'[a] = writing[a]
    BY DEF SendTake, Shapes, Sorts, taskVars, recvVars
<1>4. Turn(e)'
  <2>0. Turn(e)
      BY DEF Turns
  <2>1. \A i \in 1..n - 1 : i + 1 \in 1..n /\ i + 1 # 1
      OBVIOUS
  <2>2. 1 \in 1..n
      BY <1>2
  <2>3. \A i \in 1..Len(sendCh'[e]) : sendCh'[e][i] = sendCh[e][i + 1] /\ i + 1 \in 1..n /\ i + 1 # 1
      BY <1>2, <1>3, <2>1
  <2>4. \A i \in 1..Len(sendCh'[e]) : sendCh'[e][i].by \in Tasks =>
          /\ sendCh'[e][i].by[1] = e /\ pc[sendCh'[e][i].by] = "await"
          /\ sendCh'[e][i].by # writing'[e]
      BY <1>1, <1>2, <1>3, <2>0, <2>2, <2>3 DEF Turn
  <2>5. \A i, j \in 1..Len(sendCh'[e]) :
          sendCh'[e][i].by \in Tasks /\ sendCh'[e][i].by = sendCh'[e][j].by => i = j
    <3>1. SUFFICES ASSUME NEW i \in 1..Len(sendCh'[e]), NEW j \in 1..Len(sendCh'[e]),
                          sendCh'[e][i].by \in Tasks, sendCh'[e][i].by = sendCh'[e][j].by
                   PROVE  i = j
        OBVIOUS
    <3>2. i + 1 = j + 1
        BY <1>1, <2>0, <2>3, <3>1 DEF Turn
    <3>3. i \in Nat /\ j \in Nat
        BY <1>1, <1>2, <1>3
    <3>4. QED
        BY <3>2, <3>3
  <2>6. writing'[e] \in Tasks => writing'[e][1] = e /\ pc[writing'[e]] = "await"
      BY <1>1, <1>2, <1>3, <2>0, <2>2 DEF Turn
  <2>7. QED
      BY <1>3, <2>0, <2>4, <2>5, <2>6 DEF Turn
<1>5. ASSUME NEW a \in Ends, a # e
      PROVE  Turn(a)'
    BY <1>3, <1>5 DEF Turns, Turn
<1>6. QED
    BY <1>4, <1>5 DEF Turns

(* A frame written lets its task go on, which has no other one queued. *)
LEMMA DoneTurns ==
    ASSUME Shapes, Sorts, Turns, NEW e \in Ends, SendDone(e)
    PROVE  Turns'
<1>1. /\ \A t \in Tasks : t # writing[e] => pc'[t] = pc[t]
      /\ writing'[e] = nobody /\ \A a \in Ends : a # e => writing'[a] = writing[a]
      /\ UNCHANGED <<sendCh, out>>
    BY DEF SendDone, Sorts, recvVars
<1>2. ASSUME NEW a \in Ends
      PROVE  Turn(a)'
  <2>1. Turn(a) /\ Turn(e)
      BY DEF Turns
  <2>2. \A i \in 1..Len(sendCh[a]) : sendCh[a][i].by \in Tasks => sendCh[a][i].by # writing[e]
      BY <2>1 DEF Turn
  <2>3. a # e /\ writing[a] \in Tasks => writing[a] # writing[e]
      BY <2>1 DEF Turn
  <2>4. CASE a = e
      BY <1>1, <2>1, <2>2, <2>4, NotTasks DEF Turn
  <2>5. CASE a # e
      BY <1>1, <2>1, <2>2, <2>3, <2>5 DEF Turn
  <2>6. QED
      BY <2>4, <2>5
<1>3. QED
    BY <1>2 DEF Turns

(* recv queues frames that no task waits for. *)
LEMMA NoWaitTurns ==
    ASSUME Shapes, Turns, NEW e \in Ends, SendNoWait(e)
    PROVE  Turns'
<1>1. /\ sendCh'[e] = Append(sendCh[e], out[e]) /\ UNCHANGED <<pc, writing>>
      /\ \A a \in Ends : a # e => sendCh'[a] = sendCh[a]
      /\ out' = [out EXCEPT ![e] = NoFrame]
    BY DEF SendNoWait, Shapes, taskVars
<1>2. \A a \in Ends : out[a].by \notin Tasks /\ out'[a].by \notin Tasks
    BY <1>1, NotTasks DEF Turns, Turn, Shapes, NoFrame, Frame
<1>3. PICK n \in Nat : n = Len(sendCh[e])
    BY DEF Shapes
<1>4. /\ Len(sendCh'[e]) = n + 1 /\ sendCh'[e][n + 1] = out[e]
      /\ \A i \in 1..n : sendCh'[e][i] = sendCh[e][i]
    BY <1>1, <1>3 DEF Shapes
<1>5. Turn(e)'
  <2>1. Turn(e)
      BY DEF Turns
  <2>2. \A i \in 1..Len(sendCh'[e]) : sendCh'[e][i].by \in Tasks => i \in 1..n /\ sendCh'[e][i] = sendCh[e][i]
      BY <1>2, <1>4
  <2>3. \A i \in 1..Len(sendCh'[e]) : sendCh'[e][i].by \in Tasks =>
          /\ sendCh'[e][i].by[1] = e /\ pc[sendCh'[e][i].by] = "await"
          /\ sendCh'[e][i].by # writing[e]
      BY <1>3, <2>1, <2>2 DEF Turn
  <2>4. \A i, j \in 1..Len(sendCh'[e]) :
          sendCh'[e][i].by \in Tasks /\ sendCh'[e][i].by = sendCh'[e][j].by => i = j
      BY <1>3, <2>1, <2>2 DEF Turn
  <2>5. QED
      BY <1>1, <1>2, <2>1, <2>3, <2>4 DEF Turn
<1>6. ASSUME NEW a \in Ends, a # e
      PROVE  Turn(a)'
    BY <1>1, <1>2, <1>6 DEF Turns, Turn
<1>7. QED
    BY <1>5, <1>6 DEF Turns

(* Every step keeps the turns. *)
LEMMA NextTurns ==
    ASSUME Shapes, Sorts, Turns, Calls, [Next]_vars
    PROVE  Turns'
<1> USE DEF Shapes, Goto
<1>1. CASE UNCHANGED vars
    BY <1>1, TurnsStay DEF vars, taskVars, queueVars, recvVars
<1>2. ASSUME NEW t \in Tasks, OpenCheck(t) \/ OpenLoad(t) \/ OpenSwap(t) \/ OpenRegister(t)
      PROVE  Turns'
  <2>1. /\ UNCHANGED <<sendCh, writing, out>> /\ pc[t] # "await"
        /\ \A u \in Tasks : u # t => pc'[u] = pc[u]
      BY <1>2 DEF OpenCheck, OpenLoad, OpenSwap, OpenRegister, queueVars, recvVars
  <2>2. QED
      BY <2>1, TurnsStay
<1>3. ASSUME NEW t \in Tasks, AcceptStream(t) \/ Ping(t) \/ PingReturns(t) \/ GoAway(t)
      PROVE  Turns'
  <2>1. /\ UNCHANGED <<sendCh, writing, out>> /\ pc[t] # "await"
        /\ \A u \in Tasks : u # t => pc'[u] = pc[u]
      BY <1>3 DEF AcceptStream, Ping, PingReturns, GoAway, queueVars, recvVars
  <2>2. QED
      BY <2>1, TurnsStay
<1>4. ASSUME NEW e \in Ends, RecvSyn(e) \/ RecvAck(e) \/ RecvRst(e) \/ RecvPing(e) \/ RecvPong(e) \/ RecvGoAway(e)
      PROVE  Turns'
  <2>1. UNCHANGED <<pc, sendCh, writing>>
      BY <1>4 DEF RecvSyn, RecvAck, RecvRst, RecvPing, RecvPong, RecvGoAway, taskVars, recvVars
  <2>2. out' = out \/ \E what : Answer(e, what)
      BY <1>4 DEF RecvSyn, RecvAck, RecvRst, RecvPing, RecvPong, RecvGoAway, recvVars
  <2>3. \A a \in Ends : out'[a] = out[a] \/ out'[a].by \notin Tasks
      BY <2>2, NotTasks DEF Answer, Frame
  <2>4. QED
      BY <2>1, <2>3, TurnsStay
<1>5. QED
    BY <1>1, <1>2, <1>3, <1>4, EnqueueTurns, TakeTurns, DoneTurns, NoWaitTurns, EndsFacts DEF Next, Recv

-----------------------------------------------------------------------------
(* No counter goes back, and no id taken is given back. *)
LEMMA Counters ==
    ASSUME LinkInv, [Next]_vars
    PROVE  \A e \in Ends : /\ nextStreamID[e] <= nextStreamID'[e] /\ pingID[e] <= pingID'[e]
                           /\ Taken(e) \subseteq Taken(e)'
<1> USE DEF LinkInv, Shapes
<1>1. CASE UNCHANGED <<nextStreamID, pingID>>
    BY <1>1 DEF Taken, OwnId
<1>2. ASSUME NEW t \in Tasks, OpenSwap(t), ~UNCHANGED nextStreamID
      PROVE  \A e \in Ends : nextStreamID[e] <= nextStreamID'[e] /\ pingID' = pingID
  <2>1. req[t].id \in Nat /\ req[t].id < MaxId - 1 /\ t[1] \in Ends
      BY <1>2, EndsFacts DEF OpenSwap, IdsTaken, TaskIds, Frames
  <2>2. /\ nextStreamID[t[1]] = req[t].id
        /\ nextStreamID' = [nextStreamID EXCEPT ![t[1]] = req[t].id + 2]
      BY <1>2, <2>1, NextId DEF OpenSwap
  <2>3. QED
      BY SMTT(30), <1>2, <2>1, <2>2 DEF OpenSwap, pingVars
<1>3. ASSUME NEW t \in Tasks, Ping(t)
      PROVE  \A e \in Ends : pingID[e] <= pingID'[e] /\ nextStreamID' = nextStreamID
    BY <1>3 DEF Ping
<1>4. ASSUME NEW t \in Tasks, OpenCheck(t) \/ OpenLoad(t) \/ OpenRegister(t) \/ AcceptStream(t)
                              \/ PingReturns(t) \/ GoAway(t) \/ Enqueue(t)
      PROVE  UNCHANGED <<nextStreamID, pingID>>
    BY <1>4 DEF OpenCheck, OpenLoad, OpenRegister, AcceptStream, PingReturns, GoAway, Enqueue, pingVars
<1>5. ASSUME NEW e \in Ends, SendTake(e) \/ SendDone(e) \/ Recv(e)
      PROVE  UNCHANGED <<nextStreamID, pingID>>
    BY <1>5 DEF SendTake, SendDone, Recv, RecvSyn, RecvAck, RecvRst, RecvPing, RecvPong, RecvGoAway, SendNoWait, pingVars
<1>6. CASE UNCHANGED vars
    BY <1>1, <1>6 DEF vars, pingVars
<1>7. \A e \in Ends : nextStreamID[e] <= nextStreamID'[e] /\ pingID[e] <= pingID'[e]
  <2>1. ASSUME NEW t \in Tasks, OpenSwap(t)
        PROVE  \A e \in Ends : nextStreamID[e] <= nextStreamID'[e] /\ pingID[e] <= pingID'[e]
      BY <1>2, <2>1 DEF OpenSwap, pingVars
  <2>2. QED
      BY <1>3, <1>4, <1>5, <1>6, <2>1, EndsFacts DEF Next, vars, pingVars
<1>8. \A e \in Ends : nextStreamID'[e] \in Nat
    BY NextShapes
<1>9. QED
    BY <1>7, <1>8 DEF Taken, OwnId

(* One task goes on with its call, or with another one. *)
LEMMA CallGoesOn ==
    ASSUME LinkInv, Calls, [Next]_vars, NEW t \in Tasks, Call(t)',
           \A u \in Tasks : u # t => pc'[u] = pc[u] /\ req'[u] = req[u],
           req'[t].what = "ping" => req'[t] = req[t] \/ req'[t].id = pingID[t[1]]
    PROVE  Calls'
<1>0. \A u \in Tasks : u[1] \in Ends /\ req[u].id \in Nat /\ pingID[u[1]] \in Nat /\ pingID'[u[1]] \in Nat
    BY EndsFacts, NextShapes DEF LinkInv, Shapes, Frames
<1>1. ASSUME NEW u \in Tasks, u # t
      PROVE  Call(u)'
  <2>1. Call(u) /\ pc'[u] = pc[u] /\ req'[u] = req[u] /\ (Numbered(u)' <=> Numbered(u))
      BY <1>1 DEF Calls, Numbered
  <2>2. Taken(u[1]) \subseteq Taken(u[1])' /\ pingID[u[1]] <= pingID'[u[1]]
      BY <1>0, Counters
  <2>3. QED
      BY <1>0, <2>1, <2>2 DEF Call
<1>2. PingsDiffer'
  <2>1. SUFFICES ASSUME NEW v \in Tasks, NEW u \in Tasks, u # v, u[1] = v[1],
                        req'[v].what = "ping", req'[u].what = "ping"
                 PROVE  req'[u].id # req'[v].id
      BY DEF PingsDiffer
  <2>2. \A w \in Tasks : req[w].what = "ping" => req[w].id < pingID[w[1]]
      BY DEF Calls, Call
  <2>3. CASE req'[v] = req[v] /\ req'[u] = req[u]
      BY <2>1, <2>3 DEF Calls, PingsDiffer
  <2>4. CASE v = t /\ req'[v].id = pingID[v[1]]
      BY <1>0, <2>1, <2>2, <2>4
  <2>5. CASE u = t /\ req'[u].id = pingID[u[1]]
      BY <1>0, <2>1, <2>2, <2>5
  <2>6. QED
      BY <2>1, <2>3, <2>4, <2>5
<1>3. QED
    BY <1>1, <1>2 DEF Calls

(* Every step keeps the calls. *)
LEMMA NextCalls ==
    ASSUME LinkInv, Calls, Carried, [Next]_vars
    PROVE  Calls'
<1>0. /\ \A t \in Tasks : t[1] \in Ends /\ req[t].id \in Nat
      /\ \A e \in Ends : pingID[e] \in Nat /\ nextStreamID[e] \in Nat
      /\ NoFrame.what = "none" /\ NoFrame.by = nobody
      /\ \A what, id, by : /\ Frame(what, id, by).what = what /\ Frame(what, id, by).id = id
                           /\ Frame(what, id, by).by = by
    BY EndsFacts DEF LinkInv, Shapes, Frames, NoFrame, Frame
<1>1. CASE UNCHANGED <<pc, req, nextStreamID, pingID>>
    BY <1>1 DEF Calls, Call, PingsDiffer, Numbered, Taken, OwnId
<1> USE DEF Goto, Asks
<1>t. pc \in [Tasks -> Labels] /\ req \in [Tasks -> Frames]
    BY DEF LinkInv, Shapes
<1>2. ASSUME NEW t \in Openers, OpenCheck(t) \/ OpenLoad(t) \/ OpenSwap(t) \/ OpenRegister(t)
      PROVE  Calls'
  <2>1. t \in Tasks
      BY EndsFacts
  <2>2. \A u \in Tasks : u # t => pc'[u] = pc[u] /\ req'[u] = req[u]
      BY <1>2, <1>t DEF OpenCheck, OpenLoad, OpenSwap, OpenRegister
  <2>3. Call(t) /\ req[t].what # "ping"
      BY <1>2, <2>1 DEF Calls, Call, OpenCheck, OpenLoad, OpenSwap, OpenRegister
  <2>4. CASE OpenCheck(t) \/ OpenLoad(t)
    <3>1. pc'[t] \in {"refused", "load", "swap"}
        BY <1>t, <2>1, <2>4 DEF OpenCheck, OpenLoad
    <3>2. req'[t] = req[t] \/ req'[t] = NoFrame \/ req'[t] = Frame("syn", nextStreamID[t[1]], t)
        BY <1>t, <2>1, <2>4 DEF OpenCheck, OpenLoad
    <3>3. Call(t)' /\ req'[t].what # "ping"
        BY <1>0, <2>3, <3>1, <3>2 DEF Call, Numbered
    <3>4. QED
        BY <2>1, <2>2, <3>3, CallGoesOn
  <2>5. CASE OpenSwap(t)
    <3>1. req' = req /\ req[t].what = "syn" /\ req[t].id < MaxId - 1
        BY <2>1, <2>5 DEF OpenSwap, LinkInv, IdsTaken, TaskIds
    <3>2. pc'[t] = "register" => req[t].id \in Taken(t[1])'
      <4>1. SUFFICES ASSUME pc'[t] = "register" PROVE req[t].id \in Taken(t[1])'
          OBVIOUS
      <4>2. /\ nextStreamID[t[1]] = req[t].id
            /\ nextStreamID'[t[1]] = req[t].id + 2
          BY <1>0, <1>t, <2>1, <2>5, <3>1, <4>1, NextId DEF OpenSwap, LinkInv, Shapes
      <4>3. OwnId(t[1], req[t].id) /\ FirstId(t[1]) <= nextStreamID[t[1]]
          BY <1>0, <2>1, <3>1, <4>2 DEF LinkInv, IdsTaken, TaskIds, Carried
      <4>4. QED
          BY <1>0, <2>1, <4>2, <4>3 DEF Taken, OwnId
    <3>3. pc'[t] \in {"register", "load"}
        BY <1>t, <2>1, <2>5 DEF OpenSwap
    <3>4. Call(t)'
        BY <2>3, <3>1, <3>2, <3>3 DEF Call, Numbered
    <3>5. QED
        BY <2>1, <2>2, <3>1, <3>4, CallGoesOn
  <2>6. CASE OpenRegister(t)
    <3>1. req' = req /\ pc[t] = "register" /\ pc'[t] = "enqueue" /\ UNCHANGED nextStreamID
        BY <1>t, <2>1, <2>6 DEF OpenRegister
    <3>2. req[t].what = "syn"
        BY <2>1, <3>1 DEF LinkInv, IdsTaken, TaskIds
    <3>3. Call(t)'
        BY <2>3, <3>1, <3>2 DEF Call, Numbered, Taken, OwnId
    <3>4. QED
        BY <2>1, <2>2, <3>1, <3>3, CallGoesOn
  <2>7. QED
      BY <1>2, <2>4, <2>5, <2>6
<1>3. ASSUME NEW t \in Tasks, AcceptStream(t) \/ GoAway(t) \/ Enqueue(t)
      PROVE  Calls'
  <2>1. \A u \in Tasks : u # t => pc'[u] = pc[u] /\ req'[u] = req[u]
      BY <1>3, <1>t DEF AcceptStream, GoAway, Enqueue
  <2>2. UNCHANGED <<nextStreamID, pingID>>
      BY <1>3 DEF AcceptStream, GoAway, Enqueue, pingVars
  <2>3. Call(t)
      BY DEF Calls
  <2>4. CASE Enqueue(t)
    <3>1. req' = req /\ pc[t] = "enqueue" /\ pc'[t] = "await"
        BY <1>t, <2>4 DEF Enqueue
    <3>2. Call(t)'
        BY <2>2, <2>3, <3>1 DEF Call, Numbered, Taken, OwnId
    <3>3. QED
        BY <2>1, <3>1, <3>2, CallGoesOn
  <2>5. CASE AcceptStream(t) \/ GoAway(t)
    <3>1. \E what \in {"ack", "goaway"} : \E id : req'[t] = Frame(what, id, t)
        BY <1>t, <2>5 DEF AcceptStream, GoAway
    <3>2. Call(t)' /\ req'[t].what # "ping"
        BY <1>0, <3>1 DEF Call, Numbered
    <3>3. QED
        BY <2>1, <3>2, CallGoesOn
  <2>6. QED
      BY <1>3, <2>4, <2>5
<1>4. ASSUME NEW t \in Pingers, Ping(t) \/ PingReturns(t)
      PROVE  Calls'
  <2>1. t \in Tasks
      BY EndsFacts
  <2>2. \A u \in Tasks : u # t => pc'[u] = pc[u] /\ req'[u] = req[u]
      BY <1>4, <1>t DEF Ping, PingReturns
  <2>3. CASE Ping(t)
    <3>1. req'[t] = Frame("ping", pingID[t[1]], t) /\ pc'[t] = "enqueue" /\ pingID'[t[1]] = pingID[t[1]] + 1
        BY <1>0, <1>t, <2>1, <2>3 DEF Ping, LinkInv, Shapes
    <3>2. Call(t)' /\ req'[t].id = pingID[t[1]]
        BY <1>0, <2>1, <3>1 DEF Call, Numbered
    <3>3. QED
        BY <2>1, <2>2, <3>2, CallGoesOn
  <2>4. CASE PingReturns(t)
    <3>1. req'[t] = NoFrame
        BY <1>t, <2>1, <2>4 DEF PingReturns
    <3>2. Call(t)' /\ req'[t].what # "ping"
        BY <1>0, <3>1 DEF Call, Numbered
    <3>3. QED
        BY <2>1, <2>2, <3>2, CallGoesOn
  <2>5. QED
      BY <1>4, <2>3, <2>4
<1>5. ASSUME NEW e \in Ends, SendDone(e)
      PROVE  Calls'
  <2>1. /\ pc' = [t \in Tasks |-> IF t = writing[e] THEN Replied(t) ELSE pc[t]]
        /\ req' = [t \in Tasks |-> IF t = writing[e] /\ req[t].what # "ping" THEN NoFrame ELSE req[t]]
        /\ UNCHANGED <<nextStreamID, pingID>>
      BY <1>5 DEF SendDone, pingVars
  <2>2. \A t \in Tasks : req'[t] = req[t] \/ req'[t] = NoFrame
      BY <2>1
  <2>3. ASSUME NEW t \in Tasks
        PROVE  Call(t)'
    <3>1. CASE t # writing[e]
        BY <2>1, <3>1 DEF Calls, Call, Numbered, Taken, OwnId
    <3>2. CASE t = writing[e] /\ req[t].what = "ping"
      <4>1. req'[t] = req[t] /\ pc'[t] = "answer"
          BY <2>1, <3>2 DEF Replied
      <4>2. QED
          BY <2>1, <3>2, <4>1 DEF Calls, Call, Numbered
    <3>3. CASE t = writing[e] /\ req[t].what # "ping"
      <4>1. req'[t] = NoFrame
          BY <2>1, <3>3
      <4>2. QED
          BY <1>0, <4>1 DEF Call, Numbered
    <3>4. QED
        BY <3>1, <3>2, <3>3
  <2>4. PingsDiffer'
      BY <1>0, <2>2 DEF Calls, PingsDiffer
  <2>5. QED
      BY <2>3, <2>4 DEF Calls
<1>6. ASSUME NEW e \in Ends, SendTake(e) \/ Recv(e)
      PROVE  UNCHANGED <<pc, req, nextStreamID, pingID>>
    BY <1>6 DEF SendTake, Recv, RecvSyn, RecvAck, RecvRst, RecvPing, RecvPong, RecvGoAway, SendNoWait, taskVars, pingVars
<1>7. CASE UNCHANGED vars
    BY <1>1, <1>7 DEF vars, taskVars, pingVars
<1>8. QED
    BY <1>1, <1>2, <1>3, <1>4, <1>5, <1>6, <1>7, EndsFacts DEF Next

-----------------------------------------------------------------------------
(* A frame that carries an id taken, or asked with, by the end of the step. *)
Fits(e, f) ==
    /\ f.what = "syn" => f.id \in Taken(e)'
    /\ f.what = "rst" => f.id \in Taken(Peer(e))'
    /\ f.what = "ping" => f.id < pingID'[e]
    /\ f.what = "pong" => f.id < pingID'[Peer(e)]

(* Whatever comes onto the way, or to an end, comes with an id taken. *)
LEMMA CarriedGoesOn ==
    ASSUME LinkInv, Sorts, Carried, [Next]_vars,
           \A e \in Ends : out'[e] = out[e] \/ (out'[e].what \in {"none", "rst", "pong"} /\ Fits(e, out'[e])),
           \A e \in Ends : \A f \in Way(e)' : f \in Way(e) \/ Fits(e, f),
           \A e \in Ends : \A id \in streams'[e] : id \in streams[e] \/ ~OwnId(e, id) \/ id \in Taken(e)',
           \A e \in Ends : \A id \in resets'[e] : id \in resets[e] \/ id \in Taken(e)',
           \A e \in Ends : \A id \in pings'[e] : id \in pings[e] \/ id < pingID'[e]
    PROVE  Carried'
<1>1. \A e \in Ends :
        /\ Peer(e) \in Ends /\ pingID[e] \in Nat /\ pingID'[e] \in Nat /\ pingID[e] <= pingID'[e]
        /\ Taken(e) \subseteq Taken(e)' /\ nextStreamID[e] \in Nat /\ nextStreamID'[e] \in Nat
        /\ nextStreamID[e] <= nextStreamID'[e] /\ FirstId(e) \in Nat
    BY Counters, NextShapes, EndsFacts DEF LinkInv, Shapes, FirstId
<1>2. \A e \in Ends, f \in Frames : Carries(e, f) => Fits(e, f)
  <2>1. \A f \in Frames : f.id \in Nat
      BY DEF Frames
  <2>2. QED
      BY <1>1, <2>1 DEF Carries, Fits
<1>3. \A e \in Ends : out[e] \in Frames /\ Way(e) \subseteq Frames /\ pings[e] \subseteq Nat
    BY WayFrames DEF LinkInv, Shapes, Sorts
<1>4. ASSUME NEW e \in Ends
      PROVE  /\ out'[e].what \in {"none", "rst", "pong"} /\ Fits(e, out'[e])
             /\ \A f \in Way(e)' : Fits(e, f)
    BY <1>2, <1>3 DEF Carried
<1>5. ASSUME NEW e \in Ends
      PROVE  /\ FirstId(e) <= nextStreamID'[e]
             /\ \A id \in streams'[e] : OwnId(e, id) => id \in Taken(e)'
             /\ resets'[e] \subseteq Taken(e)'
             /\ \A id \in pings'[e] : id < pingID'[e]
    BY <1>1, <1>3 DEF Carried
<1>6. \A e \in Ends : Carries(e, out[e])' /\ \A f \in Way(e)' : Carries(e, f)'
    BY <1>4 DEF Carries, Fits
<1>7. QED
    BY <1>4, <1>5, <1>6 DEF Carried, OwnId, FirstId

(* Every step keeps what is carried. *)
LEMMA NextCarried ==
    ASSUME LinkInv, Sorts, Calls, Carried, [Next]_vars
    PROVE  Carried'
<1>t. Shapes
    BY DEF LinkInv
<1>0. \A t \in Tasks : t[1] \in Ends
    BY EndsFacts
<1>1. ASSUME UNCHANGED <<sendCh, wire, out, resets>>,
             \A e \in Ends : /\ \A id \in streams'[e] : id \in streams[e] \/ ~OwnId(e, id) \/ id \in Taken(e)'
                             /\ \A id \in pings'[e] : id \in pings[e] \/ id < pingID'[e]
      PROVE  Carried'
  <2>1. \A e \in Ends : Way(e)' = Way(e)
      BY <1>1 DEF Way
  <2>2. QED
      BY <1>1, <2>1, CarriedGoesOn
<1>2. CASE UNCHANGED vars
    BY <1>1, <1>2 DEF vars, streamVars, pingVars, queueVars, recvVars
<1>3. ASSUME NEW t \in Tasks, OpenCheck(t) \/ OpenLoad(t) \/ OpenSwap(t) \/ AcceptStream(t) \/ PingReturns(t) \/ GoAway(t)
      PROVE  Carried'
  <2>1. UNCHANGED <<sendCh, wire, out, resets, streams, pings>>
      BY <1>3 DEF OpenCheck, OpenLoad, OpenSwap, AcceptStream, PingReturns, GoAway,
           streamVars, pingVars, queueVars, recvVars
  <2>2. QED
      BY <1>1, <2>1
<1>4. ASSUME NEW t \in Tasks, OpenRegister(t)
      PROVE  Carried'
  <2>1. /\ streams' = [streams EXCEPT ![t[1]] = streams[t[1]] \cup {req[t].id}]
        /\ UNCHANGED <<sendCh, wire, out, resets, pings, nextStreamID>> /\ pc[t] = "register"
      BY <1>4 DEF OpenRegister, pingVars, queueVars, recvVars
  <2>2. req[t].id \in Taken(t[1])
      BY <2>1 DEF Calls, Call, Numbered, LinkInv, IdsTaken, TaskIds
  <2>3. \A e \in Ends : Taken(e)' = Taken(e)
      BY <2>1 DEF Taken, OwnId
  <2>4. \A e \in Ends : \A id \in streams'[e] : id \in streams[e] \/ id \in Taken(e)'
      BY <1>0, <2>1, <2>2, <2>3 DEF Shapes, LinkInv
  <2>5. QED
      BY <1>1, <2>1, <2>4
<1>5. ASSUME NEW t \in Tasks, Ping(t)
      PROVE  Carried'
  <2>1. /\ UNCHANGED <<sendCh, wire, out, resets, streams>>
        /\ pings' = [pings EXCEPT ![t[1]] = pings[t[1]] \cup {pingID[t[1]]}]
        /\ pingID' = [pingID EXCEPT ![t[1]] = pingID[t[1]] + 1]
      BY <1>5 DEF Ping, streamVars, queueVars, recvVars
  <2>2. \A e \in Ends : \A id \in pings'[e] : id \in pings[e] \/ id < pingID'[e]
      BY <1>0, <2>1 DEF LinkInv, Sorts, Shapes
  <2>3. QED
      BY <1>1, <2>1, <2>2
<1>6. ASSUME NEW t \in Tasks, Enqueue(t)
      PROVE  Carried'
  <2>1. UNCHANGED <<out, resets, streams, pings, pingID, nextStreamID>> /\ pc[t] = "enqueue"
      BY <1>6 DEF Enqueue, streamVars, pingVars, recvVars
  <2>2. \A e \in Ends : \A f \in Way(e)' : f \in Way(e) \/ (e = t[1] /\ f = req[t])
      BY <1>t, <1>6, EnqueueWay
  <2>3. Fits(t[1], req[t])
    <3>1. Call(t)
        BY DEF Calls
    <3>2. req[t].what = "syn" => req[t].id \in Taken(t[1])'
        BY <2>1, <3>1 DEF Call, Numbered, Taken, OwnId
    <3>3. req[t].what \notin {"rst", "pong"} /\ (req[t].what = "ping" => req[t].id < pingID'[t[1]])
        BY <2>1, <3>1 DEF Call
    <3>4. QED
        BY <3>2, <3>3 DEF Fits
  <2>4. QED
      BY <2>1, <2>2, <2>3, CarriedGoesOn
<1>7. ASSUME NEW e \in Ends, SendTake(e) \/ SendDone(e)
      PROVE  Carried'
  <2>1. UNCHANGED <<out, resets, streams, pings>>
      BY <1>7 DEF SendTake, SendDone, streamVars, pingVars, recvVars
  <2>2. \A a \in Ends : Way(a)' = Way(a)
      BY <1>t, <1>7, SendTakeWay DEF SendDone, Way
  <2>3. QED
      BY <2>1, <2>2, CarriedGoesOn
<1>8. ASSUME NEW e \in Ends, SendNoWait(e)
      PROVE  Carried'
  <2>1. /\ UNCHANGED <<resets, streams, pings, pingID, nextStreamID>>
        /\ out' = [out EXCEPT ![e] = NoFrame]
      BY <1>8 DEF SendNoWait, pingVars
  <2>2. \A a \in Ends : \A f \in Way(a)' : f \in Way(a) \/ (a = e /\ f = out[e])
      BY <1>t, <1>8, SendNoWaitWay
  <2>3. \A a \in Ends : out'[a] = out[a] \/ out'[a].what = "none"
      BY <2>1 DEF LinkInv, Shapes, NoFrame, Frame
  <2>4. \A a \in Ends : \A f : Carries(a, f) => Fits(a, f)
      BY <2>1 DEF Carries, Fits, Taken, OwnId
  <2>5. \A a \in Ends : \A f \in Way(a)' : f \in Way(a) \/ Fits(a, f)
      BY <2>2, <2>4 DEF Carried
  <2>6. \A a \in Ends : out'[a] = out[a] \/ Fits(a, out'[a])
      BY <2>3 DEF Fits
  <2>7. QED
      BY <2>1, <2>3, <2>5, <2>6, CarriedGoesOn
<1>9. ASSUME NEW e \in Ends, NEW k, Arrives(e, k), UNCHANGED <<sendCh, pingID, nextStreamID>>
      PROVE  /\ \A a \in Ends : Way(a)' \subseteq Way(a) /\ Taken(a)' = Taken(a)
             /\ k = "syn" => Arrived(e) \in Taken(Peer(e)) /\ ~OwnId(e, Arrived(e))
             /\ k = "rst" => Arrived(e) \in Taken(e)
             /\ k = "ping" => Arrived(e) < pingID[Peer(e)]
  <2>1. /\ Head(wire[Peer(e)]) \in Frames \cap Way(Peer(e)) /\ Head(wire[Peer(e)]).what = k
        /\ Head(wire[Peer(e)]).id = Arrived(e) /\ Arrived(e) \in Nat
        /\ \A a \in Ends : Way(a)' \subseteq Way(a)
        /\ Peer(e) \in Ends /\ Peer(Peer(e)) = e
      BY <1>t, <1>9, ArrivesWay, EndsFacts DEF Arrived
  <2>2. Carries(Peer(e), Head(wire[Peer(e)]))
      BY <2>1 DEF Carried
  <2>3. k = "syn" => Arrived(e) \in Taken(Peer(e)) /\ ~OwnId(e, Arrived(e))
    <3>1. SUFFICES ASSUME k = "syn" PROVE Arrived(e) \in Taken(Peer(e)) /\ ~OwnId(e, Arrived(e))
        OBVIOUS
    <3>2. Arrived(e) \in Taken(Peer(e)) /\ OwnId(Peer(e), Arrived(e))
        BY <2>1, <2>2, <3>1 DEF Carries, Taken
    <3>3. QED
        BY <2>1, <3>2, OtherId
  <2>4. \A a \in Ends : Taken(a)' = Taken(a)
      BY <1>9 DEF Taken, OwnId
  <2>5. QED
      BY <2>1, <2>2, <2>3, <2>4 DEF Carries
<1>10. ASSUME NEW e \in Ends, RecvSyn(e)
       PROVE  Carried'
  <2>1. Arrives(e, "syn") /\ UNCHANGED <<sendCh, pingID, nextStreamID, pings, resets>>
      BY <1>10 DEF RecvSyn, pingVars
  <2>2. /\ out' = out \/ out' = [out EXCEPT ![e] = Frame("rst", Arrived(e), recv(e))]
        /\ streams' = streams \/ streams' = [streams EXCEPT ![e] = streams[e] \cup {Arrived(e)}]
      BY <1>10 DEF RecvSyn, Answer
  <2>3. /\ \A a \in Ends : Way(a)' \subseteq Way(a) /\ Taken(a)' = Taken(a)
        /\ Arrived(e) \in Taken(Peer(e)) /\ ~OwnId(e, Arrived(e))
      BY <1>9, <2>1
  <2>4. Fits(e, Frame("rst", Arrived(e), recv(e)))
    <3>1. Taken(Peer(e))' = Taken(Peer(e))
        BY <2>1 DEF Taken, OwnId
    <3>2. \A n : n \in Taken(Peer(e)) => Fits(e, Frame("rst", n, recv(e)))
        BY <3>1 DEF Fits, Frame
    <3>3. QED
        BY <2>3, <3>2
  <2>5. \A a \in Ends : out'[a] = out[a] \/ (out'[a].what \in {"none", "rst", "pong"} /\ Fits(a, out'[a]))
    <3>1. \A a \in Ends : out'[a] = out[a] \/ (a = e /\ out'[a] = Frame("rst", Arrived(e), recv(e)))
        BY <1>t, <2>2 DEF Shapes
    <3>2. Frame("rst", Arrived(e), recv(e)).what = "rst"
        BY DEF Frame
    <3>3. QED
        BY <2>4, <3>1, <3>2
  <2>6. \A a \in Ends : \A id \in streams'[a] : id \in streams[a] \/ ~OwnId(a, id) \/ id \in Taken(a)'
    <3>1. \A a \in Ends : \A id \in streams'[a] : id \in streams[a] \/ (a = e /\ id = Arrived(e))
        BY <1>t, <2>2 DEF Shapes
    <3>2. QED
        BY <2>3, <3>1
  <2>7. QED
      BY <2>1, <2>3, <2>5, <2>6, CarriedGoesOn
<1>11. ASSUME NEW e \in Ends, RecvPing(e)
       PROVE  Carried'
  <2>1. Arrives(e, "ping") /\ UNCHANGED <<sendCh, pingID, nextStreamID, pings, resets, streams>>
      BY <1>11 DEF RecvPing, pingVars, streamVars
  <2>2. out' = [out EXCEPT ![e] = Frame("pong", Arrived(e), recv(e))]
      BY <1>11 DEF RecvPing, Answer
  <2>3. (\A a \in Ends : Way(a)' \subseteq Way(a)) /\ Arrived(e) < pingID[Peer(e)]
      BY <1>9, <2>1
  <2>4. \A n : n < pingID[Peer(e)] => Fits(e, Frame("pong", n, recv(e)))
      BY <2>1 DEF Fits, Frame
  <2>5. \A a \in Ends : out'[a] = out[a] \/ (out'[a].what \in {"none", "rst", "pong"} /\ Fits(a, out'[a]))
    <3>1. \A a \in Ends : out'[a] = out[a] \/ (a = e /\ out'[a] = Frame("pong", Arrived(e), recv(e)))
        BY <1>t, <2>2 DEF Shapes
    <3>2. Frame("pong", Arrived(e), recv(e)).what = "pong"
        BY DEF Frame
    <3>3. QED
        BY <2>3, <2>4, <3>1, <3>2
  <2>6. QED
      BY <2>1, <2>3, <2>5, CarriedGoesOn
<1>12. ASSUME NEW e \in Ends, RecvRst(e)
       PROVE  Carried'
  <2>1. Arrives(e, "rst") /\ UNCHANGED <<sendCh, pingID, nextStreamID, pings, out>>
      BY <1>12 DEF RecvRst, pingVars, recvVars
  <2>2. /\ streams' = [streams EXCEPT ![e] = streams[e] \ {Arrived(e)}]
        /\ resets' = [resets EXCEPT ![e] = resets[e] \cup {Arrived(e)}]
      BY <1>12 DEF RecvRst
  <2>3. /\ \A a \in Ends : Way(a)' \subseteq Way(a) /\ Taken(a)' = Taken(a)
        /\ Arrived(e) \in Taken(e)
      BY <1>9, <2>1
  <2>4. \A a \in Ends : /\ \A id \in streams'[a] : id \in streams[a]
                        /\ \A id \in resets'[a] : id \in resets[a] \/ id \in Taken(a)'
      BY <1>t, <2>2, <2>3 DEF Shapes, Sorts
  <2>5. QED
      BY <2>1, <2>3, <2>4, CarriedGoesOn
<1>13. ASSUME NEW e \in Ends, RecvAck(e) \/ RecvPong(e) \/ RecvGoAway(e)
       PROVE  Carried'
  <2>1. (\E k : Arrives(e, k)) /\ UNCHANGED <<sendCh, pingID, nextStreamID, streams, resets, out>>
      BY <1>13 DEF RecvAck, RecvPong, RecvGoAway, pingVars, recvVars, streamVars
  <2>2. \A a \in Ends : \A id \in pings'[a] : id \in pings[a]
      BY <1>13 DEF RecvAck, RecvPong, RecvGoAway, pingVars, Sorts
  <2>3. \A a \in Ends : Way(a)' \subseteq Way(a)
      BY <1>9, <2>1
  <2>4. QED
      BY <2>1, <2>2, <2>3, CarriedGoesOn
<1>14. QED
    BY <1>2, <1>3, <1>4, <1>5, <1>6, <1>7, <1>8, <1>10, <1>11, <1>12, <1>13, EndsFacts DEF Next, Recv

-----------------------------------------------------------------------------
(* What a stream has copies of, and no two of them. *)
LEMMA StreamParts ==
    \A e \in Ends, id \in Nat :
        /\ Num(Opening(e, id, {"register", "enqueue"})) \in Nat
        /\ Queued(e, "syn", id) \in Nat /\ Bit(id \in streams[Peer(e)]) \in {0, 1}
        /\ Queued(Peer(e), "rst", id) \in Nat /\ Is(out[Peer(e)], "rst", id) \in {0, 1}
        /\ Bit(id \in resets[e]) \in {0, 1}
BY Counting, QueuedNat, IsBit

(* An opener that is about to announce its stream. *)
Announcing(t) == req[t].what = "syn" /\ pc[t] \in {"register", "enqueue"}

(* Openings stay where no opener begins or ends to announce. *)
LEMMA OpeningStays ==
    ASSUME \A t \in Openers : \/ pc'[t] = pc[t] /\ req'[t] = req[t]
                              \/ ~Announcing(t) /\ ~Announcing(t)'
    PROVE  \A e \in Ends, id \in Nat :
              /\ Opening(e, id, {"register", "enqueue"})' = Opening(e, id, {"register", "enqueue"})
              /\ Opening(e, id, {"register"})' = Opening(e, id, {"register"})
BY DEF Opening, Announcing

(* A stream stays where none of its copies moves. *)
LEMMA FatesStay ==
    ASSUME StreamFates, UNCHANGED <<nextStreamID, streams, resets, failed>>,
           \A e \in Ends, id \in Nat :
              /\ Opening(e, id, {"register", "enqueue"})' = Opening(e, id, {"register", "enqueue"})
              /\ Opening(e, id, {"register"})' = Opening(e, id, {"register"}),
           \A e \in Ends, id \in Nat :
              /\ Queued(e, "syn", id) <= 1 => Queued(e, "syn", id)' = Queued(e, "syn", id)
              /\ Queued(e, "rst", id) <= 1 => Queued(e, "rst", id)' = Queued(e, "rst", id)
              /\ Is(out[e], "rst", id)' = Is(out[e], "rst", id)
    PROVE  StreamFates'
<1>1. \A e \in Ends : Taken(e)' = Taken(e) /\ failed'[e] = failed[e] /\ Peer(e) \in Ends
    BY EndsFacts DEF Taken, OwnId
<1>2. ASSUME NEW e \in Ends, NEW id \in Taken(e)
      PROVE  StreamFate(e, id)'
  <2>1. id \in Nat /\ StreamFate(e, id)
      BY <1>2 DEF StreamFates, Taken
  <2>2. Queued(e, "syn", id) <= 1 /\ Queued(Peer(e), "rst", id) <= 1
      BY <2>1, StreamParts DEF StreamFate, StreamCopies
  <2>3. StreamCopies(e, id)' = StreamCopies(e, id)
      BY <1>1, <2>1, <2>2 DEF StreamCopies
  <2>4. QED
      BY <2>1, <2>3 DEF StreamFate
<1>3. QED
    BY <1>1, <1>2 DEF StreamFates

(* Steps of callers and of send that move no stream. *)
LEMMA IdleFates ==
    ASSUME LinkInv, Sorts, Turns, Calls, StreamFates,
           NEW t \in Tasks,
           OpenCheck(t) \/ OpenLoad(t) \/ AcceptStream(t) \/ Ping(t) \/ PingReturns(t) \/ GoAway(t)
    PROVE  StreamFates'
<1>1. \A u \in Tasks : u # t => pc'[u] = pc[u] /\ req'[u] = req[u]
    BY DEF LinkInv, Shapes, Goto, Asks, OpenCheck, OpenLoad, AcceptStream, Ping, PingReturns, GoAway
<1>2. UNCHANGED <<nextStreamID, sendCh, wire, out, streams, resets, failed>>
    BY DEF OpenCheck, OpenLoad, AcceptStream, Ping, PingReturns, GoAway, streamVars, queueVars, recvVars
<1>3. ~Announcing(t) /\ ~Announcing(t)'
  <2>1. pc[t] \in {"idle", "load", "answer"}
      BY DEF OpenCheck, OpenLoad, AcceptStream, Ping, PingReturns, GoAway
  <2>2. pc'[t] \notin {"register", "enqueue"} \/ req'[t].what # "syn"
      BY DEF LinkInv, Shapes, Goto, Asks, OpenCheck, OpenLoad, AcceptStream, Ping, PingReturns, GoAway, Frame
  <2>3. QED
      BY <2>1, <2>2 DEF Announcing
<1>4. \A u \in Openers : u \in Tasks
    BY EndsFacts
<1>5. QED
    BY <1>1, <1>2, <1>3, <1>4, OpeningStays, FatesStay DEF Queued

(* What send does moves no stream. *)
LEMMA SendFates ==
    ASSUME LinkInv, Sorts, Turns, Calls, StreamFates, NEW e \in Ends, SendTake(e) \/ SendDone(e)
    PROVE  StreamFates'
<1>1. UNCHANGED <<nextStreamID, streams, resets, failed, out>>
    BY DEF SendTake, SendDone, streamVars, recvVars
<1>2. CASE SendTake(e)
  <2>1. UNCHANGED <<pc, req>>
      BY <1>2 DEF SendTake, taskVars
  <2>2. Shapes
      BY DEF LinkInv
  <2>3. QED
      BY <1>1, <1>2, <2>1, <2>2, OpeningStays, TakeCount, FatesStay DEF Is, Opening
<1>3. CASE SendDone(e)
  <2>1. /\ pc' = [t \in Tasks |-> IF t = writing[e] THEN Replied(t) ELSE pc[t]]
        /\ req' = [t \in Tasks |-> IF t = writing[e] /\ req[t].what # "ping" THEN NoFrame ELSE req[t]]
        /\ UNCHANGED <<sendCh, wire>>
      BY <1>3 DEF SendDone
  <2>2. \A t \in Tasks : t = writing[e] => pc[t] = "await"
      BY DEF Turns, Turn
  <2>3. \A t \in Tasks : Replied(t) \notin {"register", "enqueue"}
      BY DEF Replied
  <2>4. \A t \in Tasks : \/ pc'[t] = pc[t] /\ req'[t] = req[t]
                         \/ ~Announcing(t) /\ ~Announcing(t)'
      BY <2>1, <2>2, <2>3 DEF Announcing
  <2>5. \A t \in Openers : t \in Tasks
      BY EndsFacts
  <2>6. QED
      BY <1>1, <2>1, <2>4, <2>5, OpeningStays, FatesStay DEF Queued
<1>4. QED
    BY <1>2, <1>3

(* A frame that is read, and is none of a stream's, moves no stream. *)
LEMMA ReadFates ==
    ASSUME LinkInv, Sorts, Carried, StreamFates, NEW e \in Ends,
           RecvAck(e) \/ RecvPing(e) \/ RecvPong(e) \/ RecvGoAway(e)
    PROVE  StreamFates'
<1>1. UNCHANGED <<pc, req, nextStreamID, streams, resets, failed, sendCh>>
    BY DEF RecvAck, RecvPing, RecvPong, RecvGoAway, taskVars, streamVars, recvVars
<1>2. PICK k : Arrives(e, k) /\ k \notin {"syn", "rst"}
    BY DEF RecvAck, RecvPing, RecvPong, RecvGoAway
<1>3. \A a \in Ends, id \in Nat :
        /\ Queued(a, "syn", id) <= 1 => Queued(a, "syn", id)' = Queued(a, "syn", id)
        /\ Queued(a, "rst", id) <= 1 => Queued(a, "rst", id)' = Queued(a, "rst", id)
  <2>1. \A id : Bit("syn" = k /\ id = Arrived(e)) = 0 /\ Bit("rst" = k /\ id = Arrived(e)) = 0
      BY <1>2 DEF Bit
  <2>2. \A a \in Ends : a = e \/ a = Peer(e)
      BY EndsFacts
  <2>3. Shapes
      BY DEF LinkInv
  <2>4. QED
      BY <1>1, <1>2, <2>1, <2>2, <2>3, ReadCount, QueuedNat
<1>4. \A a \in Ends, id \in Nat : Is(out[a], "rst", id)' = Is(out[a], "rst", id)
  <2>1. out' = out \/ (out[e] = NoFrame /\ out' = [out EXCEPT ![e] = Frame("pong", Arrived(e), recv(e))])
      BY DEF RecvAck, RecvPing, RecvPong, RecvGoAway, recvVars, Answer, Arrives
  <2>2. \A a \in Ends : out'[a] = out[a] \/ (out[a].what # "rst" /\ out'[a].what # "rst")
      BY <2>1 DEF LinkInv, Shapes, NoFrame, Frame
  <2>3. QED
      BY <2>2 DEF Is
<1>5. QED
    BY <1>1, <1>3, <1>4, FatesStay DEF Opening

(* While an opener is about to announce its stream, the stream is nowhere
   else, and nobody else's. *)
LEMMA OneOpener ==
    ASSUME StreamFates, NEW e \in Ends, NEW id \in Taken(e),
           NEW t \in Opening(e, id, {"register", "enqueue"})
    PROVE  /\ Opening(e, id, {"register", "enqueue"}) = {t}
           /\ Num(Opening(e, id, {"register", "enqueue"})) = 1
           /\ Queued(e, "syn", id) = 0 /\ Queued(Peer(e), "rst", id) = 0
           /\ id \notin streams[Peer(e)] /\ id \notin resets[e]
<1> DEFINE o == Opening(e, id, {"register", "enqueue"})
<1>1. id \in Nat /\ StreamCopies(e, id) = 1
    BY DEF StreamFates, StreamFate, Taken
<1>2. o # {}
    OBVIOUS
<1>3. Num(o) # 0 /\ Num(o) \in Nat
    BY <1>2, Counting
<1>4. /\ Num(o) = 1 /\ Queued(e, "syn", id) = 0 /\ Queued(Peer(e), "rst", id) = 0
      /\ Bit(id \in streams[Peer(e)]) = 0 /\ Bit(id \in resets[e]) = 0
    BY <1>1, <1>3, StreamParts DEF StreamCopies
<1>5. PICK x : o = {x}
    BY <1>4, Counting
<1>6. id \notin streams[Peer(e)] /\ id \notin resets[e]
    BY <1>4 DEF Bit
<1>7. QED
    BY <1>4, <1>5, <1>6

(* A stream's announcement is queued by the one opener that has its id. *)
LEMMA EnqueueFates ==
    ASSUME LinkInv, Sorts, Calls, StreamFates, NEW t \in Tasks, Enqueue(t)
    PROVE  StreamFates'
<1> DEFINE a == t[1]
<1> PICK n : n = req[t].id
    OBVIOUS
<1>0. /\ a \in Ends /\ req[t] \in Frames /\ Shapes
      /\ \A e \in Ends : Peer(e) \in Ends /\ Peer(e) # e
      /\ \A u \in Openers : u \in Tasks
    BY EndsFacts DEF LinkInv, Shapes
<1>1. /\ UNCHANGED <<req, nextStreamID, streams, resets, failed, out, wire>>
      /\ pc[t] = "enqueue" /\ pc' = [pc EXCEPT ![t] = "await"]
      /\ sendCh' = [sendCh EXCEPT ![a] = Append(sendCh[a], req[t])]
    BY DEF Enqueue, Goto, streamVars, recvVars
<1>2. /\ \A e \in Ends : \A what, id : e # a => Queued(e, what, id)' = Queued(e, what, id)
      /\ \A what, id : Queued(a, what, id) + Is(req[t], what, id) <= 1 =>
            Queued(a, what, id)' = Queued(a, what, id) + Is(req[t], what, id)
    BY <1>0, <1>1, PutCount
<1>3. \A id : Is(req[t], "rst", id) = 0
    BY DEF Calls, Call, Is, Bit
<1>4. CASE req[t].what # "syn"
  <2>1. \A id : Is(req[t], "syn", id) = 0
      BY <1>4 DEF Is, Bit
  <2>2. \A u \in Openers : \/ pc'[u] = pc[u] /\ req'[u] = req[u]
                           \/ ~Announcing(u) /\ ~Announcing(u)'
      BY <1>0, <1>1, <1>4 DEF Shapes, Announcing
  <2>3. \A e \in Ends, id \in Nat :
          /\ Queued(e, "syn", id) <= 1 => Queued(e, "syn", id)' = Queued(e, "syn", id)
          /\ Queued(e, "rst", id) <= 1 => Queued(e, "rst", id)' = Queued(e, "rst", id)
      BY <1>2, <1>3, <2>1, QueuedNat
  <2>4. QED
      BY <1>1, <2>2, <2>3, OpeningStays, FatesStay DEF Is
<1>5. CASE req[t].what = "syn"
  <2>1. t \in Openers
      BY <1>5 DEF Calls, Call
  <2>2. \A e \in Ends : Taken(e)' = Taken(e) /\ failed'[e] = failed[e]
      BY <1>1 DEF Taken, OwnId
  <2>3. ASSUME NEW e \in Ends, NEW id \in Taken(e), ~(e = a /\ id = n)
        PROVE  StreamFate(e, id)'
    <3>1. id \in Nat /\ StreamFate(e, id)
        BY <2>3 DEF StreamFates, Taken
    <3>2. /\ Opening(e, id, {"register", "enqueue"})' = Opening(e, id, {"register", "enqueue"})
          /\ Opening(e, id, {"register"})' = Opening(e, id, {"register"})
        BY <1>0, <1>1, <2>3 DEF Opening, Shapes
    <3>3. Queued(e, "syn", id) <= 1 /\ Queued(Peer(e), "rst", id) <= 1
        BY <3>1, StreamParts DEF StreamFate, StreamCopies
    <3>4. Queued(e, "syn", id)' = Queued(e, "syn", id)
      <4>1. e = a => Is(req[t], "syn", id) = 0
          BY <2>3 DEF Is, Bit
      <4>2. QED
          BY <1>2, <3>3, <4>1, QueuedNat
    <3>5. Queued(Peer(e), "rst", id)' = Queued(Peer(e), "rst", id)
        BY <1>0, <1>2, <1>3, <3>3, QueuedNat
    <3>6. StreamCopies(e, id)' = StreamCopies(e, id)
        BY <1>1, <3>2, <3>4, <3>5 DEF StreamCopies, Is
    <3>7. QED
        BY <1>1, <3>1, <3>2, <3>6 DEF StreamFate
  <2>4. ASSUME n \in Taken(a)
        PROVE  StreamFate(a, n)'
    <3>1. n \in Nat /\ StreamFate(a, n)
        BY <1>0, <2>4 DEF StreamFates, Taken
    <3>2. t \in Opening(a, n, {"register", "enqueue"}) /\ Is(req[t], "syn", n) = 1
        BY <1>1, <1>5, <2>1 DEF Opening, Is, Bit
    <3>3. Num(Opening(a, n, {"register", "enqueue"})) = 1 /\ Queued(a, "syn", n) = 0 /\ Queued(Peer(a), "rst", n) = 0
        BY <1>0, <2>4, <3>2, OneOpener
    <3>4. Opening(a, n, {"register", "enqueue"}) = {t}
        BY <1>0, <2>4, <3>2, OneOpener
    <3>5. Opening(a, n, {"register", "enqueue"})' = {} /\ Opening(a, n, {"register"})' = {}
      <4>1. \A u \in Openers : u # t => ~(u[1] = a /\ Announcing(u) /\ req[u].id = n)
          BY <3>4 DEF Opening, Announcing
      <4>2. QED
          BY <1>0, <1>1, <4>1 DEF Opening, Announcing, Shapes
    <3>6. Opening(a, n, {"register"}) = {}
        BY <1>1, <3>4 DEF Opening
    <3>7. Queued(a, "syn", n)' = 1 /\ Queued(Peer(a), "rst", n)' = 0
      <4>1. Queued(a, "syn", n) + Is(req[t], "syn", n) <= 1
          BY <3>2, <3>3
      <4>2. Queued(a, "syn", n)' = Queued(a, "syn", n) + Is(req[t], "syn", n)
          BY <1>2, <4>1
      <4>3. Queued(Peer(a), "rst", n)' = Queued(Peer(a), "rst", n)
          BY <1>0, <1>2
      <4>4. QED
          BY <3>2, <3>3, <4>2, <4>3
    <3>8. StreamCopies(a, n)' = StreamCopies(a, n)
      <4>1. Num(Opening(a, n, {"register", "enqueue"})') = 0
          BY <3>5, Counting
      <4>2. QED
          BY <1>0, <1>1, <3>1, <3>3, <3>7, <4>1, StreamParts DEF StreamCopies, Is
    <3>9. QED
        BY <1>1, <3>1, <3>5, <3>6, <3>8 DEF StreamFate
  <2>5. QED
      BY <1>1, <2>2, <2>3, <2>4 DEF StreamFates
<1>6. QED
    BY <1>4, <1>5

(* A stream is registered by the one opener that has its id, and only once. *)
LEMMA RegisterFates ==
    ASSUME LinkInv, Sorts, Calls, StreamFates, NEW t \in Openers, OpenRegister(t)
    PROVE  StreamFates'
<1> DEFINE a == t[1]
<1> PICK n : n = req[t].id
    OBVIOUS
<1>0. /\ t \in Tasks /\ a \in Ends /\ Shapes
      /\ \A e \in Ends : Peer(e) \in Ends /\ Peer(e) # e /\ (e # a => Peer(e) = a)
      /\ \A u \in Openers : u \in Tasks
    BY EndsFacts DEF LinkInv
<1>1. /\ UNCHANGED <<req, nextStreamID, resets, failed, out, wire, sendCh>>
      /\ pc[t] = "register" /\ pc' = [pc EXCEPT ![t] = "enqueue"]
      /\ streams' = [streams EXCEPT ![a] = streams[a] \cup {n}]
    BY DEF OpenRegister, Goto, queueVars, recvVars
<1>2. req[t].what = "syn" /\ n \in Taken(a)
    BY <1>0, <1>1 DEF LinkInv, IdsTaken, TaskIds, Calls, Call, Numbered
<1>3. \A e \in Ends : Taken(e)' = Taken(e) /\ failed'[e] = failed[e]
    BY <1>1 DEF Taken, OwnId
<1>4. ASSUME NEW e \in Ends, NEW id \in Taken(e)
      PROVE  StreamFate(e, id)'
  <2>1. id \in Nat /\ StreamFate(e, id)
      BY <1>4 DEF StreamFates, Taken
  <2>2. Opening(e, id, {"register", "enqueue"})' = Opening(e, id, {"register", "enqueue"})
      BY <1>0, <1>1 DEF Opening, Shapes
  <2>3. Bit(id \in streams[Peer(e)])' = Bit(id \in streams[Peer(e)])
    <3>1. CASE e = a
        BY <1>0, <1>1, <3>1
    <3>2. CASE e # a
      <4>1. id # n
          BY <1>0, <1>2, <1>4, <3>2, OtherId DEF Taken
      <4>2. QED
          BY <1>0, <1>1, <3>2, <4>1 DEF Shapes
    <3>3. QED
        BY <3>1, <3>2
  <2>4. StreamCopies(e, id)' = StreamCopies(e, id)
      BY <1>1, <2>2, <2>3 DEF StreamCopies, Is, Queued
  <2>5. CASE e = a /\ id = n
    <3>1. t \in Opening(a, n, {"register", "enqueue"}) /\ t \in Opening(a, n, {"register"})
        BY <1>1, <1>2 DEF Opening
    <3>3. Opening(a, n, {"register", "enqueue"}) = {t} /\ n \notin resets[a]
        BY <1>0, <1>2, <3>1, OneOpener
    <3>4. Opening(a, n, {"register"})' = {}
      <4>1. \A u \in Openers : u # t => ~(u[1] = a /\ Announcing(u) /\ req[u].id = n)
          BY <3>3 DEF Opening, Announcing
      <4>2. QED
          BY <1>0, <1>1, <4>1 DEF Opening, Announcing, Shapes
    <3>5. n \in streams'[a]
        BY <1>0, <1>1 DEF Shapes
    <3>6. QED
        BY <1>1, <2>1, <2>4, <2>5, <3>3, <3>4, <3>5 DEF StreamFate
  <2>6. CASE ~(e = a /\ id = n)
    <3>1. Opening(e, id, {"register"})' = Opening(e, id, {"register"})
        BY <1>0, <1>1, <2>6 DEF Opening, Shapes
    <3>2. id \in streams'[e] <=> id \in streams[e]
        BY <1>0, <1>1, <2>6 DEF Shapes
    <3>3. QED
        BY <1>1, <2>1, <2>4, <3>1, <3>2 DEF StreamFate
  <2>7. QED
      BY <2>5, <2>6
<1>5. QED
    BY <1>3, <1>4, <1>1 DEF StreamFates

(* One copy, and no second one. *)
LEMMA OneCopy ==
    ASSUME StreamFates, NEW e \in Ends, NEW id \in Taken(e)
    PROVE  /\ id \in Nat /\ StreamFate(e, id)
           /\ Queued(e, "syn", id) <= 1 /\ Queued(Peer(e), "rst", id) <= 1
           /\ Queued(e, "syn", id) # 0 => id \notin streams[Peer(e)] /\ Is(out[Peer(e)], "rst", id) = 0
           /\ Queued(Peer(e), "rst", id) # 0 => id \notin resets[e]
<1>1. id \in Nat /\ StreamFate(e, id) /\ StreamCopies(e, id) = 1
    BY DEF StreamFates, StreamFate, Taken
<1>2. /\ Num(Opening(e, id, {"register", "enqueue"})) \in Nat
      /\ Queued(e, "syn", id) \in Nat /\ Bit(id \in streams[Peer(e)]) \in {0, 1}
      /\ Queued(Peer(e), "rst", id) \in Nat /\ Is(out[Peer(e)], "rst", id) \in {0, 1}
      /\ Bit(id \in resets[e]) \in {0, 1}
    BY <1>1, StreamParts
<1>3. Num(Opening(e, id, {"register", "enqueue"})) + Queued(e, "syn", id) + Bit(id \in streams[Peer(e)])
        + Queued(Peer(e), "rst", id) + Is(out[Peer(e)], "rst", id) + Bit(id \in resets[e]) = 1
    BY <1>1 DEF StreamCopies
<1>4. /\ Queued(e, "syn", id) <= 1 /\ Queued(Peer(e), "rst", id) <= 1
      /\ Queued(e, "syn", id) # 0 => Bit(id \in streams[Peer(e)]) = 0 /\ Is(out[Peer(e)], "rst", id) = 0
      /\ Queued(Peer(e), "rst", id) # 0 => Bit(id \in resets[e]) = 0
    BY <1>2, <1>3
<1>5. QED
    BY <1>1, <1>4 DEF Bit

(* A frame of a stream that is read is the one copy of it. *)
LEMMA ReadOne ==
    ASSUME LinkInv, Carried, StreamFates, NEW e \in Ends, NEW k, Arrives(e, k), UNCHANGED <<sendCh, nextStreamID>>,
           NEW n, n = Arrived(e)
    PROVE  /\ k = "syn" => /\ n \in Taken(Peer(e)) /\ n \notin Taken(e)
                           /\ n \notin streams[e] /\ Is(out[e], "rst", n) = 0
           /\ k = "rst" => n \in Taken(e) /\ n \notin Taken(Peer(e)) /\ n \notin resets[e]
           /\ \A a \in Ends : \A id \in Taken(a) :
                 /\ Queued(a, "syn", id) = Queued(a, "syn", id)' + Bit(a = Peer(e) /\ k = "syn" /\ id = n)
                 /\ Queued(Peer(a), "rst", id) = Queued(Peer(a), "rst", id)' + Bit(a = e /\ k = "rst" /\ id = n)
<1> DEFINE p == Peer(e)
<1>0. /\ p \in Ends /\ p # e /\ Peer(p) = e /\ Shapes
      /\ \A a \in Ends : (a = e \/ a = p) /\ Peer(a) \in Ends
    BY EndsFacts DEF LinkInv
<1>1. /\ \A what, id : Queued(e, what, id)' = Queued(e, what, id)
      /\ \A what, id : Queued(p, what, id) <= 1 =>
            Queued(p, what, id) = Queued(p, what, id)' + Bit(what = k /\ id = n)
    BY <1>0, ReadCount
<1>2. \A a \in Ends : \A id \in Taken(a) :
        /\ id \in Nat /\ StreamFate(a, id) /\ Queued(a, "syn", id) <= 1 /\ Queued(Peer(a), "rst", id) <= 1
    BY OneCopy
<1>3. \A a \in Ends : \A id \in Taken(a) :
        /\ Queued(a, "syn", id) = Queued(a, "syn", id)' + Bit(a = p /\ k = "syn" /\ id = n)
        /\ Queued(Peer(a), "rst", id) = Queued(Peer(a), "rst", id)' + Bit(a = e /\ k = "rst" /\ id = n)
  <2>1. ASSUME NEW id \in Taken(p)
        PROVE  /\ Queued(p, "syn", id) = Queued(p, "syn", id)' + Bit(p = p /\ k = "syn" /\ id = n)
               /\ Queued(e, "rst", id) = Queued(e, "rst", id)' + Bit(p = e /\ k = "rst" /\ id = n)
    <3>1. Queued(p, "syn", id) = Queued(p, "syn", id)' + Bit("syn" = k /\ id = n)
        BY <1>0, <1>1, <1>2
    <3>2. Bit(p = e /\ k = "rst" /\ id = n) = 0
        BY <1>0 DEF Bit
    <3>3. QED
        BY <1>1, <3>1, <3>2, QueuedNat DEF Bit
  <2>2. ASSUME NEW id \in Taken(e)
        PROVE  /\ Queued(e, "syn", id) = Queued(e, "syn", id)' + Bit(e = p /\ k = "syn" /\ id = n)
               /\ Queued(p, "rst", id) = Queued(p, "rst", id)' + Bit(e = e /\ k = "rst" /\ id = n)
    <3>1. Queued(p, "rst", id) = Queued(p, "rst", id)' + Bit("rst" = k /\ id = n)
        BY <1>0, <1>1, <1>2
    <3>2. Bit(e = p /\ k = "syn" /\ id = n) = 0
        BY <1>0 DEF Bit
    <3>3. QED
        BY <1>1, <3>1, <3>2, QueuedNat DEF Bit
  <2>3. QED
      BY <1>0, <2>1, <2>2
<1>4. /\ Head(wire[p]) \in Way(p) /\ Head(wire[p]).what = k /\ Head(wire[p]).id = n /\ n \in Nat
    BY <1>0, ArrivesWay DEF Arrived
<1>5. Carries(p, Head(wire[p]))
    BY <1>0, <1>4 DEF Carried
<1>6. \A a \in Ends : n \in Taken(a) => n \notin Taken(Peer(a))
    BY OtherId DEF Taken
<1>7. ASSUME k = "syn"
      PROVE  n \in Taken(p) /\ n \notin Taken(e) /\ n \notin streams[e] /\ Is(out[e], "rst", n) = 0
  <2>1. n \in Taken(p) /\ n \notin Taken(e)
      BY <1>0, <1>4, <1>5, <1>6, <1>7 DEF Carries
  <2>2. Queued(p, "syn", n) # 0
    <3>1. Bit(p = p /\ k = "syn" /\ n = n) = 1
        BY <1>7 DEF Bit
    <3>2. Queued(p, "syn", n) = Queued(p, "syn", n)' + Bit(p = p /\ k = "syn" /\ n = n)
        BY <1>0, <1>3, <2>1
    <3>3. QED
        BY <3>1, <3>2, QueuedNat
  <2>3. QED
      BY <1>0, <2>1, <2>2, OneCopy
<1>8. ASSUME k = "rst"
      PROVE  n \in Taken(e) /\ n \notin Taken(p) /\ n \notin resets[e]
  <2>1. n \in Taken(e) /\ n \notin Taken(p)
      BY <1>0, <1>4, <1>5, <1>6, <1>8 DEF Carries
  <2>2. Queued(p, "rst", n) # 0
    <3>1. Bit(e = e /\ k = "rst" /\ n = n) = 1
        BY <1>8 DEF Bit
    <3>2. Queued(p, "rst", n) = Queued(p, "rst", n)' + Bit(e = e /\ k = "rst" /\ n = n)
        BY <1>3, <2>1
    <3>3. QED
        BY <3>1, <3>2, QueuedNat
  <2>3. QED
      BY <2>1, <2>2, OneCopy
<1>9. QED
    BY <1>3, <1>7, <1>8

(* A stream announced is accepted, or its refusal goes out; it was never
   there before. *)
LEMMA SynFates ==
    ASSUME LinkInv, Sorts, Carried, StreamFates, NEW e \in Ends, RecvSyn(e)
    PROVE  StreamFates'
<1> DEFINE p == Peer(e)
<1> PICK n : n = Arrived(e)
    OBVIOUS
<1>0. /\ p \in Ends /\ p # e /\ Peer(p) = e /\ Shapes
      /\ \A a \in Ends : (a = e \/ a = p) /\ Peer(a) \in Ends
    BY EndsFacts DEF LinkInv
<1>1. /\ Arrives(e, "syn") /\ out[e] = NoFrame
      /\ UNCHANGED <<pc, req, nextStreamID, resets, sendCh>>
    BY DEF RecvSyn, Arrives, taskVars
<1>2. /\ n \in Taken(p) /\ n \notin Taken(e) /\ n \notin streams[e]
      /\ \A a \in Ends : \A id \in Taken(a) :
           /\ Queued(a, "syn", id) = Queued(a, "syn", id)' + Bit(a = p /\ id = n)
           /\ Queued(Peer(a), "rst", id) = Queued(Peer(a), "rst", id)'
  <2>1. \A a, id : Bit(a = e /\ "syn" = "rst" /\ id = n) = 0
      BY DEF Bit
  <2>2. \A a, id : Bit(a = p /\ "syn" = "syn" /\ id = n) = Bit(a = p /\ id = n)
      BY DEF Bit
  <2>3. QED
      BY <1>1, <2>1, <2>2, ReadOne, QueuedNat
<1>3. \/ /\ out' = [out EXCEPT ![e] = Frame("rst", n, recv(e))]
         /\ UNCHANGED <<streams, failed>>
      \/ /\ streams' = [streams EXCEPT ![e] = streams[e] \cup {n}]
         /\ UNCHANGED <<out, failed>>
    BY <1>2 DEF RecvSyn, Answer
<1>4. \A a \in Ends : Taken(a)' = Taken(a) /\ failed'[a] = failed[a]
    BY <1>1, <1>3 DEF Taken, OwnId
<1>5. \A a \in Ends, id \in Nat :
        /\ Opening(a, id, {"register", "enqueue"})' = Opening(a, id, {"register", "enqueue"})
        /\ Opening(a, id, {"register"})' = Opening(a, id, {"register"})
    BY <1>1 DEF Opening
<1>6. \A id \in Nat : Is(out[e], "rst", id) = 0
    BY <1>1 DEF Is, Bit, NoFrame, Frame
<1>7. \A id \in Nat : Bit(id \in streams'[e]) + Is(out'[e], "rst", id)
                        = Bit(id \in streams[e]) + Is(out[e], "rst", id) + Bit(id = n)
  <2>1. CASE out' = [out EXCEPT ![e] = Frame("rst", n, recv(e))] /\ streams' = streams
    <3>1. \A id : Is(out'[e], "rst", id) = Bit(id = n)
        BY <1>0, <2>1 DEF Is, Shapes, Frame, Bit
    <3>2. QED
        BY <1>6, <2>1, <3>1, Counting
  <2>2. CASE streams' = [streams EXCEPT ![e] = streams[e] \cup {n}] /\ out' = out
    <3>1. \A id : Bit(id \in streams'[e]) = Bit(id \in streams[e]) + Bit(id = n)
        BY <1>0, <1>2, <2>2 DEF Shapes, Bit
    <3>2. QED
        BY <1>6, <2>2, <3>1, Counting
  <2>3. QED
      BY <1>3, <2>1, <2>2
<1>8. \A a \in Ends : a # e => streams'[a] = streams[a] /\ out'[a] = out[a]
    BY <1>0, <1>3 DEF Shapes
<1>9. ASSUME NEW a \in Ends, NEW id \in Taken(a)
      PROVE  StreamFate(a, id)'
  <2>1. id \in Nat /\ StreamFate(a, id)
      BY <1>9 DEF StreamFates, Taken
  <2>2. StreamCopies(a, id)' = StreamCopies(a, id)
    <3>0. /\ Queued(a, "syn", id) = Queued(a, "syn", id)' + Bit(a = p /\ id = n)
          /\ Queued(Peer(a), "rst", id) = Queued(Peer(a), "rst", id)'
          /\ Opening(a, id, {"register", "enqueue"})' = Opening(a, id, {"register", "enqueue"})
        BY <1>2, <1>5, <1>9, <2>1
    <3>1. CASE a = p
      <4>1. Bit(a = p /\ id = n) = Bit(id = n)
          BY <3>1 DEF Bit
      <4>2. Bit(id \in streams[e])' + Is(out[e], "rst", id)'
              = Bit(id \in streams[e]) + Is(out[e], "rst", id) + Bit(id = n)
          BY <1>7, <2>1
      <4>3. Bit(id \in streams[e])' \in Nat /\ Is(out[e], "rst", id)' \in Nat /\ Bit(id = n) \in Nat
          BY Counting, IsBit
      <4>4. /\ Queued(p, "syn", id)' \in Nat /\ Queued(e, "rst", id)' \in Nat
            /\ Queued(p, "syn", id) \in Nat /\ Queued(e, "rst", id) \in Nat
            /\ Bit(id \in streams[e]) \in Nat /\ Is(out[e], "rst", id) \in Nat
            /\ Bit(id \in resets[p]) \in Nat /\ Num(Opening(p, id, {"register", "enqueue"})) \in Nat
          BY QueuedNat, Counting, IsBit
      <4>5. Queued(p, "syn", id) = Queued(p, "syn", id)' + Bit(id = n) /\ Queued(e, "rst", id) = Queued(e, "rst", id)'
          BY <1>0, <3>0, <3>1, <4>1
      <4>6. Bit(id \in resets[p])' = Bit(id \in resets[p])
          BY <1>1
      <4>7. StreamCopies(p, id)' = StreamCopies(p, id)
          BY <1>0, <3>0, <3>1, <4>2, <4>3, <4>4, <4>5, <4>6 DEF StreamCopies
      <4>8. QED
          BY <3>1, <4>7
    <3>2. CASE a = e
      <4>1. Bit(a = p /\ id = n) = 0
          BY <1>0, <3>2 DEF Bit
      <4>2. QED
          BY <1>0, <1>1, <1>8, <2>1, <3>0, <3>2, <4>1, QueuedNat DEF StreamCopies
    <3>3. QED
        BY <1>0, <3>1, <3>2
  <2>3. id \in streams'[a] <=> id \in streams[a]
    <3>1. a = e => id # n
        BY <1>2, <1>9
    <3>2. QED
        BY <1>0, <1>3, <3>1 DEF Shapes
  <2>4. QED
      BY <1>1, <1>5, <2>1, <2>2, <2>3 DEF StreamFate
<1>10. QED
    BY <1>4, <1>9 DEF StreamFates

(* What is not on the way counts nothing. *)
LEMMA NoneAt ==
    ASSUME Shapes, NEW e \in Ends, NEW what, NEW id, \A f \in Way(e) : ~(f.what = what /\ f.id = id)
    PROVE  Queued(e, what, id) = 0
<1>1. \A s \in Seq(Frames) : \A i \in 1..Len(s) : s[i] \in Over(s)
    BY DEF Over
<1>2. sendCh[e] \in Seq(Frames) /\ wire[e] \in Seq(Frames)
    BY DEF Shapes
<1>3. At(sendCh[e], what, id) = {} /\ At(wire[e], what, id) = {}
    BY <1>1, <1>2 DEF At, Way
<1>4. QED
    BY <1>3, Counting DEF Queued

(* A refusal that arrives makes the opener forget its stream. *)
LEMMA RstFates ==
    ASSUME LinkInv, Sorts, Carried, StreamFates, NEW e \in Ends, RecvRst(e)
    PROVE  StreamFates'
<1> DEFINE p == Peer(e)
<1> PICK n : n = Arrived(e)
    OBVIOUS
<1>0. /\ p \in Ends /\ p # e /\ Peer(p) = e /\ Shapes
      /\ \A a \in Ends : (a = e \/ a = p) /\ Peer(a) \in Ends
    BY EndsFacts DEF LinkInv
<1>1. /\ Arrives(e, "rst") /\ UNCHANGED <<pc, req, nextStreamID, failed, out, sendCh>>
      /\ streams' = [streams EXCEPT ![e] = streams[e] \ {n}]
      /\ resets' = [resets EXCEPT ![e] = resets[e] \cup {n}]
    BY DEF RecvRst, taskVars, recvVars
<1>2. /\ n \in Taken(e) /\ n \notin Taken(p) /\ n \notin resets[e]
      /\ \A a \in Ends : \A id \in Taken(a) :
           /\ Queued(a, "syn", id) = Queued(a, "syn", id)'
           /\ Queued(Peer(a), "rst", id) = Queued(Peer(a), "rst", id)' + Bit(a = e /\ id = n)
  <2>1. \A a, id : Bit(a = p /\ "rst" = "syn" /\ id = n) = 0
      BY DEF Bit
  <2>2. \A a, id : Bit(a = e /\ "rst" = "rst" /\ id = n) = Bit(a = e /\ id = n)
      BY DEF Bit
  <2>3. QED
      BY <1>1, <2>1, <2>2, ReadOne, QueuedNat
<1>3. \A a \in Ends : Taken(a)' = Taken(a) /\ failed'[a] = failed[a]
    BY <1>1 DEF Taken, OwnId
<1>4. ASSUME NEW a \in Ends, NEW id \in Taken(a)
      PROVE  StreamFate(a, id)'
  <2>1. id \in Nat /\ StreamFate(a, id)
      BY <1>4, OneCopy
  <2>2. /\ Opening(a, id, {"register", "enqueue"})' = Opening(a, id, {"register", "enqueue"})
        /\ Opening(a, id, {"register"})' = Opening(a, id, {"register"})
      BY <1>1 DEF Opening
  <2>3. Bit(id \in resets[a])' = Bit(id \in resets[a]) + Bit(a = e /\ id = n)
    <3>1. id \in resets'[a] <=> id \in resets[a] \/ (a = e /\ id = n)
        BY <1>1 DEF Sorts
    <3>2. ~(id \in resets[a] /\ a = e /\ id = n)
        BY <1>2
    <3>3. QED
        BY <3>1, <3>2 DEF Bit
  <2>4. Bit(id \in streams[Peer(a)])' = Bit(id \in streams[Peer(a)])
    <3>1. Peer(a) = e => id # n
        BY <1>0, <1>2, <1>4
    <3>2. id \in streams'[Peer(a)] <=> id \in streams[Peer(a)]
        BY <1>0, <1>1, <3>1 DEF Shapes
    <3>3. QED
        BY <3>2 DEF Bit
  <2>5. StreamCopies(a, id)' = StreamCopies(a, id)
    <3>1. /\ Queued(a, "syn", id)' \in Nat /\ Queued(Peer(a), "rst", id)' \in Nat
          /\ Queued(a, "syn", id) \in Nat /\ Queued(Peer(a), "rst", id) \in Nat
          /\ Bit(id \in streams[Peer(a)]) \in Nat /\ Is(out[Peer(a)], "rst", id) \in Nat
          /\ Bit(id \in resets[a]) \in Nat /\ Num(Opening(a, id, {"register", "enqueue"})) \in Nat
          /\ Bit(a = e /\ id = n) \in Nat
        BY QueuedNat, Counting, IsBit
    <3>2. /\ Queued(a, "syn", id) = Queued(a, "syn", id)'
          /\ Queued(Peer(a), "rst", id) = Queued(Peer(a), "rst", id)' + Bit(a = e /\ id = n)
        BY <1>2, <1>4
    <3>3. Is(out[Peer(a)], "rst", id)' = Is(out[Peer(a)], "rst", id)
        BY <1>1
    <3>4. QED
        BY <2>2, <2>3, <2>4, <3>1, <3>2, <3>3 DEF StreamCopies
  <2>6. id \in streams'[a] <=> id \notin resets'[a] /\ Opening(a, id, {"register"}) = {}
    <3>1. id \in streams'[a] <=> id \in streams[a] /\ ~(a = e /\ id = n)
        BY <1>0, <1>1 DEF Shapes
    <3>2. id \in resets'[a] <=> id \in resets[a] \/ (a = e /\ id = n)
        BY <1>1 DEF Sorts
    <3>3. QED
        BY <2>1, <3>1, <3>2 DEF StreamFate
  <2>7. QED
      BY <2>1, <2>2, <2>5, <2>6 DEF StreamFate
<1>5. QED
    BY <1>1, <1>3, <1>4 DEF StreamFates

(* A refusal that was to go out is queued. *)
LEMMA NoWaitFates ==
    ASSUME LinkInv, Sorts, Carried, StreamFates, NEW e \in Ends, SendNoWait(e)
    PROVE  StreamFates'
<1> DEFINE p == Peer(e)
<1> PICK f : f = out[e]
    OBVIOUS
<1>0. /\ p \in Ends /\ p # e /\ Peer(p) = e /\ Shapes /\ f \in Frames
      /\ \A a \in Ends : (a = e \/ a = p) /\ Peer(a) \in Ends
    BY EndsFacts DEF LinkInv, Shapes
<1>1. /\ UNCHANGED <<pc, req, nextStreamID, failed, streams, resets, wire>>
      /\ sendCh' = [sendCh EXCEPT ![e] = Append(sendCh[e], f)]
      /\ out' = [out EXCEPT ![e] = NoFrame]
    BY DEF SendNoWait, taskVars
<1>2. /\ \A a \in Ends : \A what, id : a # e => Queued(a, what, id)' = Queued(a, what, id)
      /\ \A what, id : Queued(e, what, id) + Is(f, what, id) <= 1 =>
            Queued(e, what, id)' = Queued(e, what, id) + Is(f, what, id)
    BY <1>0, <1>1, PutCount
<1>3. \A id : Is(f, "syn", id) = 0
    BY DEF Carried, Is, Bit
<1>4. \A id : Is(out'[e], "rst", id) = 0
    BY <1>0, <1>1 DEF Is, Bit, NoFrame, Frame, Shapes
<1>5. \A a \in Ends : Taken(a)' = Taken(a) /\ failed'[a] = failed[a]
    BY <1>1 DEF Taken, OwnId
<1>6. ASSUME NEW a \in Ends, NEW id \in Taken(a)
      PROVE  StreamFate(a, id)'
  <2>1. /\ id \in Nat /\ StreamFate(a, id) /\ StreamCopies(a, id) = 1
        /\ Queued(a, "syn", id) <= 1 /\ Queued(Peer(a), "rst", id) <= 1
      BY <1>6, OneCopy DEF StreamFate
  <2>2. /\ Opening(a, id, {"register", "enqueue"})' = Opening(a, id, {"register", "enqueue"})
        /\ Opening(a, id, {"register"})' = Opening(a, id, {"register"})
      BY <1>1 DEF Opening
  <2>3. /\ Queued(a, "syn", id)' \in Nat /\ Queued(Peer(a), "rst", id)' \in Nat
        /\ Queued(a, "syn", id) \in Nat /\ Queued(Peer(a), "rst", id) \in Nat
        /\ Bit(id \in streams[Peer(a)]) \in Nat /\ Is(out[Peer(a)], "rst", id) \in Nat
        /\ Bit(id \in resets[a]) \in Nat /\ Num(Opening(a, id, {"register", "enqueue"})) \in Nat
      BY QueuedNat, Counting, IsBit
  <2>4. Queued(a, "syn", id)' = Queued(a, "syn", id)
    <3>1. CASE a = e
      <4>1. Queued(e, "syn", id) + Is(f, "syn", id) <= 1
          BY <1>3, <2>1, <2>3, <3>1
      <4>2. QED
          BY <1>2, <1>3, <2>3, <3>1, <4>1
    <3>2. QED
        BY <1>2, <3>1
  <2>5. Queued(Peer(a), "rst", id)' + Is(out[Peer(a)], "rst", id)' = Queued(Peer(a), "rst", id) + Is(out[Peer(a)], "rst", id)
    <3>1. CASE a = p
      <4>1. Queued(e, "rst", id) + Is(f, "rst", id) <= 1
          BY <1>0, <2>1, <2>3, <3>1 DEF StreamCopies
      <4>2. Queued(e, "rst", id)' = Queued(e, "rst", id) + Is(f, "rst", id)
          BY <1>2, <4>1
      <4>3. Is(out[e], "rst", id)' = 0 /\ Is(out[e], "rst", id) = Is(f, "rst", id)
          BY <1>4
      <4>4. QED
          BY <1>0, <2>3, <3>1, <4>2, <4>3
    <3>2. CASE a = e
      <4>1. Is(out[p], "rst", id)' = Is(out[p], "rst", id)
          BY <1>0, <1>1 DEF Shapes
      <4>2. Queued(p, "rst", id)' = Queued(p, "rst", id)
          BY <1>0, <1>2
      <4>3. QED
          BY <3>2, <4>1, <4>2
    <3>3. QED
        BY <1>0, <3>1, <3>2
  <2>6. StreamCopies(a, id)' = StreamCopies(a, id)
    <3>1. Is(out[Peer(a)], "rst", id)' \in Nat
        BY IsBit
    <3>2. Bit(id \in streams[Peer(a)])' = Bit(id \in streams[Peer(a)]) /\ Bit(id \in resets[a])' = Bit(id \in resets[a])
        BY <1>1
    <3>3. QED
        BY <2>2, <2>3, <2>4, <2>5, <3>1, <3>2 DEF StreamCopies
  <2>7. QED
      BY <1>1, <2>1, <2>2, <2>6 DEF StreamFate
<1>7. QED
    BY <1>5, <1>6, <1>1 DEF StreamFates

(* An id taken is new: no stream has had it, at either end. *)
LEMMA SwapFates ==
    ASSUME LinkInv, Sorts, Calls, Carried, StreamFates, NEW t \in Openers, OpenSwap(t)
    PROVE  StreamFates'
<1> DEFINE a == t[1]
<1> PICK n : n = req[t].id
    OBVIOUS
<1>0. /\ t \in Tasks /\ a \in Ends /\ Peer(a) \in Ends /\ Peer(a) # a /\ Peer(Peer(a)) = a /\ Shapes
      /\ \A u \in Openers : u \in Tasks
      /\ \A e \in Ends : Peer(e) \in Ends
    BY EndsFacts DEF LinkInv
<1>1. /\ UNCHANGED <<req, failed, streams, resets, sendCh, wire, out>> /\ pc[t] = "swap"
      /\ pc' = [pc EXCEPT ![t] = pc'[t]] /\ pc'[t] \in {"register", "load"}
    BY <1>0 DEF OpenSwap, Goto, streamVars, queueVars, recvVars, Shapes
<1>2. req[t].what = "syn" /\ n < MaxId - 1 /\ n \in Nat
    BY <1>0, <1>1 DEF LinkInv, IdsTaken, TaskIds, Shapes, Frames
<1>3. CASE nextStreamID[a] # n
  <2>1. UNCHANGED nextStreamID /\ pc'[t] = "load"
      BY <1>0, <1>3 DEF OpenSwap, Goto, Shapes
  <2>2. \A u \in Openers : \/ pc'[u] = pc[u] /\ req'[u] = req[u]
                           \/ ~Announcing(u) /\ ~Announcing(u)'
      BY <1>0, <1>1, <2>1 DEF Announcing, Shapes
  <2>3. QED
      BY <1>1, <2>1, <2>2, OpeningStays, FatesStay DEF Queued
<1>4. CASE nextStreamID[a] = n
  <2>1. nextStreamID' = [nextStreamID EXCEPT ![a] = n + 2] /\ pc' = [pc EXCEPT ![t] = "register"]
      BY <1>2, <1>4, NextId DEF OpenSwap, Goto
  <2>2. OwnId(a, n) /\ FirstId(a) <= n
      BY <1>0, <1>4 DEF LinkInv, IdsTaken, EndIds, Carried
  <2>3. \A e \in Ends : \A id \in Taken(e)' : id \in Taken(e) \/ (e = a /\ id = n)
    <3>1. \A id \in Nat : OwnId(a, id) /\ id < n + 2 /\ id # n => id < n
        BY <1>0, <1>2, <2>2 DEF OwnId, FirstId, Ends
    <3>2. SUFFICES ASSUME NEW e \in Ends, NEW id \in Taken(e)', ~(e = a /\ id = n)
                   PROVE  id \in Taken(e)
        OBVIOUS
    <3>3. id \in Nat /\ OwnId(e, id) /\ FirstId(e) <= id /\ id < nextStreamID'[e]
        BY DEF Taken, OwnId
    <3>4. CASE e = a
        BY <1>0, <1>4, <2>1, <3>1, <3>2, <3>3, <3>4 DEF Taken, Shapes
    <3>5. CASE e # a
        BY <1>0, <2>1, <3>3, <3>5 DEF Taken, Shapes
    <3>6. QED
        BY <3>4, <3>5
  <2>4. n \notin Taken(a) /\ n \notin Taken(Peer(a))
      BY <1>0, <1>2, <1>4, <2>2, OtherId DEF Taken
  <2>5. \A e \in Ends, id \in Nat : ~(e = a /\ id = n) =>
          /\ Opening(e, id, {"register", "enqueue"})' = Opening(e, id, {"register", "enqueue"})
          /\ Opening(e, id, {"register"})' = Opening(e, id, {"register"})
      BY <1>0, <1>1, <2>1 DEF Opening, Shapes
  <2>6. ASSUME NEW e \in Ends, NEW id \in Taken(e)
        PROVE  StreamFate(e, id)'
    <3>1. id \in Nat /\ StreamFate(e, id) /\ ~(e = a /\ id = n)
        BY <2>4, <2>6, OneCopy
    <3>2. StreamCopies(e, id)' = StreamCopies(e, id)
        BY <1>1, <2>5, <3>1 DEF StreamCopies, Queued
    <3>3. QED
        BY <1>1, <2>5, <3>1, <3>2 DEF StreamFate
  <2>7. StreamFate(a, n)'
    <3>1. Opening(a, n, {"register", "enqueue"})' = {t} /\ t \in Opening(a, n, {"register"})'
      <4>1. \A u \in Tasks : u # t /\ u[1] = a /\ Announcing(u) => req[u].id # n
          BY <2>4 DEF Calls, Call, Numbered, Announcing
      <4>2. QED
          BY <1>0, <1>1, <1>2, <2>1, <4>1 DEF Opening, Announcing, Shapes
    <3>2. Queued(a, "syn", n) = 0 /\ Queued(Peer(a), "rst", n) = 0
      <4>1. \A f \in Way(a) : ~(f.what = "syn" /\ f.id = n)
          BY <1>0, <2>4 DEF Carried, Carries
      <4>2. \A f \in Way(Peer(a)) : ~(f.what = "rst" /\ f.id = n)
          BY <1>0, <2>4 DEF Carried, Carries
      <4>3. QED
          BY <1>0, <4>1, <4>2, NoneAt
    <3>3. /\ n \notin streams[Peer(a)] /\ n \notin streams[a] /\ n \notin resets[a]
          /\ Is(out[Peer(a)], "rst", n) = 0
      <4>1. n \notin streams[a] /\ n \notin resets[a]
          BY <1>0, <2>2, <2>4 DEF Carried
      <4>2. \A id \in streams[Peer(a)] : OwnId(a, id) => id < nextStreamID[a]
          BY <1>0 DEF LinkInv, IdsTaken, EndIds
      <4>3. n \notin streams[Peer(a)]
          BY <1>2, <1>4, <2>2, <4>2
      <4>4. Is(out[Peer(a)], "rst", n) = 0
          BY <1>0, <2>4 DEF Carried, Carries, Is, Bit
      <4>5. QED
          BY <4>1, <4>3, <4>4
    <3>4. StreamCopies(a, n)' = 1
      <4>1. Num(Opening(a, n, {"register", "enqueue"})') = 1
          BY <3>1, Counting
      <4>2. Queued(a, "syn", n)' = 0 /\ Queued(Peer(a), "rst", n)' = 0 /\ Is(out[Peer(a)], "rst", n)' = 0
          BY <1>1, <3>2, <3>3 DEF Queued
      <4>3. Bit(n \in streams[Peer(a)])' = 0 /\ Bit(n \in resets[a])' = 0
          BY <1>1, <3>3 DEF Bit
      <4>4. QED
          BY <4>1, <4>2, <4>3 DEF StreamCopies
    <3>5. QED
        BY <1>1, <3>1, <3>3, <3>4 DEF StreamFate
  <2>8. \A e \in Ends : ~failed'[e]
      BY <1>1 DEF StreamFates
  <2>9. QED
    <3>1. ASSUME NEW e \in Ends, NEW id \in Taken(e)'
          PROVE  StreamFate(e, id)'
      <4>1. CASE id \in Taken(e)
          BY <2>6, <4>1
      <4>2. CASE e = a /\ id = n
          BY <2>7, <4>2
      <4>3. QED
          BY <2>3, <3>1, <4>1, <4>2
    <3>2. QED
        BY <2>8, <3>1 DEF StreamFates
<1>5. QED
    BY <1>3, <1>4

-----------------------------------------------------------------------------
(* What a ping has copies of, and no two of them. *)
LEMMA OnePing ==
    ASSUME PingFates, NEW t \in Tasks, req[t].what = "ping"
    PROVE  LET e == t[1] id == req[t].id IN
           /\ Bit(pc[t] = "enqueue") \in Nat /\ Queued(e, "ping", id) \in Nat /\ Queued(Peer(e), "pong", id) \in Nat
           /\ Is(out[Peer(e)], "pong", id) \in Nat /\ Bit(id \notin pings[e]) \in Nat
           /\ Bit(pc[t] = "enqueue") + Queued(e, "ping", id) + Queued(Peer(e), "pong", id)
                + Is(out[Peer(e)], "pong", id) + Bit(id \notin pings[e]) = 1
BY Counting, QueuedNat, IsBit DEF PingFates, PingCopies

(* A ping stays where none of its copies moves. *)
LEMMA PingsStay ==
    ASSUME PingFates, UNCHANGED pings,
           \A t \in Tasks : req'[t].what = "ping" =>
              req'[t] = req[t] /\ (pc'[t] = "enqueue" <=> pc[t] = "enqueue"),
           \A e \in Ends, id \in Nat :
              /\ Queued(e, "ping", id) <= 1 => Queued(e, "ping", id)' = Queued(e, "ping", id)
              /\ Queued(e, "pong", id) <= 1 => Queued(e, "pong", id)' = Queued(e, "pong", id)
              /\ Is(out[e], "pong", id)' = Is(out[e], "pong", id),
           Shapes
    PROVE  PingFates'
<1> SUFFICES ASSUME NEW t \in Tasks, req'[t].what = "ping"
             PROVE  PingCopies(t)' = 1
    BY DEF PingFates
<1> PICK e, id : e = t[1] /\ id = req[t].id
    OBVIOUS
<1>1. /\ req'[t] = req[t] /\ (pc'[t] = "enqueue" <=> pc[t] = "enqueue")
      /\ e \in Ends /\ Peer(e) \in Ends /\ id \in Nat
    BY EndsFacts DEF Shapes, Frames
<1>2. Queued(e, "ping", id) <= 1 /\ Queued(Peer(e), "pong", id) <= 1
    BY <1>1, OnePing
<1>3. /\ Queued(e, "ping", id)' = Queued(e, "ping", id) /\ Queued(Peer(e), "pong", id)' = Queued(Peer(e), "pong", id)
      /\ Is(out[Peer(e)], "pong", id)' = Is(out[Peer(e)], "pong", id)
    BY <1>1, <1>2
<1>4. Bit(pc[t] = "enqueue")' = Bit(pc[t] = "enqueue") /\ Bit(id \notin pings[e])' = Bit(id \notin pings[e])
    BY <1>1 DEF Bit
<1>5. PingCopies(t) = 1
    BY <1>1 DEF PingFates
<1>6. QED
    BY <1>1, <1>3, <1>4, <1>5 DEF PingCopies

(* Calls that ask for no ping, and a Ping that returns, move none. *)
LEMMA IdlePings ==
    ASSUME LinkInv, Calls, PingFates, NEW t \in Tasks,
           OpenCheck(t) \/ OpenLoad(t) \/ OpenSwap(t) \/ OpenRegister(t) \/ AcceptStream(t) \/ PingReturns(t) \/ GoAway(t)
    PROVE  PingFates'
<1>1. \A u \in Tasks : u # t => pc'[u] = pc[u] /\ req'[u] = req[u]
    BY DEF LinkInv, Shapes, Goto, Asks, OpenCheck, OpenLoad, OpenSwap, OpenRegister, AcceptStream, PingReturns, GoAway
<1>2. UNCHANGED <<sendCh, wire, out, pings>>
    BY DEF OpenCheck, OpenLoad, OpenSwap, OpenRegister, AcceptStream, PingReturns, GoAway, pingVars, queueVars, recvVars
<1>3. req'[t].what # "ping"
  <2>1. NoFrame.what # "ping" /\ \A id : Frame("syn", id, t).what # "ping" /\ Frame("ack", id, t).what # "ping"
                                         /\ Frame("goaway", id, t).what # "ping"
      BY DEF NoFrame, Frame
  <2>2. req[t].what = "ping" => pc[t] \in {"enqueue", "await", "answer"}
      BY DEF Calls, Call
  <2>3. CASE OpenCheck(t) \/ OpenLoad(t) \/ OpenSwap(t) \/ OpenRegister(t)
      BY <2>1, <2>2, <2>3 DEF LinkInv, Shapes, Asks, OpenCheck, OpenLoad, OpenSwap, OpenRegister
  <2>4. CASE AcceptStream(t) \/ PingReturns(t) \/ GoAway(t)
      BY <2>1, <2>4 DEF LinkInv, Shapes, Asks, AcceptStream, PingReturns, GoAway
  <2>5. QED
      BY <2>3, <2>4
<1>4. Shapes
    BY DEF LinkInv
<1>5. QED
    BY <1>1, <1>2, <1>3, <1>4, PingsStay DEF Queued

(* A ping asked for is new: its id is on the way nowhere. *)
LEMMA AskPings ==
    ASSUME LinkInv, Sorts, Calls, Carried, PingFates, NEW t \in Tasks, Ping(t)
    PROVE  PingFates'
<1> DEFINE a == t[1]
<1> PICK n : n = pingID[a]
    OBVIOUS
<1>0. /\ a \in Ends /\ n \in Nat /\ Peer(a) \in Ends /\ Peer(Peer(a)) = a /\ Shapes
      /\ \A u \in Tasks : u[1] \in Ends /\ req[u].id \in Nat
    BY EndsFacts DEF LinkInv, Shapes, Frames
<1>1. /\ pc' = [pc EXCEPT ![t] = "enqueue"] /\ req' = [req EXCEPT ![t] = Frame("ping", n, t)]
      /\ pings' = [pings EXCEPT ![a] = pings[a] \cup {n}]
      /\ UNCHANGED <<sendCh, wire, out>>
    BY DEF Ping, Goto, Asks, queueVars, recvVars
<1>2. ASSUME NEW u \in Tasks, u # t, req'[u].what = "ping"
      PROVE  PingCopies(u)' = 1
  <2>1. req'[u] = req[u] /\ pc'[u] = pc[u] /\ PingCopies(u) = 1
      BY <1>0, <1>1, <1>2 DEF PingFates, Shapes
  <2>2. u[1] = a => req[u].id # n
      BY <1>0, <1>2, <2>1 DEF Calls, Call
  <2>3. req[u].id \in pings'[u[1]] <=> req[u].id \in pings[u[1]]
      BY <1>0, <1>1, <2>2 DEF Sorts
  <2>4. PingCopies(u)' = PingCopies(u)
      BY <1>1, <2>1, <2>3 DEF PingCopies, Queued, Bit
  <2>5. QED
      BY <2>1, <2>4
<1>3. PingCopies(t)' = 1
  <2>1. /\ \A f \in Way(a) : ~(f.what = "ping" /\ f.id = n)
        /\ \A f \in Way(Peer(a)) : ~(f.what = "pong" /\ f.id = n)
        /\ ~(out[Peer(a)].what = "pong" /\ out[Peer(a)].id = n)
      BY <1>0 DEF Carried, Carries
  <2>2. Queued(a, "ping", n) = 0 /\ Queued(Peer(a), "pong", n) = 0
      BY <1>0, <2>1, NoneAt
  <2>3. Is(out[Peer(a)], "pong", n) = 0
      BY <2>1 DEF Is, Bit
  <2>4. Queued(a, "ping", n)' = 0 /\ Queued(Peer(a), "pong", n)' = 0 /\ Is(out[Peer(a)], "pong", n)' = 0
      BY <1>1, <2>2, <2>3 DEF Queued
  <2>5. pc'[t] = "enqueue" /\ req'[t].id = n /\ n \in pings'[a]
      BY <1>0, <1>1 DEF Shapes, Sorts, Frame
  <2>6. Bit(pc[t] = "enqueue")' = 1 /\ Bit(n \notin pings[a])' = 0
      BY <2>5 DEF Bit
  <2>7. QED
      BY <2>4, <2>5, <2>6 DEF PingCopies
<1>4. QED
    BY <1>2, <1>3 DEF PingFates

(* A ping is queued by the task that asks, and no other ping is its own. *)
LEMMA EnqueuePings ==
    ASSUME LinkInv, Calls, PingFates, NEW t \in Tasks, Enqueue(t)
    PROVE  PingFates'
<1> DEFINE a == t[1]
<1> PICK f : f = req[t]
    OBVIOUS
<1>0. /\ a \in Ends /\ Peer(a) \in Ends /\ Peer(a) # a /\ Shapes /\ f \in Frames
      /\ \A u \in Tasks : u[1] \in Ends /\ req[u].id \in Nat
      /\ \A e \in Ends : Peer(e) \in Ends /\ Peer(e) # e /\ (e # a => Peer(e) = a)
    BY EndsFacts DEF LinkInv, Shapes, Frames
<1>1. /\ UNCHANGED <<req, pings, out, wire>> /\ pc[t] = "enqueue" /\ pc' = [pc EXCEPT ![t] = "await"]
      /\ sendCh' = [sendCh EXCEPT ![a] = Append(sendCh[a], f)]
    BY DEF Enqueue, Goto, pingVars, recvVars
<1>2. /\ \A e \in Ends : \A what, id : e # a => Queued(e, what, id)' = Queued(e, what, id)
      /\ \A what, id : Queued(a, what, id) + Is(f, what, id) <= 1 =>
            Queued(a, what, id)' = Queued(a, what, id) + Is(f, what, id)
    BY <1>0, <1>1, PutCount
<1>3. \A id : Is(f, "pong", id) = 0
    BY DEF Calls, Call, Is, Bit
<1>4. SUFFICES ASSUME NEW u \in Tasks, req[u].what = "ping"
               PROVE  PingCopies(u)' = 1
    BY <1>1 DEF PingFates
<1> PICK e, id : e = u[1] /\ id = req[u].id
    OBVIOUS
<1>5. /\ Bit(pc[u] = "enqueue") \in Nat /\ Queued(e, "ping", id) \in Nat /\ Queued(Peer(e), "pong", id) \in Nat
      /\ Is(out[Peer(e)], "pong", id) \in Nat /\ Bit(id \notin pings[e]) \in Nat
      /\ Bit(pc[u] = "enqueue") + Queued(e, "ping", id) + Queued(Peer(e), "pong", id)
           + Is(out[Peer(e)], "pong", id) + Bit(id \notin pings[e]) = 1
    BY <1>4, OnePing
<1>6. Queued(Peer(e), "pong", id)' = Queued(Peer(e), "pong", id)
  <2>1. CASE Peer(e) = a
      BY <1>2, <1>3, <1>5, <2>1
  <2>2. CASE Peer(e) # a
      BY <1>0, <1>2, <2>2
  <2>3. QED
      BY <2>1, <2>2
<1>7. Is(out[Peer(e)], "pong", id)' = Is(out[Peer(e)], "pong", id) /\ Bit(id \notin pings[e])' = Bit(id \notin pings[e])
    BY <1>1
<1>8. Bit(pc[u] = "enqueue")' + Queued(e, "ping", id)' = Bit(pc[u] = "enqueue") + Queued(e, "ping", id)
  <2>1. CASE u = t
    <3>1. Bit(pc[u] = "enqueue") = 1 /\ Bit(pc[u] = "enqueue")' = 0 /\ Is(f, "ping", id) = 1
        BY <1>0, <1>1, <1>4, <2>1 DEF Shapes, Bit, Is
    <3>2. Queued(e, "ping", id) = 0
        BY <1>5, <3>1
    <3>3. Queued(e, "ping", id)' = 1
        BY <1>2, <2>1, <3>1, <3>2
    <3>4. QED
        BY <3>1, <3>2, <3>3
  <2>2. CASE u # t
    <3>1. Bit(pc[u] = "enqueue")' = Bit(pc[u] = "enqueue")
        BY <1>0, <1>1, <2>2 DEF Shapes
    <3>2. CASE e = a
      <4>1. Is(f, "ping", id) = 0
          BY <1>4, <2>2, <3>2 DEF Calls, PingsDiffer, Is, Bit
      <4>2. QED
          BY <1>2, <1>5, <3>1, <3>2, <4>1
    <3>3. CASE e # a
        BY <1>0, <1>2, <3>1, <3>3
    <3>4. QED
        BY <3>2, <3>3
  <2>3. QED
      BY <2>1, <2>2
<1>9. Bit(pc[u] = "enqueue")' \in Nat /\ Queued(e, "ping", id)' \in Nat
    BY Counting, QueuedNat
<1>10. QED
    BY <1>1, <1>5, <1>6, <1>7, <1>8, <1>9 DEF PingCopies

(* What send does moves no ping. *)
LEMMA SendPings ==
    ASSUME LinkInv, Sorts, Turns, PingFates, NEW e \in Ends, SendTake(e) \/ SendDone(e)
    PROVE  PingFates'
<1>1. UNCHANGED <<pings, out>> /\ Shapes
    BY DEF SendTake, SendDone, pingVars, recvVars, LinkInv
<1>2. CASE SendTake(e)
  <2>1. UNCHANGED <<pc, req>>
      BY <1>2 DEF SendTake, taskVars
  <2>2. QED
      BY <1>1, <1>2, <2>1, TakeCount, PingsStay DEF Is
<1>3. CASE SendDone(e)
  <2>1. /\ pc' = [t \in Tasks |-> IF t = writing[e] THEN Replied(t) ELSE pc[t]]
        /\ req' = [t \in Tasks |-> IF t = writing[e] /\ req[t].what # "ping" THEN NoFrame ELSE req[t]]
        /\ UNCHANGED <<sendCh, wire>>
      BY <1>3 DEF SendDone
  <2>2. \A t \in Tasks : t = writing[e] => pc[t] = "await"
      BY DEF Turns, Turn
  <2>3. (\A t \in Tasks : Replied(t) # "enqueue") /\ NoFrame.what # "ping"
      BY DEF Replied, NoFrame, Frame
  <2>4. \A t \in Tasks : req'[t].what = "ping" =>
          req'[t] = req[t] /\ (pc'[t] = "enqueue" <=> pc[t] = "enqueue")
      BY <2>1, <2>2, <2>3
  <2>5. QED
      BY <1>1, <2>1, <2>4, PingsStay DEF Queued
<1>4. QED
    BY <1>2, <1>3

(* A frame of a stream, or a go-away, that is read moves no ping. *)
LEMMA ReadPings ==
    ASSUME LinkInv, PingFates, NEW e \in Ends, RecvSyn(e) \/ RecvAck(e) \/ RecvRst(e) \/ RecvGoAway(e)
    PROVE  PingFates'
<1>1. UNCHANGED <<pc, req, pings, sendCh>> /\ Shapes
    BY DEF RecvSyn, RecvAck, RecvRst, RecvGoAway, taskVars, pingVars, LinkInv
<1>2. PICK k : Arrives(e, k) /\ k \notin {"ping", "pong"}
    BY DEF RecvSyn, RecvAck, RecvRst, RecvGoAway
<1>3. \A a \in Ends, id \in Nat :
        /\ Queued(a, "ping", id) <= 1 => Queued(a, "ping", id)' = Queued(a, "ping", id)
        /\ Queued(a, "pong", id) <= 1 => Queued(a, "pong", id)' = Queued(a, "pong", id)
  <2>1. \A id : Bit("ping" = k /\ id = Arrived(e)) = 0 /\ Bit("pong" = k /\ id = Arrived(e)) = 0
      BY <1>2 DEF Bit
  <2>2. \A a \in Ends : a = e \/ a = Peer(e)
      BY EndsFacts
  <2>3. QED
      BY <1>1, <1>2, <2>1, <2>2, ReadCount, QueuedNat
<1>4. \A a \in Ends, id \in Nat : Is(out[a], "pong", id)' = Is(out[a], "pong", id)
  <2>1. out' = out \/ (out[e] = NoFrame /\ out' = [out EXCEPT ![e] = Frame("rst", Arrived(e), recv(e))])
      BY DEF RecvSyn, RecvAck, RecvRst, RecvGoAway, recvVars, Answer, Arrives
  <2>2. \A a \in Ends : out'[a] = out[a] \/ (out[a].what # "pong" /\ out'[a].what # "pong")
      BY <1>1, <2>1 DEF Shapes, NoFrame, Frame
  <2>3. QED
      BY <2>2 DEF Is
<1>5. QED
    BY <1>1, <1>3, <1>4, PingsStay

(* What a ping of either end has on the way when a ping or a pong is read. *)
LEMMA ReadOnePing ==
    ASSUME LinkInv, PingFates, NEW e \in Ends, NEW k, Arrives(e, k), UNCHANGED sendCh,
           NEW n, n = Arrived(e), NEW t \in Tasks, req[t].what = "ping",
           NEW a, a = t[1], NEW id, id = req[t].id
    PROVE  /\ Queued(a, "ping", id) = Queued(a, "ping", id)' + Bit(a = Peer(e) /\ k = "ping" /\ id = n)
           /\ Queued(Peer(a), "pong", id) = Queued(Peer(a), "pong", id)' + Bit(a = e /\ k = "pong" /\ id = n)
<1> DEFINE p == Peer(e)
<1>0. /\ p \in Ends /\ p # e /\ Peer(p) = e /\ Shapes /\ a \in Ends /\ (a = e \/ a = p)
    BY EndsFacts DEF LinkInv
<1>1. /\ \A what, i : Queued(e, what, i)' = Queued(e, what, i)
      /\ \A what, i : Queued(p, what, i) <= 1 =>
            Queued(p, what, i) = Queued(p, what, i)' + Bit(what = k /\ i = n)
    BY <1>0, ReadCount
<1>2. Queued(a, "ping", id) <= 1 /\ Queued(Peer(a), "pong", id) <= 1
    BY OnePing
<1>3. CASE a = p
  <2>1. Queued(p, "ping", id) = Queued(p, "ping", id)' + Bit("ping" = k /\ id = n)
      BY <1>1, <1>2, <1>3
  <2>2. Bit(a = e /\ k = "pong" /\ id = n) = 0 /\ Bit(a = p /\ k = "ping" /\ id = n) = Bit("ping" = k /\ id = n)
      BY <1>0, <1>3 DEF Bit
  <2>3. Queued(e, "pong", id)' = Queued(e, "pong", id)
      BY <1>1
  <2>4. QED
      BY <1>0, <1>3, <2>1, <2>2, <2>3, QueuedNat
<1>4. CASE a = e
  <2>1. Queued(p, "pong", id) = Queued(p, "pong", id)' + Bit("pong" = k /\ id = n)
      BY <1>1, <1>2, <1>4
  <2>2. Bit(a = p /\ k = "ping" /\ id = n) = 0 /\ Bit(a = e /\ k = "pong" /\ id = n) = Bit("pong" = k /\ id = n)
      BY <1>0, <1>4 DEF Bit
  <2>3. Queued(e, "ping", id)' = Queued(e, "ping", id)
      BY <1>1
  <2>4. QED
      BY <1>4, <2>1, <2>2, <2>3, QueuedNat
<1>5. QED
    BY <1>0, <1>3, <1>4

(* A ping is answered, and its answer ends it. *)
LEMMA AnswerPings ==
    ASSUME LinkInv, Sorts, PingFates, NEW e \in Ends, RecvPing(e) \/ RecvPong(e)
    PROVE  PingFates'
<1> DEFINE p == Peer(e)
<1> PICK n : n = Arrived(e)
    OBVIOUS
<1>0. /\ p \in Ends /\ p # e /\ Peer(p) = e /\ Shapes
      /\ \A a \in Ends : (a = e \/ a = p) /\ Peer(a) \in Ends
      /\ UNCHANGED <<pc, req, sendCh>>
    BY EndsFacts DEF LinkInv, RecvPing, RecvPong, taskVars
<1>1. SUFFICES ASSUME NEW t \in Tasks, req[t].what = "ping"
               PROVE  PingCopies(t)' = 1
    BY <1>0 DEF PingFates
<1> PICK a, id : a = t[1] /\ id = req[t].id
    OBVIOUS
<1>2. /\ Bit(pc[t] = "enqueue") \in Nat /\ Queued(a, "ping", id) \in Nat /\ Queued(Peer(a), "pong", id) \in Nat
      /\ Is(out[Peer(a)], "pong", id) \in Nat /\ Bit(id \notin pings[a]) \in Nat
      /\ Bit(pc[t] = "enqueue") + Queued(a, "ping", id) + Queued(Peer(a), "pong", id)
           + Is(out[Peer(a)], "pong", id) + Bit(id \notin pings[a]) = 1
    BY <1>1, OnePing
<1>3. Queued(a, "ping", id)' \in Nat /\ Queued(Peer(a), "pong", id)' \in Nat /\ a \in Ends
    BY QueuedNat, EndsFacts
<1>4. CASE RecvPing(e)
  <2>1. /\ Arrives(e, "ping") /\ out[e] = NoFrame /\ UNCHANGED pings
        /\ out' = [out EXCEPT ![e] = Frame("pong", n, recv(e))]
      BY <1>4 DEF RecvPing, Arrives, Answer, pingVars
  <2>2. /\ Queued(a, "ping", id) = Queued(a, "ping", id)' + Bit(a = p /\ "ping" = "ping" /\ id = n)
        /\ Queued(Peer(a), "pong", id) = Queued(Peer(a), "pong", id)' + Bit(a = e /\ "ping" = "pong" /\ id = n)
      BY <1>0, <1>1, <2>1, ReadOnePing
  <2>3. Bit(a = e /\ "ping" = "pong" /\ id = n) = 0
      BY DEF Bit
  <2>4. Is(out[Peer(a)], "pong", id)' = Is(out[Peer(a)], "pong", id) + Bit(a = p /\ "ping" = "ping" /\ id = n)
    <3>1. CASE a = p
      <4>1. out[e].what = "none" /\ out'[e].what = "pong" /\ out'[e].id = n
          BY <1>0, <2>1 DEF Shapes, NoFrame, Frame
      <4>2. QED
          BY <1>0, <3>1, <4>1 DEF Is, Bit
    <3>2. CASE a = e
      <4>1. out'[p] = out[p]
          BY <1>0, <2>1 DEF Shapes
      <4>2. QED
          BY <1>0, <3>2, <4>1 DEF Is, Bit
    <3>3. QED
        BY <1>0, <1>3, <3>1, <3>2
  <2>5. Bit(pc[t] = "enqueue")' = Bit(pc[t] = "enqueue") /\ Bit(id \notin pings[a])' = Bit(id \notin pings[a])
      BY <1>0, <2>1
  <2>6. Bit(a = p /\ "ping" = "ping" /\ id = n) \in Nat
      BY Counting
  <2>7. Bit(pc[t] = "enqueue")' + Queued(a, "ping", id)' + Queued(Peer(a), "pong", id)'
          + Is(out[Peer(a)], "pong", id)' + Bit(id \notin pings[a])' = 1
      BY <1>2, <1>3, <2>2, <2>3, <2>4, <2>5, <2>6
  <2>8. QED
      BY <1>0, <2>7 DEF PingCopies
<1>5. CASE RecvPong(e)
  <2>1. /\ Arrives(e, "pong") /\ UNCHANGED out
        /\ pings' = [pings EXCEPT ![e] = pings[e] \ {n}]
      BY <1>5 DEF RecvPong, recvVars
  <2>2. /\ Queued(a, "ping", id) = Queued(a, "ping", id)' + Bit(a = p /\ "pong" = "ping" /\ id = n)
        /\ Queued(Peer(a), "pong", id) = Queued(Peer(a), "pong", id)' + Bit(a = e /\ "pong" = "pong" /\ id = n)
      BY <1>0, <1>1, <2>1, ReadOnePing
  <2>3. Bit(a = p /\ "pong" = "ping" /\ id = n) = 0
      BY DEF Bit
  <2>4. Bit(id \notin pings[a])' = Bit(id \notin pings[a]) + Bit(a = e /\ "pong" = "pong" /\ id = n)
    <3>1. CASE a = e /\ id = n
      <4>1. Bit(a = e /\ "pong" = "pong" /\ id = n) = 1
          BY <3>1 DEF Bit
      <4>2. Bit(id \notin pings[a]) = 0
          BY <1>2, <1>3, <2>2, <4>1
      <4>3. n \notin pings'[e]
          BY <2>1 DEF Sorts
      <4>4. Bit(id \notin pings[a])' = 1
          BY <3>1, <4>3 DEF Bit
      <4>5. QED
          BY <4>1, <4>2, <4>4
    <3>2. CASE ~(a = e /\ id = n)
      <4>1. id \in pings'[a] <=> id \in pings[a]
          BY <1>3, <2>1, <3>2 DEF Sorts
      <4>2. QED
          BY <3>2, <4>1 DEF Bit
    <3>3. QED
        BY <3>1, <3>2
  <2>5. Bit(pc[t] = "enqueue")' = Bit(pc[t] = "enqueue") /\ Is(out[Peer(a)], "pong", id)' = Is(out[Peer(a)], "pong", id)
      BY <1>0, <2>1
  <2>6. Bit(a = e /\ "pong" = "pong" /\ id = n) \in Nat
      BY Counting
  <2>7. Bit(pc[t] = "enqueue")' + Queued(a, "ping", id)' + Queued(Peer(a), "pong", id)'
          + Is(out[Peer(a)], "pong", id)' + Bit(id \notin pings[a])' = 1
      BY <1>2, <1>3, <2>2, <2>3, <2>4, <2>5, <2>6
  <2>8. QED
      BY <1>0, <2>7 DEF PingCopies
<1>6. QED
    BY <1>4, <1>5

(* An answer that was to go out is queued. *)
LEMMA NoWaitPings ==
    ASSUME LinkInv, Carried, PingFates, NEW e \in Ends, SendNoWait(e)
    PROVE  PingFates'
<1> DEFINE p == Peer(e)
<1> PICK f : f = out[e]
    OBVIOUS
<1>0. /\ p \in Ends /\ p # e /\ Peer(p) = e /\ Shapes /\ f \in Frames
      /\ \A a \in Ends : (a = e \/ a = p) /\ Peer(a) \in Ends
    BY EndsFacts DEF LinkInv, Shapes
<1>1. /\ UNCHANGED <<pc, req, pings, wire>>
      /\ sendCh' = [sendCh EXCEPT ![e] = Append(sendCh[e], f)]
      /\ out' = [out EXCEPT ![e] = NoFrame]
    BY DEF SendNoWait, taskVars, pingVars
<1>2. /\ \A a \in Ends : \A what, id : a # e => Queued(a, what, id)' = Queued(a, what, id)
      /\ \A what, id : Queued(e, what, id) + Is(f, what, id) <= 1 =>
            Queued(e, what, id)' = Queued(e, what, id) + Is(f, what, id)
    BY <1>0, <1>1, PutCount
<1>3. \A id : Is(f, "ping", id) = 0
    BY DEF Carried, Is, Bit
<1>4. SUFFICES ASSUME NEW t \in Tasks, req[t].what = "ping"
               PROVE  PingCopies(t)' = 1
    BY <1>1 DEF PingFates
<1> PICK a, id : a = t[1] /\ id = req[t].id
    OBVIOUS
<1>5. /\ Bit(pc[t] = "enqueue") \in Nat /\ Queued(a, "ping", id) \in Nat /\ Queued(Peer(a), "pong", id) \in Nat
      /\ Is(out[Peer(a)], "pong", id) \in Nat /\ Bit(id \notin pings[a]) \in Nat
      /\ Bit(pc[t] = "enqueue") + Queued(a, "ping", id) + Queued(Peer(a), "pong", id)
           + Is(out[Peer(a)], "pong", id) + Bit(id \notin pings[a]) = 1
    BY <1>4, OnePing
<1>6. a \in Ends
    BY EndsFacts
<1>7. CASE a = p
  <2>1. Queued(p, "ping", id)' = Queued(p, "ping", id)
      BY <1>0, <1>2
  <2>2. Queued(e, "pong", id) + Is(f, "pong", id) <= 1
      BY <1>0, <1>5, <1>7
  <2>3. Queued(e, "pong", id)' = Queued(e, "pong", id) + Is(f, "pong", id)
      BY <1>2, <2>2
  <2>4. Is(out[e], "pong", id)' = 0
      BY <1>0, <1>1 DEF Is, Bit, NoFrame, Frame, Shapes
  <2>5. QED
      BY <1>0, <1>1, <1>5, <1>7, <2>1, <2>3, <2>4 DEF PingCopies
<1>8. CASE a = e
  <2>1. Queued(p, "pong", id)' = Queued(p, "pong", id)
      BY <1>0, <1>2
  <2>2. Queued(e, "ping", id) + Is(f, "ping", id) <= 1
      BY <1>0, <1>3, <1>5, <1>8
  <2>3. Queued(e, "ping", id)' = Queued(e, "ping", id)
      BY <1>2, <1>3, <1>5, <1>8, <2>2
  <2>4. Is(out[p], "pong", id)' = Is(out[p], "pong", id)
      BY <1>0, <1>1 DEF Shapes
  <2>5. QED
      BY <1>0, <1>1, <1>5, <1>8, <2>1, <2>3, <2>4 DEF PingCopies
<1>9. QED
    BY <1>0, <1>6, <1>7, <1>8

-----------------------------------------------------------------------------
(* Two new sessions have no stream and no ping. *)
LEMMA InitFate == Init => FateInv
<1> SUFFICES ASSUME Init PROVE FateInv
    OBVIOUS
<1>1. Sorts
    BY DEF Init, Sorts, Senders
<1>2. NoFrame.what = "none" /\ NoFrame.by = nobody
    BY DEF NoFrame, Frame
<1>3. Turns
  <2>1. \A e \in Ends : writing[e] = nobody /\ out[e].by = nobody /\ sendCh[e] = <<>>
      BY <1>2 DEF Init
  <2>2. \A e \in Ends : 1..Len(sendCh[e]) = {}
      BY <2>1
  <2>3. QED
      BY <2>1, <2>2, NotTasks DEF Turns, Turn
<1>4. Calls
    BY <1>2 DEF Init, Calls, Call, PingsDiffer, Numbered
<1>5. Carried
  <2>1. \A e \in Ends : Way(e) = {}
      BY DEF Init, Way, Over
  <2>2. QED
      BY <1>2, <2>1 DEF Init, Carried, Carries, FirstId
<1>6. StreamFates
  <2>1. \A e \in Ends : Taken(e) = {}
      BY DEF Init, Taken, FirstId
  <2>2. QED
      BY <2>1 DEF Init, StreamFates
<1>7. PingFates
    BY <1>2 DEF Init, PingFates
<1>8. QED
    BY <1>1, <1>3, <1>4, <1>5, <1>6, <1>7 DEF FateInv

(* Every step keeps the fates. *)
LEMMA NextFate == LinkInv /\ FateInv /\ [Next]_vars => FateInv'
<1> SUFFICES ASSUME LinkInv, FateInv, [Next]_vars PROVE FateInv'
    OBVIOUS
<1>0. Shapes /\ Shapes' /\ Sorts /\ Turns /\ Calls /\ Carried /\ StreamFates /\ PingFates
    BY NextShapes DEF LinkInv, FateInv
<1>1. Sorts' /\ Turns' /\ Calls' /\ Carried'
    BY <1>0, NextSorts, NextTurns, NextCalls, NextCarried
<1>2. StreamFates' /\ PingFates'
  <2>1. CASE UNCHANGED vars
    <3>1. UNCHANGED <<pc, req, nextStreamID, streams, resets, pings, failed, out, sendCh, wire>>
        BY <2>1 DEF vars, taskVars, streamVars, pingVars, queueVars, recvVars
    <3>2. QED
        BY <1>0, <3>1, FatesStay, PingsStay DEF Opening, Queued, Is
  <2>2. ASSUME NEW t \in Openers, OpenCheck(t) \/ OpenLoad(t) \/ OpenSwap(t) \/ OpenRegister(t)
        PROVE  StreamFates' /\ PingFates'
    <3>1. t \in Tasks
        BY EndsFacts
    <3>2. QED
        BY <1>0, <2>2, <3>1, IdleFates, SwapFates, RegisterFates, IdlePings
  <2>3. ASSUME NEW t \in Tasks, AcceptStream(t) \/ PingReturns(t) \/ GoAway(t)
        PROVE  StreamFates' /\ PingFates'
      BY <1>0, <2>3, IdleFates, IdlePings
  <2>4. ASSUME NEW t \in Tasks, Ping(t)
        PROVE  StreamFates' /\ PingFates'
      BY <1>0, <2>4, IdleFates, AskPings
  <2>5. ASSUME NEW t \in Tasks, Enqueue(t)
        PROVE  StreamFates' /\ PingFates'
      BY <1>0, <2>5, EnqueueFates, EnqueuePings
  <2>6. ASSUME NEW e \in Ends, SendTake(e) \/ SendDone(e)
        PROVE  StreamFates' /\ PingFates'
      BY <1>0, <2>6, SendFates, SendPings
  <2>7. ASSUME NEW e \in Ends, RecvSyn(e) \/ RecvRst(e)
        PROVE  StreamFates' /\ PingFates'
      BY <1>0, <2>7, SynFates, RstFates, ReadPings
  <2>8. ASSUME NEW e \in Ends, RecvAck(e) \/ RecvGoAway(e)
        PROVE  StreamFates' /\ PingFates'
      BY <1>0, <2>8, ReadFates, ReadPings
  <2>9. ASSUME NEW e \in Ends, RecvPing(e) \/ RecvPong(e)
        PROVE  StreamFates' /\ PingFates'
      BY <1>0, <2>9, ReadFates, AnswerPings
  <2>10. ASSUME NEW e \in Ends, SendNoWait(e)
         PROVE  StreamFates' /\ PingFates'
      BY <1>0, <2>10, NoWaitFates, NoWaitPings
  <2>11. QED
      BY <2>1, <2>2, <2>3, <2>4, <2>5, <2>6, <2>7, <2>8, <2>9, <2>10, EndsFacts DEF Next, Recv
<1>3. QED
    BY <1>1, <1>2 DEF FateInv

-----------------------------------------------------------------------------
(* As many places as there are copies, as far as one. *)
Counts(n, S) == (n = 0 => S = {}) /\ (n = 1 => \E x : S = {x})

(* Places of two kinds count together. *)
LEMMA CountBoth ==
    ASSUME NEW m \in Nat, NEW n \in Nat, NEW S, NEW T, Counts(m, S), Counts(n, T)
    PROVE  m + n \in Nat /\ Counts(m + n, S \cup T)
<1>1. CASE m + n = 0
  <2>1. m = 0 /\ n = 0
      BY <1>1
  <2>2. S = {} /\ T = {}
      BY <2>1 DEF Counts
  <2>3. QED
      BY <1>1, <2>2 DEF Counts
<1>2. CASE m + n = 1
  <2>1. (m = 0 /\ n = 1) \/ (m = 1 /\ n = 0)
      BY <1>2
  <2>2. CASE m = 0 /\ n = 1
    <3>1. S \cup T = T
        BY <2>2 DEF Counts
    <3>2. QED
        BY <1>2, <2>2, <3>1 DEF Counts
  <2>3. CASE m = 1 /\ n = 0
    <3>1. S \cup T = S
        BY <2>3 DEF Counts
    <3>2. QED
        BY <1>2, <2>3, <3>1 DEF Counts
  <2>4. QED
      BY <2>1, <2>2, <2>3
<1>3. CASE m + n # 0 /\ m + n # 1
    BY <1>3 DEF Counts
<1>4. QED
    BY <1>1, <1>2, <1>3

(* A place that is there or not. *)
LEMMA CountIf ==
    ASSUME NEW place, NEW holds, NEW n, NEW S, n = Bit(holds), S = If(place, holds)
    PROVE  n \in Nat /\ Counts(n, S)
<1>1. CASE holds
  <2>1. PICK x : n = 1 /\ S = {x}
      BY <1>1 DEF Bit, If
  <2>2. QED
      BY <2>1 DEF Counts
<1>2. CASE ~holds
  <2>1. n = 0 /\ S = {}
      BY <1>2 DEF Bit, If
  <2>2. QED
      BY <2>1 DEF Counts
<1>3. QED
    BY <1>1, <1>2

(* One place for each member. *)
LEMMA CountTagged ==
    ASSUME NEW n, NEW S, NEW place, NEW T, Counts(n, S),
           \A y : y \in T <=> \E x \in S : y = <<place, x>>
    PROVE  Counts(n, T)
<1>1. ASSUME NEW x, S = {x}
      PROVE  T = {<<place, x>>}
    BY <1>1
<1>2. S = {} => T = {}
    OBVIOUS
<1>3. QED
    BY <1>1, <1>2 DEF Counts

(* As many places as members. *)
LEMMA CountNum ==
    ASSUME NEW S, NEW n, n = Num(S)
    PROVE  n \in Nat /\ Counts(n, S)
    BY Counting DEF Counts

(* The frames counted are the frames in their places. *)
LEMMA CountUnder ==
    ASSUME NEW e, NEW what, NEW id, NEW n, NEW S,
           n = Queued(e, what, id) + Is(out[e], what, id), S = Under(e, what, id)
    PROVE  n \in Nat /\ Counts(n, S)
<1>1. PICK A, B, C : /\ A = {<<"sendCh", i>> : i \in At(sendCh[e], what, id)}
                    /\ B = {<<"wire", i>> : i \in At(wire[e], what, id)}
                    /\ C = {<<"out", i>> : i \in {i \in {1} : out[e].what = what /\ out[e].id = id}}
    OBVIOUS
<1>2. PICK a, b, c : /\ a = Num(At(sendCh[e], what, id)) /\ b = Num(At(wire[e], what, id))
                    /\ c = Is(out[e], what, id)
    OBVIOUS
<1>3. S = A \cup B \cup C
    BY <1>1 DEF Under, At
<1>4. n = a + b + c
    BY <1>2 DEF Queued
<1>5. PICK P, Q : P = At(sendCh[e], what, id) /\ Q = At(wire[e], what, id)
    OBVIOUS
<1>6. a \in Nat /\ Counts(a, P) /\ b \in Nat /\ Counts(b, Q)
    BY <1>2, <1>5, CountNum
<1>7. /\ \A y : y \in A <=> \E i \in P : y = <<"sendCh", i>>
      /\ \A y : y \in B <=> \E i \in Q : y = <<"wire", i>>
    BY <1>1, <1>5
<1>8. Counts(a, A) /\ Counts(b, B)
    BY <1>6, <1>7, CountTagged
<1>9. c \in Nat /\ Counts(c, C)
  <2>1. CASE out[e].what = what /\ out[e].id = id
    <3>1. PICK x : c = 1 /\ C = {x}
        BY <1>1, <1>2, <2>1 DEF Is, Bit
    <3>2. QED
        BY <3>1 DEF Counts
  <2>2. CASE ~(out[e].what = what /\ out[e].id = id)
    <3>1. c = 0 /\ C = {}
        BY <1>1, <1>2, <2>2 DEF Is, Bit
    <3>2. QED
        BY <3>1 DEF Counts
  <2>3. QED
      BY <2>1, <2>2
<1>10. a + b \in Nat /\ Counts(a + b, A \cup B)
    BY <1>6, <1>8, CountBoth
<1>11. a + b + c \in Nat /\ Counts(a + b + c, A \cup B \cup C)
    BY <1>9, <1>10, CountBoth
<1>12. QED
    BY <1>3, <1>4, <1>11

(* One copy is one place. *)
LEMMA StreamPlace ==
    ASSUME LinkInv, FateInv, NEW e \in Ends, NEW id \in Opened(e)
    PROVE  /\ \E x \in StreamPlaces(e, id) : StreamPlaces(e, id) = {x}
           /\ id \in streams[e] <=> id \notin resets[e] /\ Opening(e, id, {"register"}) = {}
<1>1. id \in Taken(e)
  <2>1. id \in 1..MaxId /\ id < nextStreamID[e] /\ id % 2 = FirstId(e) % 2
      BY DEF Opened
  <2>2. FirstId(e) <= id
      BY <2>1, BoundAssumption DEF FirstId
  <2>3. QED
      BY <2>1, <2>2, BoundAssumption DEF Taken, OwnId
<1>2. StreamCopies(e, id) = 1 /\ StreamFate(e, id)
    BY <1>1 DEF FateInv, StreamFates, StreamFate
<1>3. Is(out[e], "syn", id) = 0
    BY DEF FateInv, Carried, Is, Bit
<1>4. PICK O, R : O = Opening(e, id, {"register", "enqueue"}) /\ R = Under(Peer(e), "rst", id)
    OBVIOUS
<1>5. PICK A, B, C, D, E : /\ A = {<<"opening", t>> : t \in O} /\ B = Under(e, "syn", id)
                          /\ C = If("known", id \in streams[Peer(e)])
                          /\ D = {<<"rst", x>> : x \in R} /\ E = If("reset", id \in resets[e])
    OBVIOUS
<1>6. PICK a, b, c, d, f : /\ a = Num(O) /\ b = Queued(e, "syn", id) + Is(out[e], "syn", id)
                          /\ c = Bit(id \in streams[Peer(e)])
                          /\ d = Queued(Peer(e), "rst", id) + Is(out[Peer(e)], "rst", id)
                          /\ f = Bit(id \in resets[e])
    OBVIOUS
<1>7. StreamPlaces(e, id) = A \cup B \cup C \cup D \cup E
    BY <1>4, <1>5 DEF StreamPlaces
<1>8. a + b + c + d + f = 1
  <2>1. Queued(e, "syn", id) \in Nat /\ Queued(Peer(e), "rst", id) \in Nat /\ Is(out[Peer(e)], "rst", id) \in Nat
      BY QueuedNat, IsBit
  <2>2. a \in Nat /\ c \in Nat /\ f \in Nat
      BY <1>6, Counting
  <2>3. QED
      BY <1>2, <1>3, <1>4, <1>6, <2>1, <2>2 DEF StreamCopies
<1>9. a \in Nat /\ Counts(a, A)
  <2>1. a \in Nat /\ Counts(a, O)
      BY <1>6, CountNum
  <2>2. \A y : y \in A <=> \E t \in O : y = <<"opening", t>>
      BY <1>5
  <2>3. QED
      BY <2>1, <2>2, CountTagged
<1>10. b \in Nat /\ Counts(b, B)
    BY <1>5, <1>6, CountUnder
<1>11. c \in Nat /\ Counts(c, C) /\ f \in Nat /\ Counts(f, E)
    BY <1>5, <1>6, CountIf
<1>12. d \in Nat /\ Counts(d, D)
  <2>1. d \in Nat /\ Counts(d, R)
      BY <1>4, <1>6, CountUnder
  <2>2. \A y : y \in D <=> \E x \in R : y = <<"rst", x>>
      BY <1>5
  <2>3. QED
      BY <2>1, <2>2, CountTagged
<1>13. a + b \in Nat /\ Counts(a + b, A \cup B)
    BY <1>9, <1>10, CountBoth
<1>14. a + b + c \in Nat /\ Counts(a + b + c, A \cup B \cup C)
    BY <1>11, <1>13, CountBoth
<1>15. a + b + c + d \in Nat /\ Counts(a + b + c + d, A \cup B \cup C \cup D)
    BY <1>12, <1>14, CountBoth
<1>16. Counts(a + b + c + d + f, A \cup B \cup C \cup D \cup E)
    BY <1>11, <1>15, CountBoth
<1>17. PICK x : StreamPlaces(e, id) = {x}
    BY <1>7, <1>8, <1>16 DEF Counts
<1>18. QED
    BY <1>2, <1>17 DEF StreamFate

(* One copy is one place, of a ping too. *)
LEMMA PingPlace ==
    ASSUME LinkInv, FateInv, NEW t \in Pingers, req[t].what = "ping"
    PROVE  \E x \in PingPlaces(t) : PingPlaces(t) = {x}
<1> PICK e, id : e = t[1] /\ id = req[t].id
    OBVIOUS
<1>1. t \in Tasks /\ e \in Ends
    BY EndsFacts
<1>2. PingCopies(t) = 1
    BY <1>1 DEF FateInv, PingFates
<1>3. Is(out[e], "ping", id) = 0
    BY <1>1 DEF FateInv, Carried, Is, Bit
<1>4. PICK R : R = Under(Peer(e), "pong", id)
    OBVIOUS
<1>5. PICK A, B, C, D : /\ A = If("asking", pc[t] = "enqueue") /\ B = Under(e, "ping", id)
                       /\ C = {<<"pong", x>> : x \in R} /\ D = If("answered", id \notin pings[e])
    OBVIOUS
<1>6. PICK a, b, c, d : /\ a = Bit(pc[t] = "enqueue")
                       /\ b = Queued(e, "ping", id) + Is(out[e], "ping", id)
                       /\ c = Queued(Peer(e), "pong", id) + Is(out[Peer(e)], "pong", id)
                       /\ d = Bit(id \notin pings[e])
    OBVIOUS
<1>7. PingPlaces(t) = A \cup B \cup C \cup D
    BY <1>4, <1>5 DEF PingPlaces
<1>8. a + b + c + d = 1
  <2>1. Queued(e, "ping", id) \in Nat /\ Queued(Peer(e), "pong", id) \in Nat /\ Is(out[Peer(e)], "pong", id) \in Nat
      BY QueuedNat, IsBit
  <2>2. a \in Nat /\ d \in Nat
      BY <1>6, Counting
  <2>3. QED
      BY <1>2, <1>3, <1>6, <2>1, <2>2 DEF PingCopies
<1>9. a \in Nat /\ Counts(a, A) /\ d \in Nat /\ Counts(d, D)
    BY <1>5, <1>6, CountIf
<1>10. b \in Nat /\ Counts(b, B)
    BY <1>5, <1>6, CountUnder
<1>11. c \in Nat /\ Counts(c, C)
  <2>1. c \in Nat /\ Counts(c, R)
      BY <1>4, <1>6, CountUnder
  <2>2. \A y : y \in C <=> \E x \in R : y = <<"pong", x>>
      BY <1>5
  <2>3. QED
      BY <2>1, <2>2, CountTagged
<1>12. a + b \in Nat /\ Counts(a + b, A \cup B)
    BY <1>9, <1>10, CountBoth
<1>13. a + b + c \in Nat /\ Counts(a + b + c, A \cup B \cup C)
    BY <1>11, <1>12, CountBoth
<1>14. Counts(a + b + c + d, A \cup B \cup C \cup D)
    BY <1>9, <1>13, CountBoth
<1>15. QED
    BY <1>7, <1>8, <1>14 DEF Counts

(* Every id that OpenStream took (session.go:128-133) is in one place, from
   its opener to the peer's table or to its refusal, and every Ping has its
   request or its answer in one place, with any number of goroutines that
   open, accept, ping and leave at either end. *)
THEOREM EveryFateIsOne == Spec => []OneFate
<1>1. Init => LinkInv /\ FateInv
    BY InitInv, InitFate
<1>2. (LinkInv /\ FateInv) /\ [Next]_vars => (LinkInv /\ FateInv)'
    BY NextKeeps, NextFate
<1>3. LinkInv /\ FateInv => OneFate
  <2>1. SUFFICES ASSUME LinkInv, FateInv PROVE StreamsInOnePlace /\ PingsInOnePlace
      BY DEF OneFate
  <2>2. StreamsInOnePlace
      BY <2>1, StreamPlace DEF StreamsInOnePlace, FateInv, StreamFates
  <2>3. PingsInOnePlace
      BY <2>1, PingPlace DEF PingsInOnePlace
  <2>4. QED
      BY <2>2, <2>3
<1>4. QED
    BY <1>1, <1>2, <1>3, PTL DEF Spec

-----------------------------------------------------------------------------
(* Where two sessions may stop.  A task waits for a frame of its own, or for
   the answer to a ping. *)
Waits(t) ==
    /\ pc[t] \in {"swap", "register", "enqueue"} => req[t].by = t /\ req[t].what # "none"
    /\ pc[t] = "await" => writing[t[1]] = t \/ \E f \in Over(sendCh[t[1]]) : f.by = t
    /\ pc[t] = "answer" => req[t].what = "ping"

(* streamLock is held for a refusal; what is under way is a frame. *)
Holds(e) ==
    /\ streamLock[e] => out[e] # NoFrame
    /\ out[e].what = "none" => out[e] = NoFrame
    /\ \A f \in Way(e) : f.what # "none"

StopInv == (\A t \in Tasks : Waits(t)) /\ (\A e \in Ends : Holds(e))

(* Only one task's call moves, no frame does. *)
LEMMA CallWaits ==
    ASSUME LinkInv, StopInv, NEW t \in Tasks,
           OpenCheck(t) \/ OpenLoad(t) \/ OpenSwap(t) \/ OpenRegister(t) \/ AcceptStream(t)
           \/ Ping(t) \/ PingReturns(t) \/ GoAway(t)
    PROVE  StopInv'
<1> USE DEF LinkInv, Shapes, StopInv
<1>1. UNCHANGED <<streamLock, sendCh, wire, out, writing>>
    BY DEF OpenCheck, OpenLoad, OpenSwap, OpenRegister, AcceptStream, Ping, PingReturns, GoAway,
       streamVars, queueVars, recvVars
<1>2. \A e \in Ends : Holds(e)'
    BY <1>1 DEF Holds, Way
<1>3. \A u \in Tasks : u # t => pc'[u] = pc[u] /\ req'[u] = req[u]
    BY DEF OpenCheck, OpenLoad, OpenSwap, OpenRegister, AcceptStream, Ping, PingReturns, GoAway, Goto, Asks
<1>4. \A u \in Tasks : u # t => Waits(u)'
    BY <1>1, <1>3 DEF Waits
<1>5. pc'[t] \notin {"await", "answer"}
    BY DEF OpenCheck, OpenLoad, OpenSwap, OpenRegister, AcceptStream, Ping, PingReturns, GoAway, Goto
<1>6. pc'[t] \in {"swap", "register", "enqueue"} => req'[t].by = t /\ req'[t].what # "none"
    BY DEF OpenCheck, OpenLoad, OpenSwap, OpenRegister, AcceptStream, Ping, PingReturns, GoAway, Goto, Asks,
       Waits, Frame
<1>7. QED
    BY <1>2, <1>4, <1>5, <1>6 DEF Waits

(* A task's frame is queued as that task's. *)
LEMMA EnqueueWaits ==
    ASSUME LinkInv, StopInv, NEW t \in Tasks, Enqueue(t)
    PROVE  StopInv'
<1> USE DEF LinkInv
<1> DEFINE e == t[1]
<1>0. e \in Ends /\ \A u \in Tasks : u[1] \in Ends
    BY EndsFacts
<1>1. /\ UNCHANGED <<req, streamLock, out, writing>>
      /\ pc' = [pc EXCEPT ![t] = "await"] /\ pc[t] = "enqueue"
      /\ sendCh' = [sendCh EXCEPT ![e] = Append(sendCh[e], req[t])]
    BY DEF Enqueue, Goto, streamVars, recvVars
<1>2. Over(sendCh'[e]) = Over(sendCh[e]) \cup {req[t]} /\ \A a \in Ends : a # e => sendCh'[a] = sendCh[a]
    BY <1>0, <1>1, AppendOver DEF Shapes
<1>3. req[t].by = t /\ req[t].what # "none"
    BY <1>1 DEF StopInv, Waits
<1>4. \A a \in Ends : Holds(a)'
    BY <1>1, <1>3, EnqueueWay DEF StopInv, Holds
<1>5. ASSUME NEW u \in Tasks
      PROVE  Waits(u)'
  <2>1. Waits(u) /\ Over(sendCh[u[1]]) \subseteq Over(sendCh'[u[1]])
      BY <1>0, <1>2 DEF StopInv
  <2>2. CASE u # t
      BY <1>1, <2>1, <2>2 DEF Waits, Shapes
  <2>3. CASE u = t
    <3>1. pc'[u] = "await"
        BY <1>1, <2>3 DEF Shapes
    <3>2. QED
        BY <1>2, <1>3, <2>3, <3>1 DEF Waits
  <2>4. QED
      BY <2>2, <2>3
<1>6. QED
    BY <1>4, <1>5 DEF StopInv

(* send takes a frame: its task then waits for the write. *)
LEMMA TakeWaits ==
    ASSUME LinkInv, Sorts, StopInv, NEW e \in Ends, SendTake(e)
    PROVE  StopInv'
<1> USE DEF LinkInv
<1>1. /\ UNCHANGED <<pc, req, streamLock, out>>
      /\ sendCh[e] # <<>> /\ sendCh[e] \in Seq(Frames) /\ writing[e] = nobody
      /\ sendCh'[e] = Tail(sendCh[e]) /\ writing'[e] = Head(sendCh[e]).by
      /\ \A a \in Ends : a # e => sendCh'[a] = sendCh[a] /\ writing'[a] = writing[a]
    BY DEF SendTake, Shapes, Sorts, taskVars, streamVars, recvVars
<1>2. Over(sendCh[e]) = Over(sendCh'[e]) \cup {Head(sendCh[e])}
    BY <1>1, TailOver
<1>3. \A a \in Ends : Holds(a)'
    BY <1>1, SendTakeWay DEF StopInv, Holds
<1>4. ASSUME NEW u \in Tasks
      PROVE  Waits(u)'
  <2>1. Waits(u) /\ u[1] \in Ends /\ u # nobody
      BY EndsFacts, NotTasks DEF StopInv
  <2>2. QED
      BY <1>1, <1>2, <2>1 DEF Waits
<1>5. QED
    BY <1>3, <1>4 DEF StopInv

(* A frame written: its task returns, or waits for the answer to its ping. *)
LEMMA DoneWaits ==
    ASSUME LinkInv, Sorts, Turns, StopInv, NEW e \in Ends, SendDone(e)
    PROVE  StopInv'
<1> USE DEF LinkInv
<1>1. /\ UNCHANGED <<streamLock, out, sendCh, wire>>
      /\ \A t \in Tasks : t # writing[e] => pc'[t] = pc[t] /\ req'[t] = req[t]
      /\ \A t \in Tasks : t = writing[e] =>
            pc'[t] = Replied(t) /\ (req[t].what = "ping" => req'[t] = req[t])
      /\ \A a \in Ends : a # e => writing'[a] = writing[a]
    BY DEF SendDone, Sorts, streamVars, recvVars
<1>2. \A a \in Ends : Holds(a)'
    BY <1>1 DEF StopInv, Holds, Way
<1>3. ASSUME NEW u \in Tasks
      PROVE  Waits(u)'
  <2>1. Waits(u) /\ u[1] \in Ends
      BY EndsFacts DEF StopInv
  <2>2. CASE u = writing[e]
      BY <1>1, <2>2 DEF Waits, Replied
  <2>3. CASE u # writing[e]
      BY <1>1, <2>1, <2>3 DEF Waits
  <2>4. QED
      BY <2>2, <2>3
<1>4. QED
    BY <1>2, <1>3 DEF StopInv

(* recv takes a frame off the way, and holds an answer or none. *)
LEMMA RecvWaits ==
    ASSUME LinkInv, Sorts, StopInv, NEW e \in Ends,
           RecvSyn(e) \/ RecvAck(e) \/ RecvRst(e) \/ RecvPing(e) \/ RecvPong(e) \/ RecvGoAway(e)
    PROVE  StopInv'
<1> USE DEF LinkInv
<1>1. UNCHANGED <<pc, req, sendCh, writing>> /\ out[e] = NoFrame /\ \E what : Arrives(e, what)
    BY DEF RecvSyn, RecvAck, RecvRst, RecvPing, RecvPong, RecvGoAway, taskVars, Arrives
<1>2. \A u \in Tasks : Waits(u)'
    BY <1>1 DEF StopInv, Waits
<1>3. \A a \in Ends : Way(a)' \subseteq Way(a)
    BY <1>1, ArrivesWay
<1>4. \/ UNCHANGED <<out, streamLock>>
      \/ /\ \E what \in {"rst", "pong"} : Answer(e, what)
         /\ \A a \in Ends : a # e => streamLock'[a] = streamLock[a]
  <2>1. CASE RecvSyn(e)
    <3>1. streamLock' = streamLock \/ streamLock' = [streamLock EXCEPT ![e] = TRUE]
        BY <2>1 DEF RecvSyn
    <3>2. Answer(e, "rst") \/ UNCHANGED <<out, streamLock>>
        BY <2>1 DEF RecvSyn
    <3>3. QED
        BY <3>1, <3>2 DEF Sorts
  <2>2. CASE RecvAck(e) \/ RecvRst(e) \/ RecvPing(e) \/ RecvPong(e) \/ RecvGoAway(e)
      BY <2>2 DEF RecvAck, RecvRst, RecvPing, RecvPong, RecvGoAway, recvVars, streamVars
  <2>3. QED
      BY <2>1, <2>2
<1>5. \A a \in Ends : (streamLock'[a] => out'[a] # NoFrame) /\ (out'[a].what = "none" => out'[a] = NoFrame)
  <2>1. CASE UNCHANGED <<out, streamLock>>
      BY <2>1 DEF StopInv, Holds
  <2>2. ASSUME NEW what \in {"rst", "pong"}, Answer(e, what),
               \A a \in Ends : a # e => streamLock'[a] = streamLock[a]
        PROVE  \A a \in Ends : (streamLock'[a] => out'[a] # NoFrame) /\ (out'[a].what = "none" => out'[a] = NoFrame)
    <3>1. out'[e].what = what /\ \A a \in Ends : a # e => out'[a] = out[a]
        BY <2>2 DEF Answer, Frame, Shapes
    <3>2. NoFrame.what = "none"
        BY DEF NoFrame, Frame
    <3>3. QED
        BY <2>2, <3>1, <3>2 DEF StopInv, Holds
  <2>3. QED
      BY <1>4, <2>1, <2>2
<1>6. QED
    BY <1>2, <1>3, <1>5 DEF StopInv, Holds

(* recv puts its answer into sendCh and gives streamLock back. *)
LEMMA NoWaitWaits ==
    ASSUME LinkInv, Sorts, StopInv, NEW e \in Ends, SendNoWait(e)
    PROVE  StopInv'
<1> USE DEF LinkInv
<1>1. /\ UNCHANGED <<pc, req, writing>> /\ out[e] # NoFrame
      /\ out'[e] = NoFrame /\ ~streamLock'[e]
      /\ \A a \in Ends : a # e => out'[a] = out[a] /\ streamLock'[a] = streamLock[a] /\ sendCh'[a] = sendCh[a]
      /\ sendCh'[e] = Append(sendCh[e], out[e])
    BY DEF SendNoWait, Shapes, Sorts, taskVars
<1>2. Over(sendCh'[e]) = Over(sendCh[e]) \cup {out[e]}
    BY <1>1, AppendOver DEF Shapes
<1>3. \A u \in Tasks : Waits(u)'
  <2>1. \A a \in Ends : Over(sendCh[a]) \subseteq Over(sendCh'[a])
      BY <1>1, <1>2
  <2>2. QED
      BY <1>1, <2>1, EndsFacts DEF StopInv, Waits
<1>4. \A a \in Ends : Holds(a)'
    BY <1>1, SendNoWaitWay DEF StopInv, Holds
<1>5. QED
    BY <1>3, <1>4 DEF StopInv

(* Nobody waits for anything yet. *)
LEMMA InitStop == Init => StopInv
<1>1. SUFFICES ASSUME Init PROVE StopInv
    OBVIOUS
<1>2. \A e \in Ends : Way(e) = {}
    BY <1>1 DEF Init, Way, Over
<1>3. \A t \in Tasks : Waits(t)
    BY <1>1 DEF Init, Waits
<1>4. \A e \in Ends : Holds(e)
    BY <1>1, <1>2 DEF Init, Holds
<1>5. QED
    BY <1>3, <1>4 DEF StopInv

(* Every step keeps who waits for what. *)
LEMMA NextStop == LinkInv /\ FateInv /\ StopInv /\ [Next]_vars => StopInv'
<1> SUFFICES ASSUME LinkInv, FateInv, StopInv, [Next]_vars PROVE StopInv'
    OBVIOUS
<1>1. CASE UNCHANGED vars
    BY <1>1 DEF vars, taskVars, streamVars, queueVars, recvVars, StopInv, Waits, Holds, Way
<1>2. Sorts /\ Turns
    BY DEF FateInv
<1>3. QED
    BY <1>1, <1>2, CallWaits, EnqueueWaits, TakeWaits, DoneWaits, RecvWaits, NoWaitWaits, EndsFacts DEF Next, Recv

-----------------------------------------------------------------------------
(* An end that has frames of its own and does not move waits for the other
   to read, and is itself no longer read. *)
LEMMA BlockedEnd ==
    ASSUME LinkInv, FateInv, StopInv, ~Moves, NEW e \in Ends, sendCh[e] # <<>> \/ writing[e] # nobody
    PROVE  Stuck(Peer(e)) /\ Stuck(e)
<1>1. \A a \in Ends : ~SendMoves(a) /\ ~RecvMoves(a) /\ ~failed[a] /\ wire[a] \in Seq(Frames)
    BY DEF Moves, FateInv, StreamFates, LinkInv, Shapes
<1>2. \A a \in Ends : sendCh[a] # <<>> \/ writing[a] # nobody => writing[a] # nobody /\ ~(Len(wire[a]) <= Window)
    BY <1>1 DEF SendMoves
<1>3. ASSUME NEW a \in Ends, wire[a] # <<>>
      PROVE  out[Peer(a)] # NoFrame
  <2>1. Head(wire[a]) \in Over(wire[a]) /\ Head(wire[a]) \in Frames
      BY <1>1, <1>3, TailOver
  <2>2. Head(wire[a]).what \in Handled
      BY <2>1 DEF StopInv, Holds, Way, Frames, Kinds, Handled
  <2>3. QED
      BY <1>1, <1>3, <2>2, EndsFacts DEF RecvMoves
<1>4. ASSUME NEW a \in Ends, out[a] # NoFrame
      PROVE  Stuck(a) /\ wire[a] # <<>>
  <2>1. ~Room(a) /\ sendCh[a] \in Seq(Frames)
      BY <1>1, <1>4 DEF RecvMoves, LinkInv, Shapes
  <2>2. sendCh[a] # <<>>
      BY <2>1, BoundAssumption DEF Room
  <2>3. writing[a] # nobody /\ Len(wire[a]) > Window /\ wire[a] # <<>>
      BY <1>1, <1>2, <2>2, BoundAssumption
  <2>4. QED
      BY <1>4, <2>1, <2>3 DEF Stuck
<1>5. wire[e] # <<>>
    BY <1>1, <1>2, BoundAssumption
<1>6. Stuck(Peer(e)) /\ wire[Peer(e)] # <<>>
    BY <1>3, <1>4, <1>5, EndsFacts
<1>7. QED
    BY <1>3, <1>4, <1>6, EndsFacts

(* A frame under way, or in the hands of recv, blocks both ends alike. *)
LEMMA BlockedWay ==
    ASSUME LinkInv, FateInv, StopInv, ~Moves, NEW e \in Ends,
           sendCh[e] # <<>> \/ wire[e] # <<>> \/ out[e] # NoFrame
    PROVE  Crossed
<1>1. \A a \in Ends : ~SendMoves(a) /\ ~RecvMoves(a) /\ ~failed[a] /\ wire[a] \in Seq(Frames)
    BY DEF Moves, FateInv, StreamFates, LinkInv, Shapes
<1>2. ASSUME NEW a \in Ends, out[a] # NoFrame
      PROVE  sendCh[a] # <<>>
  <2>1. ~Room(a) /\ sendCh[a] \in Seq(Frames)
      BY <1>1, <1>2 DEF RecvMoves, LinkInv, Shapes
  <2>2. QED
      BY <2>1, BoundAssumption DEF Room
<1>3. ASSUME wire[e] # <<>>
      PROVE  out[Peer(e)] # NoFrame
  <2>1. Head(wire[e]) \in Over(wire[e]) /\ Head(wire[e]) \in Frames
      BY <1>1, <1>3, TailOver
  <2>2. Head(wire[e]).what \in Handled
      BY <2>1 DEF StopInv, Holds, Way, Frames, Kinds, Handled
  <2>3. QED
      BY <1>1, <1>3, <2>2, EndsFacts DEF RecvMoves
<1>4. \E a \in Ends : sendCh[a] # <<>>
    BY <1>2, <1>3, EndsFacts
<1>5. QED
    BY <1>4, BlockedEnd, EndsFacts DEF Crossed

(* Nothing moves: a call that has not returned then waits for a frame, of its
   own or of the peer, and no frame gets anywhere. *)
LEMMA WhereItStops == LinkInv /\ FateInv /\ StopInv => StopsReturned
<1> SUFFICES ASSUME LinkInv, FateInv, StopInv, ~Moves, NEW t \in Tasks, ~Returned(t) PROVE Crossed
    BY DEF StopsReturned
<1> PICK e : e = t[1]
    OBVIOUS
<1>0. e \in Ends /\ Peer(e) \in Ends
    BY EndsFacts
<1>1. /\ pc[t] \in Labels /\ Waits(t) /\ ~CallMoves(t) /\ Holds(e)
      /\ sendCh[e] \in Seq(Frames)
    BY <1>0 DEF LinkInv, Shapes, StopInv, Moves
<1>2. \A s \in Seq(Frames) : \A x \in Over(s) : s # <<>>
    BY DEF Over
<1>3. pc[t] \in {"register", "enqueue", "await", "answer"}
    BY <1>1 DEF Labels, Returned, CallMoves
<1>4. CASE pc[t] = "register"
  <2>1. out[e] # NoFrame
      BY <1>1, <1>4 DEF CallMoves, Holds
  <2>2. QED
      BY <1>0, <2>1, BlockedWay
<1>5. CASE pc[t] = "enqueue"
  <2>1. ~Room(e)
      BY <1>1, <1>5 DEF CallMoves
  <2>2. sendCh[e] # <<>>
      BY <1>1, <2>1, BoundAssumption DEF Room
  <2>3. QED
      BY <1>0, <2>2, BlockedWay
<1>6. CASE pc[t] = "await"
  <2>1. writing[e] # nobody \/ sendCh[e] # <<>>
      BY <1>1, <1>2, <1>6, NotTasks DEF Waits
  <2>2. QED
      BY <1>0, <2>1, BlockedEnd, EndsFacts DEF Crossed
<1>7. CASE pc[t] = "answer"
  <2>1. req[t].what = "ping" /\ t \in Pingers /\ req[t].id \in pings[e]
      BY <1>1, <1>7 DEF Waits, CallMoves, FateInv, Calls, Call
  <2>2. PICK x : x \in PingPlaces(t)
      BY <2>1, PingPlace
  <2>3. x \in Under(e, "ping", req[t].id) \/ \E y : y \in Under(Peer(e), "pong", req[t].id)
      BY <1>7, <2>1, <2>2 DEF PingPlaces, If
  <2>4. ASSUME NEW a \in Ends, NEW what, what # "none", NEW id, NEW y \in Under(a, what, id)
        PROVE  sendCh[a] # <<>> \/ wire[a] # <<>> \/ out[a] # NoFrame
    <3>1. sendCh[a] \in Seq(Frames) /\ wire[a] \in Seq(Frames)
        BY DEF LinkInv, Shapes
    <3>2. \/ \E i \in 1..Len(sendCh[a]) : TRUE
          \/ \E i \in 1..Len(wire[a]) : TRUE
          \/ out[a].what = what
        BY <2>4 DEF Under
    <3>3. NoFrame.what = "none"
        BY DEF NoFrame, Frame
    <3>4. QED
        BY <2>4, <3>1, <3>2, <3>3
  <2>5. QED
      BY <1>0, <2>3, <2>4, BlockedWay
<1>8. QED
    BY <1>3, <1>4, <1>5, <1>6, <1>7

(* Two sessions, with any number of goroutines, any queues and any
   connection between them, stop with a call that has not returned in one way
   only: both recv goroutines in sendNoWait (session.go:279). *)
THEOREM StopsOnlyCrossed == Spec => []StopsReturned
<1>1. Init => LinkInv /\ FateInv /\ StopInv
    BY InitInv, InitFate, InitStop
<1>2. (LinkInv /\ FateInv /\ StopInv) /\ [Next]_vars => (LinkInv /\ FateInv /\ StopInv)'
    BY NextKeeps, NextFate, NextStop
<1>3. QED
    BY <1>1, <1>2, WhereItStops, PTL DEF Spec
=============================================================================
