------------------------ MODULE YamuxStreamPipeProofs ------------------------
(* The handshake of a stream (SYN, ACK, FIN, RST), the bytes it carries and  *)
(* the pipe of bytes it implements.                                          *)
EXTENDS YamuxStreamPipe, YamuxStreamProofs, FiniteSetTheorems

-----------------------------------------------------------------------------
(* Frames under way *)

Has(w, flag) == \E i \in 1..Len(w) : w[i].flag = flag
NoData(w) == \A i \in 1..Len(w) : w[i].type # "data"
Lone(w) == Len(w) <= 1 /\ \A i \in 1..Len(w) : w[i].flag = "RST"

(* SYN only comes first, FIN only once, and never with data. *)
Plain(w) ==
    /\ \A i \in 1..Len(w) : w[i].flag = "SYN" => i = 1
    /\ \A i \in 1..Len(w) : w[i].type = "data" => w[i].flag \in {"none", "ACK"}
    /\ \A i, j \in 1..Len(w) : i < j /\ w[i].flag = "FIN" => w[j].flag # "FIN"

(* v is what is left of w when frames were taken from its front or cut from its end. *)
Part(v, w) == \E k \in Nat : Len(v) + k <= Len(w) /\ \A i \in 1..Len(v) : v[i] = w[i + k]

(* v is w, cut at some point. *)
Cut(v, w) == Len(v) <= Len(w) /\ \A i \in 1..Len(v) : v[i] = w[i]

(* What is left has no flag and no disorder that was not there. *)
LEMMA PartKeeps ==
    ASSUME NEW w \in Seq(Frames), NEW v \in Seq(Frames), Part(v, w)
    PROVE  /\ Plain(w) => Plain(v)
           /\ \A flag : Has(v, flag) => Has(w, flag)
           /\ Lone(w) => Lone(v)
           /\ NoData(w) => NoData(v)
           /\ w = << >> => v = << >>
<1>1. Len(v) \in Nat /\ Len(w) \in Nat
  BY LenProperties
<1>2. PICK k \in Nat : Len(v) + k <= Len(w) /\ \A i \in 1..Len(v) : v[i] = w[i + k]
  BY DEF Part
<1>3. \A i \in 1..Len(v) : i + k \in 1..Len(w) /\ v[i] = w[i + k]
  BY <1>1, <1>2
<1>4. ASSUME Plain(w) PROVE Plain(v)
  <2>1. \A i \in 1..Len(v) : v[i].flag = "SYN" => i = 1
    BY <1>1, <1>3, <1>4 DEF Plain
  <2>2. \A i \in 1..Len(v) : v[i].type = "data" => v[i].flag \in {"none", "ACK"}
    BY <1>3, <1>4 DEF Plain
  <2>3. ASSUME NEW i \in 1..Len(v), NEW j \in 1..Len(v), i < j, v[i].flag = "FIN"
        PROVE  v[j].flag # "FIN"
    <3>1. i + k < j + k
      BY <1>1, <2>3
    <3>2. /\ i + k \in 1..Len(w) /\ j + k \in 1..Len(w)
          /\ v[i] = w[i + k] /\ v[j] = w[j + k]
      BY <1>3
    <3>3. w[i + k].flag = "FIN"
      BY <2>3, <3>2
    <3>4. w[j + k].flag # "FIN"
      BY <1>4, <3>1, <3>2, <3>3 DEF Plain
    <3>. QED  BY <3>2, <3>4
  <2>. QED  BY <2>1, <2>2, <2>3 DEF Plain
<1>5. \A flag : Has(v, flag) => Has(w, flag)
  BY <1>3 DEF Has
<1>6. (Lone(w) => Lone(v)) /\ (NoData(w) => NoData(v))
  <2>1. Len(w) <= 1 => Len(v) <= 1
    BY <1>1, <1>2
  <2>. QED  BY <1>3, <2>1 DEF Lone, NoData
<1>7. w = << >> => v = << >>
  BY <1>1, <1>2, EmptySeq
<1>. QED  BY <1>4, <1>5, <1>6, <1>7

(* Everything, nothing, a prefix and the tail of w are parts of w. *)
LEMMA Parts ==
    ASSUME NEW w \in Seq(Frames)
    PROVE  /\ Part(w, w)
           /\ Part(<< >>, w)
           /\ \A n \in 0..Len(w) : SubSeq(w, 1, n) \in Seq(Frames) /\ Part(SubSeq(w, 1, n), w)
           /\ w # << >> => Part(Tail(w), w) /\ Tail(w) \in Seq(Frames)
<1>1. Len(w) \in Nat /\ << >> \in Seq(Frames) /\ Len(<< >>) = 0
  BY LenProperties, EmptySeq
<1>2. Part(w, w) /\ Part(<< >>, w)
  <2>1. 0 \in Nat /\ Len(w) + 0 <= Len(w) /\ \A i \in 1..Len(w) : w[i] = w[i + 0]
    BY <1>1
  <2>2. 0 \in Nat /\ Len(<< >>) + 0 <= Len(w) /\ \A i \in 1..Len(<< >>) : << >>[i] = w[i + 0]
    BY <1>1
  <2>. QED  BY <2>1, <2>2 DEF Part
<1>3. ASSUME NEW n \in 0..Len(w)
      PROVE  SubSeq(w, 1, n) \in Seq(Frames) /\ Part(SubSeq(w, 1, n), w)
  <2>1. /\ SubSeq(w, 1, n) \in Seq(Frames) /\ Len(SubSeq(w, 1, n)) = n
        /\ \A i \in 1..n : SubSeq(w, 1, n)[i] = w[i + 0]
    BY <1>1, SubSeqProperties
  <2>. QED  BY <1>1, <2>1 DEF Part
<1>4. ASSUME w # << >> PROVE Part(Tail(w), w) /\ Tail(w) \in Seq(Frames)
  <2>1. /\ Tail(w) \in Seq(Frames) /\ Len(Tail(w)) = Len(w) - 1 /\ Len(w) >= 1
        /\ \A i \in 1..Len(Tail(w)) : Tail(w)[i] = w[i + 1]
    BY <1>1, <1>4, HeadTailProperties, EmptySeq
  <2>. QED  BY <1>1, <2>1 DEF Part
<1>. QED  BY <1>2, <1>3, <1>4

(* Cutting a sequence leaves a part of it. *)
LEMMA Cuts ==
    ASSUME NEW w \in Seq(Frames)
    PROVE  /\ Cut(w, w) /\ Cut(<< >>, w)
           /\ \A n \in 0..Len(w) : SubSeq(w, 1, n) \in Seq(Frames) /\ Cut(SubSeq(w, 1, n), w)
           /\ \A v \in Seq(Frames) : Cut(v, w) => Part(v, w)
<1>1. Len(w) \in Nat /\ << >> \in Seq(Frames) /\ Len(<< >>) = 0
  BY LenProperties, EmptySeq
<1>2. Cut(w, w) /\ Cut(<< >>, w)
  BY <1>1 DEF Cut
<1>3. ASSUME NEW n \in 0..Len(w) PROVE SubSeq(w, 1, n) \in Seq(Frames) /\ Cut(SubSeq(w, 1, n), w)
  <2>1. /\ SubSeq(w, 1, n) \in Seq(Frames) /\ Len(SubSeq(w, 1, n)) = n
        /\ \A i \in 1..n : SubSeq(w, 1, n)[i] = w[i]
    BY <1>1, SubSeqProperties
  <2>. QED  BY <1>1, <2>1 DEF Cut
<1>4. ASSUME NEW v \in Seq(Frames), Cut(v, w) PROVE Part(v, w)
  <2>1. 0 \in Nat /\ Len(v) + 0 <= Len(w) /\ \A i \in 1..Len(v) : v[i] = w[i + 0]
    BY <1>1, <1>4, LenProperties DEF Cut
  <2>. QED  BY <2>1 DEF Part
<1>. QED  BY <1>2, <1>3, <1>4

(* The tail has lost what the head was the only one to carry. *)
LEMMA TailLoses ==
    ASSUME NEW w \in Seq(Frames), w # << >>, Plain(w)
    PROVE  /\ Has(w, Head(w).flag)
           /\ ~Has(Tail(w), "SYN")
           /\ Head(w).flag = "FIN" => ~Has(Tail(w), "FIN")
           /\ \A flag : Has(w, flag) => Head(w).flag = flag \/ Has(Tail(w), flag)
           /\ Lone(w) => Tail(w) = << >> /\ Head(w).flag = "RST"
           /\ Head(w).flag \notin {"none", "ACK"} => Head(w).type = "window"
<1>1. /\ Tail(w) \in Seq(Frames) /\ Len(Tail(w)) = Len(w) - 1
      /\ Head(w) = w[1] /\ Len(w) \in Nat /\ Len(w) >= 1
      /\ \A i \in 1..Len(Tail(w)) : Tail(w)[i] = w[i + 1]
  BY HeadTailProperties, EmptySeq
<1>2. 1 \in 1..Len(w) /\ \A i \in 1..Len(Tail(w)) : i + 1 \in 1..Len(w) /\ i + 1 > 1
  BY <1>1
<1>3. Has(w, Head(w).flag)
  BY <1>1, <1>2 DEF Has
<1>4. ~Has(Tail(w), "SYN")
  BY <1>1, <1>2 DEF Has, Plain
<1>5. Head(w).flag = "FIN" => ~Has(Tail(w), "FIN")
  BY <1>1, <1>2 DEF Has, Plain
<1>6. ASSUME NEW i \in 1..Len(w), i # 1 PROVE i - 1 \in 1..Len(Tail(w)) /\ Tail(w)[i - 1] = w[i]
  <2>1. i - 1 \in 1..Len(Tail(w))
    BY <1>1, <1>6
  <2>2. Tail(w)[i - 1] = w[(i - 1) + 1]
    BY <1>1, <2>1
  <2>. QED  BY <2>1, <2>2
<1>7. \A flag : Has(w, flag) => Head(w).flag = flag \/ Has(Tail(w), flag)
  BY <1>1, <1>6 DEF Has
<1>8. Lone(w) => Tail(w) = << >> /\ Head(w).flag = "RST"
  BY <1>1, <1>2, EmptySeq DEF Lone
<1>9. Head(w).flag \notin {"none", "ACK"} => Head(w).type = "window"
  BY <1>1, <1>2, ElementOfSeq DEF Plain, Frames
<1>. QED  BY <1>3, <1>4, <1>5, <1>7, <1>8, <1>9

(* A frame is added at the end. *)
LEMMA AppendAdds ==
    ASSUME NEW w \in Seq(Frames), NEW f \in Frames
    PROVE  /\ Append(w, f) \in Seq(Frames) /\ Append(w, f) # << >>
           /\ \A flag : Has(Append(w, f), flag) <=> Has(w, flag) \/ f.flag = flag
           /\ (/\ Plain(w) /\ (f.flag = "SYN" => w = << >>) /\ (f.flag = "FIN" => ~Has(w, "FIN"))
               /\ (f.type = "data" => f.flag \in {"none", "ACK"})) => Plain(Append(w, f))
           /\ w = << >> /\ f.flag = "RST" => Lone(Append(w, f))
<1>. DEFINE v == Append(w, f)
            n == Len(w)
<1>1. /\ v \in Seq(Frames) /\ Len(v) = n + 1 /\ n \in Nat
      /\ v[n + 1] = f /\ \A i \in 1..n : v[i] = w[i]
  BY AppendProperties, LenProperties
<1>2. v # << >>
  BY <1>1, EmptySeq
<1>3. \A i \in 1..Len(v) : (i \in 1..n /\ v[i] = w[i]) \/ (i = n + 1 /\ v[i] = f)
  BY <1>1
<1>4. n + 1 \in 1..Len(v) /\ \A i \in 1..n : i \in 1..Len(v)
  BY <1>1
<1>5. w = << >> => n = 0
  BY EmptySeq
<1>. HIDE DEF v
<1>6. \A flag : Has(v, flag) <=> Has(w, flag) \/ f.flag = flag
  BY <1>1, <1>3, <1>4 DEF Has
<1>7. ASSUME Plain(w), f.flag = "SYN" => w = << >>, f.flag = "FIN" => ~Has(w, "FIN"),
             f.type = "data" => f.flag \in {"none", "ACK"}
      PROVE  Plain(v)
  <2>1. \A i \in 1..Len(v) : v[i].flag = "SYN" => i = 1
    BY <1>1, <1>3, <1>5, <1>7 DEF Plain
  <2>2. \A i \in 1..Len(v) : v[i].type = "data" => v[i].flag \in {"none", "ACK"}
    BY <1>3, <1>7 DEF Plain
  <2>3. \A i, j \in 1..Len(v) : i < j /\ v[i].flag = "FIN" => v[j].flag # "FIN"
    BY <1>1, <1>3, <1>7 DEF Plain, Has
  <2>. QED  BY <2>1, <2>2, <2>3 DEF Plain
<1>8. w = << >> /\ f.flag = "RST" => Lone(v)
  BY <1>1, <1>3, <1>5 DEF Lone
<1>9. v \in Seq(Frames)
  BY <1>1
<1>. QED  BY <1>2, <1>6, <1>7, <1>8, <1>9 DEF v

(* Nothing is on an empty wire. *)
LEMMA EmptyHas == /\ \A flag : ~Has(<< >>, flag)
                  /\ Plain(<< >>) /\ Lone(<< >>) /\ NoData(<< >>)
  BY EmptySeq DEF Has, Plain, Lone, NoData

-----------------------------------------------------------------------------
(* The handshake *)

(* Has e handled its peer's FIN?  (A force-closed stream is "Closed" too.) *)
Told(e) == state[e] = "RemoteClose" \/ (state[e] = "Closed" /\ ~Shut(e))

(* No user touches a stream that OpenStream or AcceptStream has not returned. *)
UsersWait ==
    \A e \in Sides :
        /\ pc[e]["setup"] \in {"idle", "register", "update", "send", "flush", "ready", "failed"}
        /\ pc[e]["setup"] = "failed" => Shut(e)
        /\ ~Ready(e) => /\ \A t \in Tasks \ {"setup"} : pc[e][t] = "idle"
                        /\ sent[e] = 0 /\ delivered[e] = << >>

(* While a session is up, its streams are the ones that are not over. *)
Registered ==
    \A e \in Sides :
        /\ state[e] \notin {"none", "Closed", "Reset"} => registered[e]
        /\ registered[e] /\ ~Shut(e) => state[e] \notin {"none", "Closed", "Reset"}

(* Before the SYN leaves the opener, nothing of the stream is anywhere else. *)
BeforeSyn ==
    state["opener"] \in {"none", "Init"}
       \/ pc["opener"]["setup"] \in {"idle", "register", "update", "send"}
    => /\ state["acceptor"] = "none" /\ state["opener"] # "Reset"
       /\ wire["opener"] = << >> /\ wire["acceptor"] = << >>

(* The opener's end as OpenStream makes it. *)
Opening ==
    /\ pc["opener"]["setup"] \in {"idle", "register"} => state["opener"] = "none"
    /\ state["opener"] = "none" =>
          /\ pc["opener"]["setup"] \in {"idle", "register", "failed"}
          /\ ~registered["opener"] /\ recvBuf["opener"] = << >>
    /\ pc["opener"]["setup"] = "update" /\ ~Shut("opener") => state["opener"] = "Init"
    /\ pc["opener"]["setup"] = "send" /\ ~Shut("opener") => ctl["opener"].flag = "SYN"

(* The acceptor's end before incomingStream makes it: at most a refusal is on its way. *)
Unborn ==
    /\ pc["acceptor"]["setup"] # "register" /\ state["acceptor"] # "Init"
    /\ state["acceptor"] = "none" =>
          /\ pc["acceptor"]["setup"] \in {"idle", "failed"}
          /\ ~registered["acceptor"] /\ ~queued /\ recvBuf["acceptor"] = << >>
          /\ Lone(wire["acceptor"])

(* One SYN, by the opener's setup, and nothing comes back before it is handled. *)
SynOnce ==
    /\ \A e \in Sides : ctl[e].flag = "SYN" => e = "opener" /\ ctl[e].holder = "setup"
    /\ ~Has(wire["acceptor"], "SYN")
    /\ Has(wire["opener"], "SYN") =>
          /\ state["acceptor"] = "none" /\ wire["acceptor"] = << >>
          /\ state["opener"] # "Reset"

(* A RST only refuses the opener's stream, and finds it. *)
RstOnce ==
    /\ \A e \in Sides : ctl[e].flag # "RST"
    /\ ~Has(wire["opener"], "RST") /\ state["acceptor"] # "Reset"
    /\ Has(wire["acceptor"], "RST") =>
          state["acceptor"] = "none" /\ (~Broken => registered["opener"])

(* One FIN, by Close, and the peer has not seen it while it is not sent or under way. *)
FinOnce ==
    \A e \in Sides :
        /\ ctl[e].flag = "FIN" <=> ctl[e].holder = "closer"
        /\ pc[e]["closer"] \in {"idle", "fin", "send", "flush", "done"}
        /\ pc[e]["closer"] \in {"idle", "fin", "send"} =>
              ~Has(wire[e], "FIN") /\ ~Told(Peer(e))
        /\ Has(wire[e], "FIN") => ~Told(Peer(e))

(* The states Close leaves, and nothing else does while the session is up. *)
ClosedByClose ==
    \A e \in Sides : ~Shut(e) =>
        /\ pc[e]["closer"] # "idle" => state[e] \in {"LocalClose", "Closed", "Reset"}
        /\ state[e] \in {"LocalClose", "Closed"} => pc[e]["closer"] # "idle"

(* The SYN of a stream the acceptor has not heard of is the first frame under way. *)
SynWaits ==
    ~Broken /\ ~Rejected /\ state["acceptor"] = "none"
        /\ pc["opener"]["setup"] \in {"flush", "ready"} => Has(wire["opener"], "SYN")

(* A half-close is not lost. *)
HalfClosed ==
    ~Broken /\ ~Rejected => \A e \in Sides :
        state[e] \in {"LocalClose", "Closed"} =>
            pc[e]["closer"] \in {"fin", "send"} \/ Has(wire[e], "FIN") \/ Told(Peer(e))

WiresPlain == \A e \in Sides : Plain(wire[e])

Handshake == /\ UsersWait /\ Registered /\ BeforeSyn /\ Opening /\ Unborn /\ SynOnce
             /\ RstOnce /\ FinOnce /\ ClosedByClose /\ SynWaits /\ HalfClosed /\ WiresPlain

(* The two ends by name. *)
LEMMA Ends ==
    /\ "opener" \in Sides /\ "acceptor" \in Sides
    /\ Peer("opener") = "acceptor" /\ Peer("acceptor") = "opener"
    /\ \A e \in Sides : e = "opener" \/ e = "acceptor"
  BY DEF Sides, Peer

(* A refusal is seen by its flag. *)
LEMMA RejectedHas == Rejected <=> state["opener"] = "Reset" \/ Has(wire["acceptor"], "RST")
  BY DEF Rejected, Has

(* One task moved: the users still wait for OpenStream and AcceptStream. *)
LEMMA UsersWaitKept ==
    ASSUME TypeOK, UsersWait, NEW e \in Sides, NEW t \in Tasks, NEW l, Goto(e, t, l),
           shutdownErr' = shutdownErr, delivered' = delivered, sent' = sent,
           t = "setup" => /\ l \in {"register", "update", "send", "flush", "ready", "failed"}
                          /\ l = "failed" => Shut(e)
                          /\ ~Ready(e),
           t # "setup" => Ready(e)
    PROVE  UsersWait'
<1>1. /\ pc'[e][t] = l
      /\ \A d \in Sides : \A u \in Tasks : d # e \/ u # t => pc'[d][u] = pc[d][u]
  BY Moved
<1>2. \A d \in Sides : Shut(d)' <=> Shut(d)
  BY DEF Shut
<1>. SUFFICES ASSUME NEW d \in Sides
              PROVE  /\ pc'[d]["setup"] \in
                           {"idle", "register", "update", "send", "flush", "ready", "failed"}
                     /\ pc'[d]["setup"] = "failed" => Shut(d)
                     /\ pc'[d]["setup"] # "ready" =>
                           /\ \A u \in Tasks \ {"setup"} : pc'[d][u] = "idle"
                           /\ sent[d] = 0 /\ delivered[d] = << >>
  BY <1>2 DEF UsersWait, Ready
<1>3. CASE d = e /\ t = "setup"
  <2>1. \A u \in Tasks \ {"setup"} : pc'[d][u] = pc[d][u]
    BY <1>1, <1>3
  <2>. QED  BY <1>1, <1>3, <2>1 DEF UsersWait
<1>4. CASE d # e \/ t # "setup"
  <2>1. pc'[d]["setup"] = pc[d]["setup"]
    BY <1>1, <1>4, TaskFacts
  <2>2. pc[d]["setup"] # "ready" => d # e
    BY <1>4 DEF Ready
  <2>3. pc[d]["setup"] # "ready" => \A u \in Tasks \ {"setup"} : pc'[d][u] = pc[d][u]
    BY <1>1, <2>2
  <2>. QED  BY <2>1, <2>3 DEF UsersWait, Ready
<1>. QED  BY <1>3, <1>4

(* A task of a user's call moves and no frame does. *)
LEMMA UserStep ==
    ASSUME TypeOK, Handshake, NEW e \in Sides, Ready(e), NEW t \in Tasks \ {"setup", "closer"},
           NEW l, Goto(e, t, l), UNCHANGED <<state, lifeVars, wire, ctl, sent>>,
           \A d \in Sides : d # e => delivered'[d] = delivered[d] /\ recvBuf'[d] = recvBuf[d]
    PROVE  Handshake'
<1>1. \A d \in Sides : /\ pc'[d]["setup"] = pc[d]["setup"] /\ pc'[d]["closer"] = pc[d]["closer"]
                       /\ d # e => \A u \in Tasks : pc'[d][u] = pc[d][u]
  BY Moved, TaskFacts
<1>2. /\ state' = state /\ registered' = registered /\ queued' = queued
      /\ shutdownErr' = shutdownErr /\ wire' = wire /\ ctl' = ctl /\ sent' = sent
  BY DEF lifeVars
<1>3. \A d \in Sides : (Shut(d)' <=> Shut(d)) /\ (Told(d)' <=> Told(d)) /\ (Ready(d)' <=> Ready(d))
  BY <1>1, <1>2 DEF Shut, Told, Ready
<1>4. Broken' <=> Broken
  BY <1>2 DEF Broken, Shut
<1>5. Rejected' <=> Rejected
  BY <1>2 DEF Rejected
<1>6. UsersWait'
  BY <1>1, <1>2, <1>3 DEF Handshake, UsersWait
<1>7. Registered' /\ BeforeSyn' /\ SynOnce' /\ RstOnce' /\ WiresPlain'
  BY <1>1, <1>2, <1>3, <1>4, Ends DEF Handshake, Registered, BeforeSyn, SynOnce, RstOnce, WiresPlain
<1>8. state[e] # "none"
  BY Ends DEF Handshake, Opening, Unborn, Ready
<1>9. Opening' /\ Unborn'
  BY <1>1, <1>2, <1>3, <1>8, Ends DEF Handshake, Opening, Unborn
<1>10. FinOnce' /\ ClosedByClose'
  BY <1>1, <1>2, <1>3, PeerOf DEF Handshake, FinOnce, ClosedByClose
<1>11. SynWaits' /\ HalfClosed'
  BY <1>1, <1>2, <1>3, <1>4, <1>5, Ends, PeerOf DEF Handshake, SynWaits, HalfClosed
<1>. QED  BY <1>6, <1>7, <1>9, <1>10, <1>11 DEF Handshake

(* What the invariant says of the acceptor before it has a stream. *)
LEMMA UnbornIdle ==
    ASSUME TypeOK, FlowAccounts, Handshake, NEW e \in Sides, state[e] = "none"
    PROVE  /\ ~Ready(e) /\ ctl[e] = Free
           /\ \A t \in Tasks \ {"setup"} : pc[e][t] = "idle"
           /\ sent[e] = 0 /\ delivered[e] = << >> /\ recvBuf[e] = << >> /\ ~registered[e]
<1>1. ~Ready(e) /\ ~registered[e] /\ recvBuf[e] = << >>
      /\ pc[e]["setup"] \in {"idle", "register", "failed"}
  BY Ends DEF Handshake, Opening, Unborn, Ready
<1>2. /\ \A t \in Tasks \ {"setup"} : pc[e][t] = "idle"
      /\ sent[e] = 0 /\ delivered[e] = << >>
  BY <1>1 DEF Handshake, UsersWait
<1>3. ctl[e] = Free
  <2>1. \A t \in CtlTasks(e) : pc[e][t] \notin {"send", "flush"}
    BY <1>1, <1>2, TaskFacts
  <2>. QED  BY <2>1 DEF FlowAccounts, CtlLock
<1>. QED  BY <1>1, <1>2, <1>3

(* Only the setup task moves: OpenStream's check and AcceptStream's select. *)
LEMMA SelectHandshake ==
    ASSUME TypeOK, Handshake, NEW e \in Sides, NEW l, Goto(e, "setup", l),
           pc[e]["setup"] = "idle", l \in {"register", "failed", "update"},
           UNCHANGED <<state, registered, shutdownErr, wire, ctl, sent, delivered, recvBuf>>,
           e = "opener" => l # "update", e = "acceptor" => l # "register",
           l = "update" => queued, queued' => queued, l = "failed" => Shut(e)
    PROVE  Handshake'
<1>2. /\ pc'[e]["setup"] = l
      /\ \A d \in Sides : /\ pc'[d]["closer"] = pc[d]["closer"]
                          /\ d # e => pc'[d]["setup"] = pc[d]["setup"]
                          /\ \A t \in Tasks \ {"setup"} : pc'[d][t] = pc[d][t]
  BY Moved, TaskFacts
<1>3. /\ state' = state /\ registered' = registered /\ shutdownErr' = shutdownErr
      /\ wire' = wire /\ ctl' = ctl /\ sent' = sent /\ delivered' = delivered /\ recvBuf' = recvBuf
  OBVIOUS
<1>4. \A d \in Sides : (Shut(d)' <=> Shut(d)) /\ (Told(d)' <=> Told(d)) /\ (Ready(d)' <=> Ready(d))
  BY <1>2, <1>3 DEF Shut, Ready, Told
<1>5. (Broken' <=> Broken) /\ (Rejected' <=> Rejected)
  BY <1>3 DEF Broken, Shut, Rejected
<1>6. UsersWait'
  BY <1>2, <1>3, <1>4 DEF Handshake, UsersWait
<1>7. Registered' /\ SynOnce' /\ RstOnce' /\ WiresPlain'
  BY <1>3, <1>4, <1>5 DEF Handshake, Registered, SynOnce, RstOnce, WiresPlain
<1>8. BeforeSyn'
  <2>1. CASE e = "opener"
    BY <1>2, <1>3, <2>1, Ends DEF Handshake, BeforeSyn
  <2>2. CASE e = "acceptor"
    BY <1>2, <1>3, <2>2, Ends DEF Handshake, BeforeSyn
  <2>. QED  BY <2>1, <2>2, Ends
<1>9. Opening'
  <2>1. CASE e = "opener"
    BY <1>2, <1>3, <1>4, <2>1, Ends DEF Handshake, Opening
  <2>2. CASE e = "acceptor"
    BY <1>2, <1>3, <1>4, <2>2, Ends DEF Handshake, Opening
  <2>. QED  BY <2>1, <2>2, Ends
<1>10. Unborn'
  <2>1. CASE e = "opener"
    BY <1>2, <1>3, <2>1, Ends DEF Handshake, Unborn
  <2>2. CASE e = "acceptor"
    BY <1>2, <1>3, <2>2, Ends DEF Handshake, Unborn
  <2>. QED  BY <2>1, <2>2, Ends
<1>11. FinOnce' /\ ClosedByClose'
  BY <1>2, <1>3, <1>4, PeerOf DEF Handshake, FinOnce, ClosedByClose
<1>12. SynWaits'
  <2>1. pc'["opener"]["setup"] \in {"flush", "ready"} => pc["opener"]["setup"] \in {"flush", "ready"}
    BY <1>2, Ends
  <2>. QED  BY <1>3, <1>5, <2>1 DEF Handshake, SynWaits
<1>13. HalfClosed'
  BY <1>2, <1>3, <1>4, <1>5, PeerOf DEF Handshake, HalfClosed
<1>. QED  BY <1>6, <1>7, <1>8, <1>9, <1>10, <1>11, <1>12, <1>13 DEF Handshake

(* OpenStream registers its end, the first of the stream. *)
LEMMA RegisterHandshake ==
    ASSUME TypeOK, Handshake, OpenRegister
    PROVE  Handshake'
<1>1. /\ Goto("opener", "setup", "update") /\ pc["opener"]["setup"] = "register"
      /\ state["opener"] = "none" /\ ~registered["opener"]
      /\ state' = [state EXCEPT !["opener"] = "Init"]
      /\ registered' = [registered EXCEPT !["opener"] = TRUE]
      /\ queued' = queued /\ shutdownErr' = shutdownErr
      /\ wire' = wire /\ ctl' = ctl /\ sent' = sent /\ delivered' = delivered /\ recvBuf' = recvBuf
  BY DEF OpenRegister, Handshake, Opening, lifeVars, windowVars, bufVars
<1>2. /\ pc'["opener"]["setup"] = "update" /\ pc'["acceptor"]["setup"] = pc["acceptor"]["setup"]
      /\ \A d \in Sides : /\ pc'[d]["closer"] = pc[d]["closer"]
                          /\ \A t \in Tasks \ {"setup"} : pc'[d][t] = pc[d][t]
  BY <1>1, Moved, TaskFacts, Ends
<1>3. /\ state'["opener"] = "Init" /\ state'["acceptor"] = state["acceptor"]
      /\ registered'["opener"] /\ registered'["acceptor"] = registered["acceptor"]
  BY <1>1, Ends DEF TypeOK
<1>4. \A d \in Sides : (Shut(d)' <=> Shut(d)) /\ (Told(d)' <=> Told(d)) /\ (Ready(d)' <=> Ready(d))
  BY <1>1, <1>2, <1>3, Ends DEF Shut, Ready, Told
<1>5. (Broken' <=> Broken) /\ (Rejected' <=> Rejected)
  <2>1. Broken' <=> Broken
    BY <1>4 DEF Broken
  <2>. QED  BY <1>1, <1>3, <2>1 DEF Rejected
<1>6. UsersWait'
  BY <1>1, UsersWaitKept, TaskFacts DEF Handshake, Ready
<1>7. Registered' /\ SynOnce' /\ RstOnce' /\ WiresPlain'
  BY <1>1, <1>3, <1>4, <1>5, Ends DEF Handshake, Registered, SynOnce, RstOnce, WiresPlain
<1>8. BeforeSyn' /\ Opening' /\ Unborn'
  BY <1>1, <1>2, <1>3, <1>4 DEF Handshake, BeforeSyn, Opening, Unborn
<1>9. FinOnce'
  BY <1>1, <1>2, <1>4, PeerOf DEF Handshake, FinOnce
<1>10. ClosedByClose'
  <2>1. pc["opener"]["closer"] = "idle"
    BY <1>1, Ends, TaskFacts DEF Handshake, UsersWait, Ready
  <2>. QED  BY <1>2, <1>3, <1>4, <2>1, Ends DEF Handshake, ClosedByClose
<1>11. SynWaits'
  BY <1>1, <1>2, <1>3, <1>5 DEF Handshake, SynWaits
<1>12. HalfClosed'
  BY <1>1, <1>2, <1>3, <1>4, <1>5, Ends DEF Handshake, HalfClosed
<1>. QED  BY <1>6, <1>7, <1>8, <1>9, <1>10, <1>11, <1>12 DEF Handshake

(* Each way the setup task begins. *)
LEMMA SetupHandshake ==
    ASSUME TypeOK, Handshake, Setup
    PROVE  Handshake'
<1>1. CASE OpenCheck
  <2>1. \E l : Goto("opener", "setup", l) /\ l \in {"register", "failed"} /\ (l = "failed" => Shut("opener"))
    BY <1>1 DEF OpenCheck
  <2>. QED  BY <1>1, <2>1, Ends, SelectHandshake DEF OpenCheck, lifeVars, windowVars, bufVars
<1>2. CASE AcceptStream
  BY <1>2, Ends, SelectHandshake DEF AcceptStream, windowVars, bufVars
<1>3. CASE AcceptShutdown
  BY <1>3, Ends, SelectHandshake DEF AcceptShutdown, lifeVars, windowVars, bufVars
<1>. QED  BY <1>1, <1>2, <1>3, RegisterHandshake DEF Setup

(* sendFlags only leaves Init and SYNReceived, and only names SYN and ACK. *)
LEMMA FlaggedFacts ==
    ASSUME NEW s
    PROVE  /\ Flagged(s) # "Init"
           /\ \A x \in {"none", "RemoteClose", "LocalClose", "Closed", "Reset"} : Flagged(s) = x <=> s = x
           /\ SendFlag(s) \in {"none", "SYN", "ACK"} /\ (SendFlag(s) = "SYN" <=> s = "Init")
  BY DEF Flagged, SendFlag

(* sendWindowUpdate loads a header, or finds it not worth while. *)
LEMMA LoadUpdateHandshake ==
    ASSUME TypeOK, OpenedFirst, FlowAccounts, Handshake, NEW e \in Sides, NEW t \in CtlTasks(e),
           LoadUpdate(e, t)
    PROVE  Handshake'
<1>. DEFINE flag == SendFlag(state[e])
<1>1. /\ pc[e][t] = "update" /\ ctl[e] = Free
      /\ state' = [state EXCEPT ![e] = Flagged(state[e])]
      /\ UNCHANGED <<registered, queued, shutdownErr, wire, sent, delivered, recvBuf>>
  BY DEF LoadUpdate, lifeVars, bufVars
<1>2. PICK l : /\ Goto(e, t, l)
               /\ \/ l = After(t) /\ ctl' = ctl /\ flag = "none"
                  \/ l = "send" /\ \E x : ctl' = [ctl EXCEPT ![e] = [holder |-> t, flag |-> flag, delta |-> x]]
  BY DEF LoadUpdate
<1>3. t \in Tasks /\ t # "writer" /\ t # "closer"
  BY <1>1, NotWriter, Ends DEF Handshake, FinOnce
<1>4. /\ pc'[e][t] = l
      /\ \A d \in Sides : /\ pc'[d]["closer"] = pc[d]["closer"]
                          /\ \A u \in Tasks : d # e \/ u # t => pc'[d][u] = pc[d][u]
  BY <1>2, <1>3, Moved, TaskFacts
<1>5. /\ state'[e] = Flagged(state[e]) /\ \A d \in Sides : d # e => state'[d] = state[d]
      /\ \A d \in Sides : d # e => ctl'[d] = ctl[d]
      /\ ctl'[e] = ctl[e] \/ (ctl'[e].holder = t /\ ctl'[e].flag = flag)
      /\ l = "send" => ctl'[e].flag = flag
  BY <1>1, <1>2 DEF TypeOK, After
<1>6. /\ \A d \in Sides : state'[d] = "Init" => state[d] = "Init"
      /\ \A d \in Sides, x \in {"none", "RemoteClose", "LocalClose", "Closed", "Reset"} :
            state'[d] = x <=> state[d] = x
      /\ flag \in {"none", "SYN", "ACK"} /\ (flag = "SYN" <=> state[e] = "Init")
  BY <1>5, FlaggedFacts
<1>7. Free.flag = "none" /\ Free.holder = "free"
  BY DEF Free
<1>8. /\ registered' = registered /\ queued' = queued /\ shutdownErr' = shutdownErr /\ wire' = wire
      /\ sent' = sent /\ delivered' = delivered /\ recvBuf' = recvBuf
  BY <1>1
<1>9. /\ \A d \in Sides : (Shut(d)' <=> Shut(d)) /\ (Told(d)' <=> Told(d))
      /\ Broken' <=> Broken
      /\ Rejected' <=> Rejected
  <2>1. \A d \in Sides : (Shut(d)' <=> Shut(d)) /\ (Told(d)' <=> Told(d))
    BY <1>6, <1>8 DEF Shut, Told
  <2>2. Broken' <=> Broken
    BY <2>1 DEF Broken
  <2>3. Rejected' <=> Rejected
    BY <1>6, <1>8, Ends DEF Rejected
  <2>. QED  BY <2>1, <2>2, <2>3
<1>10. t # "setup" => Ready(e) /\ l # "ready"
  BY <1>1, <1>2, <1>3 DEF Handshake, UsersWait, After
<1>11. t = "setup" => l \in {"ready", "send"} /\ ~Ready(e)
  BY <1>1, <1>2 DEF After, Ready
<1>12. state[e] = "Init" => e = "opener" /\ t = "setup" /\ l = "send"
  BY <1>2, <1>6, <1>10, Ends DEF OpenedFirst, Ready, Handshake, Unborn
<1>13. \A d \in Sides : d # e \/ t # "setup" => pc'[d]["setup"] = pc[d]["setup"]
  BY <1>4, TaskFacts
<1>14. UsersWait'
  BY <1>2, <1>3, <1>8, <1>10, <1>11, UsersWaitKept DEF Handshake
<1>15. Registered' /\ WiresPlain'
  BY <1>6, <1>8, <1>9 DEF Handshake, Registered, WiresPlain
<1>16. BeforeSyn'
  <2>1. /\ state'["opener"] \in {"none", "Init"} => state["opener"] \in {"none", "Init"}
        /\ state["acceptor"] = "none" => state'["acceptor"] = "none"
        /\ state'["opener"] = "Reset" => state["opener"] = "Reset"
    BY <1>6, Ends
  <2>2. pc'["opener"]["setup"] \in {"idle", "register", "update", "send"}
           => pc["opener"]["setup"] \in {"idle", "register", "update", "send"}
    BY <1>1, <1>13, Ends
  <2>. QED  BY <1>8, <2>1, <2>2 DEF Handshake, BeforeSyn
<1>17. Opening'
  <2>1. CASE e = "opener" /\ t = "setup"
    BY <1>1, <1>2, <1>4, <1>5, <1>6, <1>8, <1>9, <1>11, <2>1 DEF Handshake, Opening
  <2>2. CASE e # "opener" \/ t # "setup"
    <3>1. pc'["opener"]["setup"] = pc["opener"]["setup"]
      BY <1>13, <2>2, Ends
    <3>2. e = "opener" => pc["opener"]["setup"] = "ready"
      BY <1>10, <2>2 DEF Ready
    <3>3. e # "opener" => state'["opener"] = state["opener"] /\ ctl'["opener"] = ctl["opener"]
      BY <1>5, Ends
    <3>. QED  BY <1>6, <1>8, <1>9, <3>1, <3>2, <3>3, Ends DEF Handshake, Opening
  <2>. QED  BY <2>1, <2>2
<1>18. Unborn'
  <2>1. e = "acceptor" => state["acceptor"] # "none"
    BY <1>1, <1>10 DEF Handshake, Unborn, Ready
  <2>2. e # "acceptor" => pc'["acceptor"]["setup"] = pc["acceptor"]["setup"]
    BY <1>13, Ends
  <2>3. pc'["acceptor"]["setup"] # "register"
    BY <1>4, <1>11, <1>13, Ends DEF Handshake, Unborn
  <2>. QED  BY <1>6, <1>8, <2>1, <2>2, <2>3, Ends DEF Handshake, Unborn
<1>19. SynOnce'
  BY <1>5, <1>6, <1>8, <1>12, Ends DEF Handshake, SynOnce
<1>20. RstOnce'
  BY <1>5, <1>6, <1>8, <1>9, Ends DEF Handshake, RstOnce
<1>21. FinOnce'
  BY <1>3, <1>4, <1>5, <1>6, <1>8, <1>9, PeerOf DEF Handshake, FinOnce
<1>22. ClosedByClose'
  BY <1>4, <1>6, <1>9 DEF Handshake, ClosedByClose
<1>23. SynWaits'
  <2>1. CASE e = "opener" /\ t = "setup"
    <3>1. ~Broken => l = "send"
      BY <1>1, <1>12, <2>1, Ends DEF Handshake, Opening, Broken
    <3>. QED  BY <1>4, <1>9, <2>1, <3>1 DEF SynWaits
  <2>2. CASE e # "opener" \/ t # "setup"
    BY <1>6, <1>8, <1>9, <1>13, <2>2, Ends DEF Handshake, SynWaits
  <2>. QED  BY <2>1, <2>2
<1>24. HalfClosed'
  BY <1>4, <1>6, <1>8, <1>9, PeerOf DEF Handshake, HalfClosed
<1>. QED  BY <1>14, <1>15, <1>16, <1>17, <1>18, <1>19, <1>20, <1>21, <1>22, <1>23, <1>24 DEF Handshake

(* sendClose loads its header. *)
LEMMA LoadCloseHandshake ==
    ASSUME TypeOK, FlowAccounts, Handshake, NEW e \in Sides, LoadClose(e)
    PROVE  Handshake'
<1>1. /\ pc[e]["closer"] = "fin" /\ Goto(e, "closer", "send")
      /\ ctl' = [ctl EXCEPT ![e] = [holder |-> "closer", flag |-> "FIN", delta |-> 0]]
      /\ state' = state /\ registered' = registered /\ queued' = queued
      /\ shutdownErr' = shutdownErr /\ wire' = wire
      /\ sent' = sent /\ delivered' = delivered /\ recvBuf' = recvBuf
  BY DEF LoadClose, lifeVars, windowVars, bufVars
<1>2. /\ pc'[e]["closer"] = "send"
      /\ \A d \in Sides : /\ pc'[d]["setup"] = pc[d]["setup"]
                          /\ d # e => pc'[d]["closer"] = pc[d]["closer"]
                          /\ d # e => \A u \in Tasks : pc'[d][u] = pc[d][u]
  BY <1>1, Moved, TaskFacts
<1>3. /\ ctl'[e].holder = "closer" /\ ctl'[e].flag = "FIN"
      /\ \A d \in Sides : d # e => ctl'[d] = ctl[d]
  BY <1>1 DEF TypeOK
<1>4. Ready(e)
  BY <1>1, TaskFacts DEF Handshake, UsersWait
<1>5. /\ \A d \in Sides : (Shut(d)' <=> Shut(d)) /\ (Told(d)' <=> Told(d)) /\ (Ready(d)' <=> Ready(d))
      /\ Broken' <=> Broken
      /\ Rejected' <=> Rejected
  <2>1. \A d \in Sides : (Shut(d)' <=> Shut(d)) /\ (Told(d)' <=> Told(d)) /\ (Ready(d)' <=> Ready(d))
    BY <1>1, <1>2 DEF Shut, Told, Ready
  <2>. QED  BY <1>1, <2>1 DEF Broken, Rejected
<1>6. UsersWait'
  BY <1>1, <1>2, <1>4, <1>5 DEF Handshake, UsersWait
<1>7. Registered' /\ WiresPlain' /\ BeforeSyn' /\ Unborn' /\ SynWaits'
  BY <1>1, <1>2, <1>5, Ends DEF Handshake, Registered, WiresPlain, BeforeSyn, Unborn, SynWaits
<1>8. Opening'
  <2>1. e = "opener" => pc["opener"]["setup"] = "ready"
    BY <1>4 DEF Ready
  <2>. QED  BY <1>1, <1>2, <1>3, <1>5, <2>1, Ends DEF Handshake, Opening
<1>9. SynOnce' /\ RstOnce'
  BY <1>1, <1>3, <1>5, Ends DEF Handshake, SynOnce, RstOnce
<1>10. FinOnce'
  BY <1>1, <1>2, <1>3, <1>5, PeerOf DEF Handshake, FinOnce
<1>11. ClosedByClose' /\ HalfClosed'
  BY <1>1, <1>2, <1>5, PeerOf DEF Handshake, ClosedByClose, HalfClosed
<1>. QED  BY <1>6, <1>7, <1>8, <1>9, <1>10, <1>11 DEF Handshake

(* waitForSendErr returns: the header is free again. *)
LEMMA ReleasedHandshake ==
    ASSUME TypeOK, OpenedFirst, FlowAccounts, Handshake, NEW e \in Sides, NEW t \in CtlTasks(e),
           ControlSent(e, t) \/ ControlFailed(e, t)
    PROVE  Handshake'
<1>1. /\ ctl' = [ctl EXCEPT ![e] = Free]
      /\ state' = state /\ registered' = registered /\ queued' = queued
      /\ shutdownErr' = shutdownErr /\ wire' = wire
      /\ sent' = sent /\ delivered' = delivered /\ recvBuf' = recvBuf
      /\ pc[e][t] \in {"send", "flush"}
  BY DEF ControlSent, ControlFailed, lifeVars, windowVars, bufVars
<1>2. PICK l : /\ Goto(e, t, l)
               /\ \/ pc[e][t] = "flush" /\ l = After(t)
                  \/ Shut(e) /\ l = Failed(t)
  BY DEF ControlSent, ControlFailed
<1>3. t \in Tasks
  BY NotWriter
<1>4. /\ pc'[e][t] = l
      /\ \A d \in Sides : \A u \in Tasks : d # e \/ u # t => pc'[d][u] = pc[d][u]
      /\ \A d \in Sides : d # e \/ t # "setup" => pc'[d]["setup"] = pc[d]["setup"]
      /\ \A d \in Sides : d # e \/ t # "closer" => pc'[d]["closer"] = pc[d]["closer"]
  BY <1>2, <1>3, Moved, TaskFacts
<1>5. /\ ctl'[e].holder = "free" /\ ctl'[e].flag = "none"
      /\ \A d \in Sides : d # e => ctl'[d] = ctl[d]
  BY <1>1 DEF TypeOK, Free
<1>6. /\ t = "setup" => l \in {"ready", "failed"} /\ (l = "failed" => Shut(e)) /\ ~Ready(e)
      /\ t = "closer" => l = "done"
      /\ t # "setup" => Ready(e)
  BY <1>1, <1>2, <1>3 DEF After, Failed, Ready, Handshake, UsersWait
<1>7. /\ \A d \in Sides : (Shut(d)' <=> Shut(d)) /\ (Told(d)' <=> Told(d))
      /\ Broken' <=> Broken
      /\ Rejected' <=> Rejected
  <2>1. \A d \in Sides : (Shut(d)' <=> Shut(d)) /\ (Told(d)' <=> Told(d))
    BY <1>1 DEF Shut, Told
  <2>. QED  BY <1>1, <2>1 DEF Broken, Rejected
<1>8. UsersWait'
  BY <1>1, <1>2, <1>3, <1>6, UsersWaitKept DEF Handshake
<1>9. Registered' /\ WiresPlain'
  BY <1>1, <1>7 DEF Handshake, Registered, WiresPlain
<1>10. state[e] \notin {"none", "Init"}
  <2>1. state[e] # "Init"
    BY <1>1, <1>6 DEF OpenedFirst, Ready
  <2>2. state[e] # "none"
    BY <1>1, <1>3, UnbornIdle, Ends DEF Handshake, Opening, Unborn, Ready
  <2>. QED  BY <2>1, <2>2
<1>11. BeforeSyn' /\ Opening'
  <2>1. CASE e = "opener" /\ t = "setup"
    BY <1>1, <1>4, <1>6, <1>10, <2>1 DEF Handshake, BeforeSyn, Opening
  <2>2. CASE e # "opener" \/ t # "setup"
    <3>1. pc'["opener"]["setup"] = pc["opener"]["setup"]
      BY <1>4, <2>2, Ends
    <3>2. e = "opener" => pc["opener"]["setup"] = "ready"
      BY <1>6, <2>2 DEF Ready
    <3>3. e # "opener" => ctl'["opener"] = ctl["opener"]
      BY <1>5, Ends
    <3>. QED  BY <1>1, <1>7, <3>1, <3>2, <3>3, Ends DEF Handshake, BeforeSyn, Opening
  <2>. QED  BY <2>1, <2>2
<1>12. Unborn'
  <2>1. e # "acceptor" => pc'["acceptor"]["setup"] = pc["acceptor"]["setup"]
    BY <1>4, Ends
  <2>2. pc'["acceptor"]["setup"] # "register"
    BY <1>4, <1>6, Ends DEF Handshake, Unborn
  <2>. QED  BY <1>1, <1>10, <2>1, <2>2, Ends DEF Handshake, Unborn
<1>13. SynOnce' /\ RstOnce'
  BY <1>1, <1>5, <1>7, Ends DEF Handshake, SynOnce, RstOnce
<1>14. FinOnce' /\ ClosedByClose'
  BY <1>1, <1>4, <1>5, <1>6, <1>7, PeerOf DEF Handshake, FinOnce, ClosedByClose
<1>15. SynWaits'
  <2>1. ~Broken /\ pc'["opener"]["setup"] \in {"flush", "ready"}
           => pc["opener"]["setup"] \in {"flush", "ready"}
    BY <1>2, <1>4, Ends DEF Broken
  <2>. QED  BY <1>1, <1>7, <2>1 DEF Handshake, SynWaits
<1>16. HalfClosed'
  <2>1. \A d \in Sides : ~Broken /\ pc[d]["closer"] \in {"fin", "send"}
                            => pc'[d]["closer"] \in {"fin", "send"}
    BY <1>1, <1>2, <1>4 DEF Broken
  <2>. QED  BY <1>1, <1>7, <2>1, PeerOf DEF Handshake, HalfClosed
<1>. QED  BY <1>8, <1>9, <1>11, <1>12, <1>13, <1>14, <1>15, <1>16 DEF Handshake

(* What a frame put into sendCh changes: nothing when the connection is broken. *)
LEMMA SentHas ==
    ASSUME TypeOK, NEW e \in Sides, NEW f \in Frames, wire' = Sent(wire, e, f)
    PROVE  /\ \A d \in Sides : d # e => wire'[d] = wire[d]
           /\ Broken => wire' = wire
           /\ ~Broken => wire'[e] = Append(wire[e], f)
           /\ \A d \in Sides : \A flag :
                 Has(wire'[d], flag) <=> Has(wire[d], flag) \/ (~Broken /\ d = e /\ f.flag = flag)
           /\ (/\ WiresPlain /\ (f.flag = "SYN" => wire[e] = << >>)
               /\ (f.flag = "FIN" => ~Has(wire[e], "FIN"))
               /\ (f.type = "data" => f.flag \in {"none", "ACK"})) => WiresPlain'
<1>1. wire \in [Sides -> Seq(Frames)]
  BY DEF TypeOK
<1>2. CASE Broken
  <2>1. wire' = wire
    BY <1>2 DEF Sent
  <2>. QED  BY <1>2, <2>1 DEF WiresPlain
<1>3. CASE ~Broken
  <2>1. wire' = [wire EXCEPT ![e] = Append(wire[e], f)]
    BY <1>3 DEF Sent
  <2>2. wire'[e] = Append(wire[e], f) /\ \A d \in Sides : d # e => wire'[d] = wire[d]
    BY <1>1, <2>1
  <2>3. /\ \A flag : Has(wire'[e], flag) <=> Has(wire[e], flag) \/ f.flag = flag
        /\ (/\ Plain(wire[e]) /\ (f.flag = "SYN" => wire[e] = << >>)
            /\ (f.flag = "FIN" => ~Has(wire[e], "FIN"))
            /\ (f.type = "data" => f.flag \in {"none", "ACK"})) => Plain(wire'[e])
    BY <1>1, <2>2, AppendAdds
  <2>4. \A d \in Sides : \A flag :
           Has(wire'[d], flag) <=> Has(wire[d], flag) \/ (d = e /\ f.flag = flag)
    BY <2>2, <2>3
  <2>5. (/\ WiresPlain /\ (f.flag = "SYN" => wire[e] = << >>)
         /\ (f.flag = "FIN" => ~Has(wire[e], "FIN"))
         /\ (f.type = "data" => f.flag \in {"none", "ACK"})) => WiresPlain'
    BY <2>2, <2>3 DEF WiresPlain
  <2>. QED  BY <1>3, <2>2, <2>4, <2>5
<1>. QED  BY <1>2, <1>3

(* A control frame goes into sendCh. *)
LEMMA SendControlHandshake ==
    ASSUME TypeOK, OpenedFirst, FlowAccounts, Handshake, NEW e \in Sides, NEW t \in CtlTasks(e),
           SendControl(e, t)
    PROVE  Handshake'
<1>. DEFINE f == [type |-> "window", flag |-> ctl[e].flag, from |-> Announced(e), len |-> ctl[e].delta]
<1>1. /\ pc[e][t] = "send" /\ ~Shut(e) /\ Goto(e, t, "flush") /\ wire' = Sent(wire, e, f)
      /\ state' = state /\ registered' = registered /\ queued' = queued
      /\ shutdownErr' = shutdownErr /\ ctl' = ctl
      /\ sent' = sent /\ delivered' = delivered /\ recvBuf' = recvBuf
  BY DEF SendControl, lifeVars, windowVars, bufVars
<1>2. t \in Tasks
  BY NotWriter
<1>3. /\ pc'[e][t] = "flush"
      /\ \A d \in Sides : \A u \in Tasks : d # e \/ u # t => pc'[d][u] = pc[d][u]
      /\ \A d \in Sides : d # e \/ t # "setup" => pc'[d]["setup"] = pc[d]["setup"]
      /\ \A d \in Sides : d # e \/ t # "closer" => pc'[d]["closer"] = pc[d]["closer"]
  BY <1>1, <1>2, Moved, TaskFacts
<1>4. ctl[e].holder = t
  BY <1>1 DEF FlowAccounts, CtlLock
<1>5. f \in Frames /\ f.flag = ctl[e].flag /\ f.type = "window"
  <2>1. ctl[e].flag \in Flags /\ ctl[e].delta \in Nat /\ Announced(e) \in Nat
    BY AnnouncedType DEF TypeOK
  <2>. QED  BY <2>1 DEF Frames
<1>. HIDE DEF f
<1>6. /\ f.flag = "FIN" <=> t = "closer"
      /\ f.flag # "RST"
      /\ f.flag = "SYN" => e = "opener" /\ t = "setup"
      /\ e = "opener" /\ t = "setup" => f.flag = "SYN"
  BY <1>1, <1>4, <1>5 DEF Handshake, FinOnce, RstOnce, SynOnce, Opening
<1>7. t # "setup" => Ready(e)
  BY <1>1, <1>2 DEF Handshake, UsersWait
<1>8. state[e] \notin {"none", "Init"}
  <2>1. state[e] # "Init"
    BY <1>1, <1>7 DEF OpenedFirst, Ready
  <2>2. state[e] # "none"
    BY <1>1, <1>7, Ends DEF Handshake, Opening, Unborn, Ready
  <2>. QED  BY <2>1, <2>2
<1>9. /\ \A d \in Sides : (Shut(d)' <=> Shut(d)) /\ (Told(d)' <=> Told(d))
      /\ Broken' <=> Broken
  <2>1. \A d \in Sides : (Shut(d)' <=> Shut(d)) /\ (Told(d)' <=> Told(d))
    BY <1>1 DEF Shut, Told
  <2>. QED  BY <1>1, <2>1 DEF Broken
<1>10. /\ \A d \in Sides : d # e => wire'[d] = wire[d]
       /\ Broken => wire' = wire
       /\ \A d \in Sides : \A flag :
             Has(wire'[d], flag) <=> Has(wire[d], flag) \/ (~Broken /\ d = e /\ f.flag = flag)
  BY <1>1, <1>5, SentHas
<1>11. Rejected' <=> Rejected
  <2>1. Rejected' <=> state'["opener"] = "Reset" \/ Has(wire'["acceptor"], "RST")
    BY DEF Rejected, Has
  <2>. QED  BY <1>1, <1>6, <1>10, <2>1, RejectedHas, Ends
<1>12. WiresPlain'
  <2>1. f.flag = "SYN" => wire[e] = << >>
    BY <1>1, <1>6 DEF Handshake, BeforeSyn
  <2>2. f.flag = "FIN" => ~Has(wire[e], "FIN")
    BY <1>1, <1>6 DEF Handshake, FinOnce
  <2>. QED  BY <1>1, <1>5, <2>1, <2>2, SentHas DEF Handshake
<1>13. UsersWait' /\ Registered'
  BY <1>1, <1>3, <1>7, <1>9, TaskFacts DEF Handshake, UsersWait, Registered, Ready
<1>14. e = "acceptor" => state["acceptor"] # "none"
  BY <1>8
<1>15. BeforeSyn'
  <2>1. state["opener"] \notin {"none", "Init"}
    BY <1>8, <1>14, Ends DEF Handshake, BeforeSyn
  <2>2. pc'["opener"]["setup"] \notin {"idle", "register", "update", "send"}
    <3>1. CASE e = "opener" /\ t = "setup"
      BY <1>3, <3>1
    <3>2. CASE e = "opener" /\ t # "setup"
      BY <1>3, <1>7, <3>2 DEF Ready
    <3>3. CASE e = "acceptor"
      BY <1>3, <1>14, <3>3, Ends DEF Handshake, BeforeSyn
    <3>. QED  BY <3>1, <3>2, <3>3, Ends
  <2>. QED  BY <1>1, <2>1, <2>2 DEF BeforeSyn
<1>16. Opening'
  <2>1. CASE e = "opener" /\ t = "setup"
    BY <1>1, <1>3, <1>8, <2>1 DEF Opening
  <2>2. CASE e # "opener" \/ t # "setup"
    BY <1>1, <1>3, <1>9, <2>2, Ends DEF Handshake, Opening
  <2>. QED  BY <2>1, <2>2
<1>17. Unborn'
  <2>1. pc'["acceptor"]["setup"] # "register"
    BY <1>3, Ends DEF Handshake, Unborn
  <2>2. state["acceptor"] = "none" => e = "opener"
    BY <1>14, Ends
  <2>. QED  BY <1>1, <1>3, <1>10, <2>1, <2>2, Ends DEF Handshake, Unborn
<1>18. SynOnce'
  <2>1. Has(wire'["opener"], "SYN") =>
            state["acceptor"] = "none" /\ wire["acceptor"] = << >> /\ state["opener"] # "Reset"
    BY <1>1, <1>6, <1>10, Ends DEF Handshake, SynOnce, BeforeSyn
  <2>2. state["acceptor"] = "none" => wire'["acceptor"] = wire["acceptor"]
    BY <1>10, <1>14, Ends
  <2>3. ~Has(wire'["acceptor"], "SYN")
    BY <1>6, <1>10, Ends DEF Handshake, SynOnce
  <2>. QED  BY <1>1, <2>1, <2>2, <2>3 DEF Handshake, SynOnce
<1>19. RstOnce'
  BY <1>1, <1>6, <1>9, <1>10, Ends DEF Handshake, RstOnce
<1>20. FinOnce'
  <2>. SUFFICES ASSUME NEW d \in Sides
                PROVE  /\ pc'[d]["closer"] \in {"idle", "fin", "send"} =>
                             ~Has(wire'[d], "FIN") /\ ~Told(Peer(d))
                       /\ Has(wire'[d], "FIN") => ~Told(Peer(d))
                       /\ pc'[d]["closer"] \in {"idle", "fin", "send", "flush", "done"}
                       /\ ctl[d].flag = "FIN" <=> ctl[d].holder = "closer"
    BY <1>1, <1>9, PeerOf DEF FinOnce
  <2>1. CASE d = e /\ t = "closer"
    BY <1>1, <1>3, <2>1 DEF Handshake, FinOnce
  <2>2. CASE d # e \/ t # "closer"
    BY <1>3, <1>6, <1>10, <2>2 DEF Handshake, FinOnce
  <2>. QED  BY <2>1, <2>2
<1>21. ClosedByClose'
  <2>1. \A d \in Sides : pc'[d]["closer"] = "idle" <=> pc[d]["closer"] = "idle"
    BY <1>1, <1>3
  <2>. QED  BY <1>1, <1>9, <2>1 DEF Handshake, ClosedByClose
<1>22. SynWaits'
  <2>1. CASE e = "opener" /\ t = "setup"
    BY <1>6, <1>9, <1>10, <2>1 DEF SynWaits
  <2>2. CASE e # "opener" \/ t # "setup"
    BY <1>1, <1>3, <1>9, <1>10, <1>11, <2>2, Ends DEF Handshake, SynWaits
  <2>. QED  BY <2>1, <2>2
<1>23. HalfClosed'
  <2>1. ASSUME NEW d \in Sides, ~Broken, pc[d]["closer"] \in {"fin", "send"}
        PROVE  pc'[d]["closer"] \in {"fin", "send"} \/ Has(wire'[d], "FIN")
    <3>1. CASE d = e /\ t = "closer"
      BY <1>6, <1>10, <2>1, <3>1
    <3>2. CASE d # e \/ t # "closer"
      BY <1>3, <2>1, <3>2
    <3>. QED  BY <3>1, <3>2
  <2>. QED  BY <1>1, <1>9, <1>10, <1>11, <2>1, PeerOf DEF Handshake, HalfClosed
<1>. QED  BY <1>12, <1>13, <1>15, <1>16, <1>17, <1>18, <1>19, <1>20, <1>21, <1>22, <1>23 DEF Handshake

(* A data frame goes into sendCh. *)
LEMMA WriteSendHandshake ==
    ASSUME TypeOK, OpenedFirst, FlowAccounts, Handshake, NEW e \in Sides, WriteSend(e)
    PROVE  Handshake'
<1>. DEFINE f == [type |-> "data", flag |-> SendFlag(state[e]), from |-> sent[e], len |-> wlen[e]]
<1>1. /\ pc[e]["writer"] = "send" /\ Goto(e, "writer", "flush") /\ wire' = Sent(wire, e, f)
      /\ state' = [state EXCEPT ![e] = Flagged(state[e])]
      /\ sent' = [sent EXCEPT ![e] = @ + wlen[e]]
      /\ registered' = registered /\ queued' = queued /\ shutdownErr' = shutdownErr /\ ctl' = ctl
      /\ delivered' = delivered /\ recvBuf' = recvBuf
  BY DEF WriteSend, lifeVars, bufVars
<1>2. Ready(e) /\ state[e] \notin {"none", "Init"}
  <2>1. Ready(e) /\ state[e] # "Init"
    BY <1>1 DEF OpenedFirst, Ready
  <2>. QED  BY <2>1, Ends DEF Handshake, Opening, Unborn, Ready
<1>3. f \in Frames /\ f.flag \in {"none", "ACK"}
  <2>1. SendFlag(state[e]) \in {"none", "ACK"}
    BY <1>2 DEF SendFlag
  <2>. QED  BY <2>1 DEF Frames, Flags, TypeOK
<1>. HIDE DEF f
<1>4. \A d \in Sides : /\ pc'[d]["setup"] = pc[d]["setup"] /\ pc'[d]["closer"] = pc[d]["closer"]
                       /\ d # e => \A u \in Tasks : pc'[d][u] = pc[d][u]
                       /\ d # e => sent'[d] = sent[d] /\ state'[d] = state[d]
  <2>1. \A d \in Sides : /\ pc'[d]["setup"] = pc[d]["setup"] /\ pc'[d]["closer"] = pc[d]["closer"]
                         /\ d # e => \A u \in Tasks : pc'[d][u] = pc[d][u]
    BY <1>1, Moved, TaskFacts
  <2>2. \A d \in Sides : d # e => sent'[d] = sent[d] /\ state'[d] = state[d]
    BY <1>1 DEF TypeOK
  <2>. QED  BY <2>1, <2>2
<1>5. /\ state'[e] = Flagged(state[e])
      /\ \A d \in Sides : state'[d] = "Init" => state[d] = "Init"
      /\ \A d \in Sides, x \in {"none", "RemoteClose", "LocalClose", "Closed", "Reset"} :
            state'[d] = x <=> state[d] = x
  <2>1. state'[e] = Flagged(state[e])
    BY <1>1 DEF TypeOK
  <2>. QED  BY <1>4, <2>1, FlaggedFacts
<1>6. /\ \A d \in Sides : (Shut(d)' <=> Shut(d)) /\ (Told(d)' <=> Told(d)) /\ (Ready(d)' <=> Ready(d))
      /\ Broken' <=> Broken
  <2>1. \A d \in Sides : (Shut(d)' <=> Shut(d)) /\ (Told(d)' <=> Told(d)) /\ (Ready(d)' <=> Ready(d))
    BY <1>1, <1>4, <1>5 DEF Shut, Told, Ready
  <2>. QED  BY <2>1 DEF Broken
<1>7. /\ \A d \in Sides : d # e => wire'[d] = wire[d]
      /\ \A d \in Sides : \A flag : flag \in {"SYN", "FIN", "RST"} => (Has(wire'[d], flag) <=> Has(wire[d], flag))
      /\ WiresPlain'
  <2>1. WiresPlain
    BY DEF Handshake
  <2>. QED  BY <1>1, <1>3, <2>1, SentHas
<1>8. Rejected' <=> Rejected
  <2>1. Rejected' <=> state'["opener"] = "Reset" \/ Has(wire'["acceptor"], "RST")
    BY DEF Rejected, Has
  <2>. QED  BY <1>5, <1>7, <2>1, RejectedHas, Ends
<1>9. UsersWait'
  BY <1>1, <1>2, <1>4, <1>6 DEF Handshake, UsersWait
<1>10. Registered' /\ ClosedByClose' /\ RstOnce'
  BY <1>1, <1>4, <1>5, <1>6, <1>7, Ends DEF Handshake, Registered, ClosedByClose, RstOnce
<1>11. BeforeSyn'
  <2>1. /\ state["opener"] \notin {"none", "Init"}
        /\ pc["opener"]["setup"] \notin {"idle", "register", "update", "send"}
    BY <1>2, Ends DEF Handshake, BeforeSyn, Ready
  <2>. QED  BY <1>4, <1>5, <2>1, Ends DEF BeforeSyn
<1>12. Opening'
  <2>1. e = "opener" => pc["opener"]["setup"] = "ready"
    BY <1>2 DEF Ready
  <2>. QED  BY <1>1, <1>4, <1>5, <1>6, <2>1, Ends DEF Handshake, Opening
<1>13. Unborn' /\ SynOnce'
  <2>1. state["acceptor"] = "none" => wire'["acceptor"] = wire["acceptor"]
    BY <1>2, <1>7, Ends
  <2>2. state'["acceptor"] = "none" <=> state["acceptor"] = "none"
    BY <1>5, Ends
  <2>3. state'["opener"] = "Reset" <=> state["opener"] = "Reset"
    BY <1>5, Ends
  <2>4. state'["acceptor"] # "Init"
    BY <1>5, Ends DEF Handshake, Unborn
  <2>. QED  BY <1>1, <1>4, <1>7, <2>1, <2>2, <2>3, <2>4, Ends DEF Handshake, Unborn, SynOnce
<1>14. FinOnce'
  BY <1>1, <1>4, <1>6, <1>7, PeerOf DEF Handshake, FinOnce
<1>15. SynWaits' /\ HalfClosed'
  <2>1. state'["acceptor"] = "none" <=> state["acceptor"] = "none"
    BY <1>5, Ends
  <2>2. \A d \in Sides : state'[d] \in {"LocalClose", "Closed"} <=> state[d] \in {"LocalClose", "Closed"}
    BY <1>5
  <2>. QED  BY <1>4, <1>6, <1>7, <1>8, <2>1, <2>2, Ends, PeerOf DEF Handshake, SynWaits, HalfClosed
<1>. QED  BY <1>7, <1>9, <1>10, <1>11, <1>12, <1>13, <1>14, <1>15 DEF Handshake

(* Close, up to its half-close. *)
LEMMA CloseCallHandshake ==
    ASSUME TypeOK, OpenedFirst, FlowAccounts, Handshake, NEW e \in Sides, CloseCall(e)
    PROVE  Handshake'
<1>1. /\ Ready(e) /\ pc[e]["closer"] = "idle"
      /\ wire' = wire /\ queued' = queued /\ shutdownErr' = shutdownErr /\ ctl' = ctl
      /\ sent' = sent /\ delivered' = delivered /\ recvBuf' = recvBuf
  BY DEF CloseCall, windowVars, bufVars
<1>2. PICK l \in {"fin", "done"} :
          /\ Goto(e, "closer", l)
          /\ \/ /\ l = "fin" /\ state[e] \in Unclosed
                /\ state' = [state EXCEPT ![e] = "LocalClose"] /\ registered' = registered
             \/ /\ l = "fin" /\ state[e] = "RemoteClose" /\ state' = [state EXCEPT ![e] = "Closed"]
                /\ registered' = [registered EXCEPT ![e] = FALSE]
             \/ /\ l = "done" /\ state[e] \in {"LocalClose", "Closed", "Reset"}
                /\ state' = state /\ registered' = registered
  BY DEF CloseCall
<1>3. /\ pc'[e]["closer"] = l
      /\ \A d \in Sides : /\ pc'[d]["setup"] = pc[d]["setup"]
                          /\ d # e => pc'[d]["closer"] = pc[d]["closer"]
                          /\ d # e => \A u \in Tasks : pc'[d][u] = pc[d][u]
  BY <1>2, Moved, TaskFacts
<1>4. /\ \A d \in Sides : d # e => state'[d] = state[d] /\ registered'[d] = registered[d]
      /\ \/ l = "fin" /\ state[e] \in Unclosed /\ state'[e] = "LocalClose" /\ registered'[e] = registered[e]
         \/ l = "fin" /\ state[e] = "RemoteClose" /\ state'[e] = "Closed" /\ ~registered'[e]
         \/ /\ l = "done" /\ state[e] \in {"LocalClose", "Closed", "Reset"}
            /\ state'[e] = state[e] /\ registered'[e] = registered[e]
  <2>1. CASE l = "fin" /\ state[e] \in Unclosed /\ state' = [state EXCEPT ![e] = "LocalClose"]
             /\ registered' = registered
    BY <2>1 DEF TypeOK
  <2>2. CASE l = "fin" /\ state[e] = "RemoteClose" /\ state' = [state EXCEPT ![e] = "Closed"]
             /\ registered' = [registered EXCEPT ![e] = FALSE]
    BY <2>2 DEF TypeOK
  <2>3. CASE l = "done" /\ state[e] \in {"LocalClose", "Closed", "Reset"} /\ state' = state
             /\ registered' = registered
    BY <2>3
  <2>. QED  BY <1>2, <2>1, <2>2, <2>3
<1>5. /\ \A d \in Sides, x \in {"none", "Init", "Reset"} : state'[d] = x <=> state[d] = x
      /\ \A d \in Sides : state'[d] = "RemoteClose" => state[d] = "RemoteClose"
  BY <1>4 DEF Unclosed
<1>6. \A d \in Sides : (Shut(d)' <=> Shut(d)) /\ (Ready(d)' <=> Ready(d))
  BY <1>1, <1>3 DEF Shut, Ready
<1>7. (Broken' <=> Broken) /\ (Rejected' <=> Rejected)
  <2>1. Broken' <=> Broken
    BY <1>6 DEF Broken
  <2>2. state'["opener"] = "Reset" <=> state["opener"] = "Reset"
    BY <1>5, Ends
  <2>. QED  BY <1>1, <2>1, <2>2 DEF Rejected
<1>8. /\ ~Shut(e) => (Told(e)' <=> Told(e))
      /\ Told(e)' => Told(e)
      /\ \A d \in Sides : d # e => (Told(d)' <=> Told(d))
  BY <1>4, <1>6 DEF Told, Unclosed
<1>9. state[e] \notin {"none", "Init"}
  BY <1>4 DEF Unclosed
<1>10. UsersWait' /\ WiresPlain'
  BY <1>1, <1>3, <1>6 DEF Handshake, UsersWait, WiresPlain
<1>11. Registered'
  BY <1>4, <1>6 DEF Handshake, Registered, Unclosed
<1>12. BeforeSyn' /\ SynOnce'
  BY <1>1, <1>3, <1>5, Ends DEF Handshake, BeforeSyn, SynOnce
<1>13. Opening' /\ Unborn'
  <2>1. \A d \in Sides : state[d] = "none" => registered'[d] = registered[d]
    BY <1>4, <1>9
  <2>. QED  BY <1>1, <1>3, <1>5, <1>6, <2>1, Ends DEF Handshake, Opening, Unborn
<1>14. FinOnce'
  <2>1. \A d \in Sides : Told(d)' => Told(d)
    BY <1>8
  <2>2. \A d \in Sides : /\ pc'[d]["closer"] \in {"idle", "fin", "send"} =>
                               pc[d]["closer"] \in {"idle", "fin", "send"}
                         /\ pc'[d]["closer"] \in {"idle", "fin", "send", "flush", "done"}
    BY <1>1, <1>3 DEF Handshake, FinOnce
  <2>. QED  BY <1>1, <2>1, <2>2, PeerOf DEF Handshake, FinOnce
<1>15. RstOnce'
  <2>1. Has(wire["acceptor"], "RST") /\ ~Broken => registered'["opener"]
    <3>1. CASE e = "opener" /\ state[e] = "RemoteClose"
      <4>1. ~Has(wire["acceptor"], "RST")
        <5>1. Told("opener")
          BY <3>1 DEF Told
        <5>2. pc["acceptor"]["closer"] # "idle"
          BY <5>1, Ends DEF Handshake, FinOnce
        <5>3. state["acceptor"] # "none"
          BY <5>2, UnbornIdle, Ends, TaskFacts
        <5>. QED  BY <5>3 DEF Handshake, RstOnce
      <4>. QED  BY <4>1
    <3>2. CASE ~(e = "opener" /\ state[e] = "RemoteClose")
      BY <1>4, <3>2, Ends DEF Handshake, RstOnce
    <3>. QED  BY <3>1, <3>2
  <2>. QED  BY <1>1, <1>5, <1>7, <2>1, Ends DEF Handshake, RstOnce
<1>16. ClosedByClose'
  BY <1>3, <1>4, <1>6 DEF Handshake, ClosedByClose
<1>17. SynWaits'
  BY <1>1, <1>3, <1>5, <1>7, Ends DEF Handshake, SynWaits
<1>18. HalfClosed'
  <2>. SUFFICES ASSUME ~Broken, ~Rejected, NEW d \in Sides, state'[d] \in {"LocalClose", "Closed"}
                PROVE  pc'[d]["closer"] \in {"fin", "send"} \/ Has(wire[d], "FIN") \/ Told(Peer(d))'
    BY <1>1, <1>7 DEF HalfClosed
  <2>1. \A b \in Sides : ~Shut(b) /\ (Told(b)' <=> Told(b))
    BY <1>8 DEF Broken
  <2>2. CASE d = e
    <3>1. l = "fin"
      BY <1>1, <1>4, <2>1, <2>2 DEF Handshake, ClosedByClose
    <3>. QED  BY <1>3, <2>2, <3>1
  <2>3. CASE d # e
    BY <1>3, <1>4, <2>1, <2>3, PeerOf DEF Handshake, HalfClosed
  <2>. QED  BY <2>2, <2>3
<1>. QED  BY <1>10, <1>11, <1>12, <1>13, <1>14, <1>15, <1>16, <1>17, <1>18 DEF Handshake

(* What recv finds at e: the first frame of the peer, and the frames after it. *)
LEMMA HandledFacts ==
    ASSUME TypeOK, Handshake, NEW e \in Sides, NEW p, p = Peer(e), wire[p] # << >>
    PROVE  /\ p \in Sides /\ p # e /\ Peer(p) = e /\ Handled(e) \in [Sides -> Seq(Frames)]
           /\ Handled(e)[p] = Tail(wire[p]) /\ Handled(e)[e] = wire[e]
           /\ \A d \in Sides : Part(Handled(e)[d], wire[d])
           /\ \A d \in Sides : \A flag : Has(Handled(e)[d], flag) => Has(wire[d], flag)
           /\ \A d \in Sides : Plain(Handled(e)[d])
           /\ Has(wire[p], Head(wire[p]).flag) /\ Plain(wire[p]) /\ Plain(wire[e])
           /\ ~Has(Handled(e)[p], "SYN")
           /\ Head(wire[p]).flag = "FIN" => ~Has(Handled(e)[p], "FIN")
           /\ \A flag : Has(wire[p], flag) => Head(wire[p]).flag = flag \/ Has(Handled(e)[p], flag)
           /\ Lone(wire[p]) => Handled(e)[p] = << >> /\ Head(wire[p]).flag = "RST"
<1>1. p \in Sides /\ p # e /\ Peer(p) = e /\ \A d \in Sides : d = e \/ d = p
  BY PeerOf
<1>2. wire \in [Sides -> Seq(Frames)] /\ wire[p] \in Seq(Frames) /\ wire[e] \in Seq(Frames)
  BY <1>1 DEF TypeOK
<1>3. Tail(wire[p]) \in Seq(Frames) /\ Part(Tail(wire[p]), wire[p]) /\ Part(wire[e], wire[e])
  BY <1>2, Parts
<1>4. /\ Handled(e) \in [Sides -> Seq(Frames)]
      /\ Handled(e)[p] = Tail(wire[p]) /\ Handled(e)[e] = wire[e]
  BY <1>1, <1>2, <1>3 DEF Handled
<1>5. Plain(wire[p]) /\ Plain(wire[e])
  BY <1>1 DEF Handshake, WiresPlain
<1>6. Plain(Tail(wire[p])) /\ \A flag : Has(Tail(wire[p]), flag) => Has(wire[p], flag)
  BY <1>2, <1>3, <1>5, PartKeeps
<1>7. /\ Has(wire[p], Head(wire[p]).flag) /\ ~Has(Tail(wire[p]), "SYN")
      /\ Head(wire[p]).flag = "FIN" => ~Has(Tail(wire[p]), "FIN")
      /\ \A flag : Has(wire[p], flag) => Head(wire[p]).flag = flag \/ Has(Tail(wire[p]), flag)
      /\ Lone(wire[p]) => Tail(wire[p]) = << >> /\ Head(wire[p]).flag = "RST"
  BY <1>2, <1>5, TailLoses
<1>. QED  BY <1>1, <1>3, <1>4, <1>5, <1>6, <1>7

(* incomingStream: the SYN is handled and the acceptor's end exists. *)
LEMMA RecvSYNHandshake ==
    ASSUME TypeOK, OpenedFirst, FlowAccounts, Handshake, NEW e \in Sides, RecvSYN(e)
    PROVE  Handshake'
<1>. DEFINE p == Peer(e)
            frame == Head(wire[p])
<1>1. /\ wire[p] # << >> /\ frame.flag = "SYN" /\ ~registered[e]
      /\ state' = [state EXCEPT ![e] = "SYNReceived"]
      /\ registered' = [registered EXCEPT ![e] = TRUE]
      /\ wire' = Handled(e) /\ shutdownErr' = shutdownErr /\ ctl' = ctl /\ pc' = pc
      /\ sent' = sent /\ delivered' = delivered /\ recvBuf' = recvBuf
  BY DEF RecvSYN, bufVars
<1>2. /\ p \in Sides /\ p # e /\ Peer(p) = e
      /\ wire'[p] = Tail(wire[p]) /\ wire'[e] = wire[e]
      /\ \A d \in Sides : \A flag : Has(wire'[d], flag) => Has(wire[d], flag)
      /\ \A d \in Sides : Plain(wire'[d])
      /\ Has(wire[p], "SYN") /\ ~Has(wire'[p], "SYN")
      /\ \A flag : flag # "SYN" => (Has(wire[p], flag) <=> Has(wire'[p], flag))
  BY ZenonT(30), <1>1, HandledFacts
<1>3. e = "acceptor" /\ p = "opener"
  BY <1>2, Ends DEF Handshake, SynOnce
<1>4. /\ state["acceptor"] = "none" /\ wire["acceptor"] = << >> /\ state["opener"] # "Reset"
  BY <1>2, <1>3 DEF Handshake, SynOnce
<1>5. /\ state'["acceptor"] = "SYNReceived" /\ state'["opener"] = state["opener"]
      /\ registered'["acceptor"] /\ registered'["opener"] = registered["opener"]
  BY <1>1, <1>3, Ends DEF TypeOK
<1>6. /\ \A d \in Sides : (Shut(d)' <=> Shut(d)) /\ (Told(d)' <=> Told(d)) /\ (Ready(d)' <=> Ready(d))
      /\ Broken' <=> Broken
  <2>1. \A d \in Sides : (Shut(d)' <=> Shut(d)) /\ (Told(d)' <=> Told(d)) /\ (Ready(d)' <=> Ready(d))
    BY <1>1, <1>4, <1>5, Ends DEF Shut, Told, Ready
  <2>. QED  BY <2>1 DEF Broken
<1>7. ~Rejected /\ ~Rejected'
  <2>1. ~Has(wire["acceptor"], "RST")
    BY <1>4, EmptyHas
  <2>. QED  BY <1>2, <1>3, <1>4, <1>5, <2>1 DEF Rejected, Has
<1>8. UsersWait' /\ WiresPlain' /\ Registered'
  <2>1. UsersWait' /\ WiresPlain'
    BY <1>1, <1>2, <1>6 DEF Handshake, UsersWait, WiresPlain
  <2>2. Registered'
    BY <1>5, <1>6, Ends DEF Handshake, Registered
  <2>. QED  BY <2>1, <2>2
<1>9. BeforeSyn'
  <2>1. wire["opener"] # << >>
    BY <1>1, <1>3
  <2>2. ~(\/ state["opener"] \in {"none", "Init"}
          \/ pc["opener"]["setup"] \in {"idle", "register", "update", "send"})
    BY <2>1 DEF Handshake, BeforeSyn
  <2>. QED  BY <1>1, <1>5, <2>2 DEF BeforeSyn
<1>10. Opening' /\ Unborn'
  BY <1>1, <1>5, <1>6, Ends DEF Handshake, Opening, Unborn
<1>11. SynOnce' /\ RstOnce'
  <2>1. ~Has(wire'["acceptor"], "RST")
    BY <1>2, <1>3, <1>4, EmptyHas
  <2>. QED  BY <1>1, <1>2, <1>3, <1>5, <1>6, <2>1 DEF Handshake, SynOnce, RstOnce
<1>12. FinOnce' /\ ClosedByClose'
  <2>1. pc["acceptor"]["closer"] = "idle"
    BY <1>4, UnbornIdle, Ends, TaskFacts
  <2>2. FinOnce'
    BY <1>1, <1>2, <1>6, PeerOf DEF Handshake, FinOnce
  <2>3. ClosedByClose'
    BY <1>1, <1>5, <1>6, <2>1, Ends DEF Handshake, ClosedByClose
  <2>. QED  BY <2>2, <2>3
<1>13. SynWaits'
  BY <1>5 DEF SynWaits
<1>14. HalfClosed'
  BY <1>1, <1>2, <1>3, <1>5, <1>6, <1>7, Ends DEF Handshake, HalfClosed
<1>. QED  BY <1>8, <1>9, <1>10, <1>11, <1>12, <1>13, <1>14 DEF Handshake

(* incomingStream refuses: a RST goes back, and finds the opener's stream. *)
LEMMA RecvRejectHandshake ==
    ASSUME TypeOK, OpenedFirst, FlowAccounts, Handshake, NEW e \in Sides, RecvReject(e)
    PROVE  Handshake'
<1>. DEFINE p == Peer(e)
            frame == Head(wire[p])
            f == [type |-> "window", flag |-> "RST", from |-> Announced(e), len |-> 0]
<1>1. /\ wire[p] # << >> /\ frame.flag = "SYN" /\ ~registered[e]
      /\ wire' = Sent(Handled(e), e, f) /\ state' = state /\ registered' = registered
      /\ queued' = queued /\ shutdownErr' = shutdownErr /\ ctl' = ctl /\ pc' = pc
      /\ sent' = sent /\ delivered' = delivered /\ recvBuf' = recvBuf
  BY DEF RecvReject, lifeVars, windowVars, bufVars
<1>2. /\ p \in Sides /\ p # e /\ Peer(p) = e /\ Handled(e) \in [Sides -> Seq(Frames)]
      /\ Handled(e)[e] = wire[e]
      /\ \A d \in Sides : \A flag : Has(Handled(e)[d], flag) => Has(wire[d], flag)
      /\ \A d \in Sides : Plain(Handled(e)[d])
      /\ Has(wire[p], "SYN") /\ ~Has(Handled(e)[p], "SYN")
  BY ZenonT(30), <1>1, HandledFacts
<1>3. e = "acceptor" /\ p = "opener"
  BY <1>2, Ends DEF Handshake, SynOnce
<1>4. /\ state["acceptor"] = "none" /\ wire["acceptor"] = << >> /\ state["opener"] # "Reset"
  BY <1>2, <1>3 DEF Handshake, SynOnce
<1>5. f \in Frames /\ f.flag = "RST" /\ f.type = "window"
  BY AnnouncedType DEF Frames, Flags
<1>. HIDE DEF f
<1>6. /\ wire'["opener"] = Handled(e)["opener"]
      /\ Broken => wire'["acceptor"] = << >>
      /\ ~Broken => wire'["acceptor"] = Append(<< >>, f)
  BY <1>1, <1>2, <1>3, <1>4, Ends DEF Sent
<1>7. /\ Lone(wire'["acceptor"]) /\ Plain(wire'["acceptor"])
      /\ ~Has(wire'["acceptor"], "SYN") /\ ~Has(wire'["acceptor"], "FIN")
      /\ Has(wire'["acceptor"], "RST") <=> ~Broken
  <2>1. << >> \in Seq(Frames)
    BY EmptySeq
  <2>2. CASE Broken
    BY <1>6, <2>2, EmptyHas
  <2>3. CASE ~Broken
    <3>1. /\ \A flag : Has(Append(<< >>, f), flag) <=> Has(<< >>, flag) \/ f.flag = flag
          /\ Lone(Append(<< >>, f))
      BY <1>5, <2>1, AppendAdds
    <3>2. Plain(Append(<< >>, f))
      BY <1>5, <2>1, EmptyHas, AppendAdds
    <3>3. wire'["acceptor"] = Append(<< >>, f)
      BY <1>6, <2>3
    <3>. QED  BY <1>5, <2>3, <3>1, <3>2, <3>3, EmptyHas
  <2>. QED  BY <2>2, <2>3
<1>8. \A d \in Sides : (Shut(d)' <=> Shut(d)) /\ (Told(d)' <=> Told(d)) /\ (Ready(d)' <=> Ready(d))
  BY <1>1 DEF Shut, Told, Ready
<1>9. /\ Broken' <=> Broken
      /\ ~Broken => Rejected'
  BY <1>1, <1>7, <1>8 DEF Broken, Rejected, Has
<1>10. wire["opener"] # << >> /\ state["opener"] \notin {"none", "Init"}
       /\ pc["opener"]["setup"] \notin {"idle", "register", "update", "send"}
  BY <1>1, <1>3 DEF Handshake, BeforeSyn
<1>11. UsersWait' /\ Registered' /\ ClosedByClose'
  BY <1>1, <1>8 DEF Handshake, UsersWait, Registered, ClosedByClose
<1>12. WiresPlain'
  BY <1>2, <1>3, <1>6, <1>7, Ends DEF WiresPlain
<1>13. BeforeSyn' /\ Opening' /\ Unborn'
  BY <1>1, <1>7, <1>8, <1>10, Ends DEF Handshake, BeforeSyn, Opening, Unborn
<1>14. SynOnce'
  BY <1>1, <1>2, <1>3, <1>6, <1>7 DEF Handshake, SynOnce
<1>15. ~Broken => registered["opener"]
  <2>1. ASSUME ~Broken, state["opener"] = "Closed" PROVE FALSE
    <3>1. Told("opener")
      BY <2>1, Ends DEF Told, Broken
    <3>2. pc["acceptor"]["closer"] # "idle"
      BY <3>1, Ends DEF Handshake, FinOnce
    <3>. QED  BY <1>4, <3>2, UnbornIdle, Ends, TaskFacts
  <2>. QED  BY <1>4, <1>10, <2>1, Ends DEF Handshake, Registered
<1>16. RstOnce'
  <2>1. ~Has(wire'["opener"], "RST")
    BY <1>2, <1>6, Ends DEF Handshake, RstOnce
  <2>. QED  BY <1>1, <1>4, <1>9, <1>15, <2>1 DEF Handshake, RstOnce
<1>17. FinOnce'
  <2>1. \A d \in Sides : Has(wire'[d], "FIN") => Has(wire[d], "FIN")
    BY <1>2, <1>6, <1>7, Ends
  <2>. QED  BY <1>1, <1>8, <2>1, PeerOf DEF Handshake, FinOnce
<1>18. SynWaits' /\ HalfClosed'
  BY <1>9 DEF SynWaits, HalfClosed
<1>. QED  BY <1>11, <1>12, <1>13, <1>14, <1>16, <1>17, <1>18 DEF Handshake

(* A frame for a stream that is not there: it is not the SYN, not the RST, and
   no FIN that anybody waits for. *)
LEMMA RecvMissingHandshake ==
    ASSUME TypeOK, OpenedFirst, FlowAccounts, Handshake, NEW e \in Sides, RecvMissing(e)
    PROVE  Handshake'
<1>. DEFINE p == Peer(e)
            frame == Head(wire[p])
<1>1. /\ wire[p] # << >> /\ frame.flag # "SYN" /\ ~registered[e]
      /\ wire' = Handled(e) /\ state' = state /\ registered' = registered
      /\ queued' = queued /\ shutdownErr' = shutdownErr /\ ctl' = ctl /\ pc' = pc
      /\ sent' = sent /\ delivered' = delivered /\ recvBuf' = recvBuf
  BY DEF RecvMissing, lifeVars, windowVars, bufVars
<1>2. /\ p \in Sides /\ p # e /\ Peer(p) = e
      /\ wire'[e] = wire[e]
      /\ \A d \in Sides : \A flag : Has(wire'[d], flag) => Has(wire[d], flag)
      /\ \A d \in Sides : Plain(wire'[d])
      /\ ~Has(wire'[p], "SYN")
      /\ \A flag : Has(wire[p], flag) => frame.flag = flag \/ Has(wire'[p], flag)
      /\ Has(wire[p], frame.flag)
      /\ Lone(wire[p]) => wire'[p] = << >>
  BY <1>1, HandledFacts
<1>3. \A d \in Sides : (Shut(d)' <=> Shut(d)) /\ (Told(d)' <=> Told(d)) /\ (Ready(d)' <=> Ready(d))
  BY <1>1 DEF Shut, Told, Ready
<1>4. Broken' <=> Broken
  BY <1>3 DEF Broken
<1>5. ~Broken => (Rejected' <=> Rejected)
  <2>1. Rejected' <=> state["opener"] = "Reset" \/ Has(wire'["acceptor"], "RST")
    BY <1>1 DEF Rejected, Has
  <2>2. CASE e = "opener"
    <3>1. ~Broken => ~Has(wire["acceptor"], "RST")
      BY <1>1, <2>2 DEF Handshake, RstOnce
    <3>. QED  BY <1>2, <2>1, <3>1, RejectedHas, Ends
  <2>3. CASE e = "acceptor"
    BY <1>2, <2>1, <2>3, RejectedHas, Ends
  <2>. QED  BY <2>2, <2>3, Ends
<1>6. ~Has(wire[p], "SYN")
  BY <1>1, <1>2
<1>7. UsersWait' /\ Registered' /\ ClosedByClose' /\ WiresPlain'
  BY <1>1, <1>2, <1>3 DEF Handshake, UsersWait, Registered, ClosedByClose, WiresPlain
<1>8. BeforeSyn'
  <2>1. wire["opener"] = << >> /\ wire["acceptor"] = << >> => FALSE
    BY <1>1, <1>2, Ends
  <2>. QED  BY <1>1, <2>1 DEF Handshake, BeforeSyn
<1>9. Opening'
  BY <1>1, <1>3, Ends DEF Handshake, Opening
<1>10. Unborn'
  <2>1. Lone(wire["acceptor"]) => Lone(wire'["acceptor"])
    BY <1>2, EmptyHas, Ends
  <2>. QED  BY <1>1, <2>1 DEF Handshake, Unborn
<1>11. SynOnce'
  <2>1. Has(wire'["opener"], "SYN") => wire'["acceptor"] = wire["acceptor"]
    BY <1>1, <1>2, Ends DEF Handshake, SynOnce
  <2>2. ~Has(wire'["acceptor"], "SYN") /\ (Has(wire'["opener"], "SYN") => Has(wire["opener"], "SYN"))
    BY <1>2, Ends DEF Handshake, SynOnce
  <2>. QED  BY <1>1, <2>1, <2>2 DEF Handshake, SynOnce
<1>12. RstOnce'
  BY <1>1, <1>2, <1>4, Ends DEF Handshake, RstOnce
<1>13. FinOnce'
  BY <1>1, <1>2, <1>3, PeerOf DEF Handshake, FinOnce
<1>14. SynWaits'
  <2>1. CASE e = "acceptor"
    BY <1>1, <1>4, <1>5, <1>6, <2>1, Ends DEF Handshake, SynWaits
  <2>2. CASE e = "opener"
    BY <1>1, <1>2, <1>4, <1>5, <2>2, Ends DEF Handshake, SynWaits
  <2>. QED  BY <2>1, <2>2, Ends
<1>15. ~Broken /\ ~Rejected => frame.flag # "FIN"
  <2>. SUFFICES ASSUME ~Broken, ~Rejected, Has(wire[p], "FIN") PROVE FALSE
    BY <1>2
  <2>1. state[e] \in {"none", "Closed", "Reset"}
    BY <1>1 DEF Handshake, Registered
  <2>2. state[e] # "Closed"
    BY <1>2 DEF Handshake, FinOnce, Told, Broken
  <2>3. state[e] # "Reset"
    BY Ends DEF Handshake, RstOnce, Rejected
  <2>4. CASE e = "opener"
    <3>1. state["opener"] # "none"
      BY <1>1, <2>4, Ends DEF Handshake, BeforeSyn
    <3>. QED  BY <2>1, <2>2, <2>3, <2>4, <3>1
  <2>5. CASE e = "acceptor"
    <3>1. pc["opener"]["setup"] \in {"flush", "ready"}
      <4>1. pc["opener"]["setup"] \notin {"idle", "register", "update", "send"}
        BY <1>1, <2>5, Ends DEF Handshake, BeforeSyn
      <4>2. pc["opener"]["setup"] # "failed"
        BY Ends DEF Handshake, UsersWait, Broken
      <4>. QED  BY <4>1, <4>2, Ends DEF Handshake, UsersWait
    <3>2. Has(wire["opener"], "SYN")
      BY <2>1, <2>2, <2>3, <2>5, <3>1 DEF Handshake, SynWaits
    <3>. QED  BY <1>6, <2>5, <3>2, Ends
  <2>. QED  BY <2>4, <2>5, Ends
<1>16. HalfClosed'
  <2>1. ~Broken /\ ~Rejected => \A d \in Sides : Has(wire[d], "FIN") => Has(wire'[d], "FIN")
    <3>1. \A d \in Sides : d = e \/ d = p
      BY PeerOf
    <3>. QED  BY <1>2, <1>15, <3>1
  <2>. QED  BY <1>1, <1>3, <1>4, <1>5, <2>1, PeerOf DEF Handshake, HalfClosed
<1>. QED  BY <1>7, <1>8, <1>9, <1>10, <1>11, <1>12, <1>13, <1>14, <1>16 DEF Handshake

(* What processFlags leaves of a stream that recv has found. *)
LEMMA ProcessedFacts ==
    ASSUME TypeOK, Handshake, NEW e \in Sides, NEW p, p = Peer(e), NEW flag, wire[p] # << >>,
           flag = Head(wire[p]).flag, registered[e], ~Refused(e, Head(wire[p])),
           ProcessFlags(e, flag)
    PROVE  /\ \A d \in Sides : d # e => state'[d] = state[d] /\ registered'[d] = registered[d]
           /\ state[e] \notin {"none", "Init"} /\ (~Shut(e) => state[e] \notin {"Closed", "Reset"})
           /\ \/ /\ flag \in {"none", "ACK"} /\ registered'[e]
                 /\ state'[e] = state[e] \/ (state[e] = "SYNSent" /\ state'[e] = "Established")
              \/ /\ flag = "FIN" /\ state[e] \in Unclosed
                 /\ state'[e] = "RemoteClose" /\ registered'[e]
              \/ flag = "FIN" /\ state[e] = "LocalClose" /\ state'[e] = "Closed" /\ ~registered'[e]
              \/ flag = "RST" /\ e = "opener" /\ state'[e] = "Reset" /\ ~registered'[e]
<1>1. /\ state' = [state EXCEPT ![e] = Processed(state[e], flag)]
      /\ registered' = [registered EXCEPT ![e] = ~(flag = "RST" \/ (flag = "FIN" /\ state[e] = "LocalClose"))]
      /\ flag # "SYN" /\ (flag = "FIN" => state[e] \in Unclosed \cup {"LocalClose"})
  BY DEF ProcessFlags, Refused, UnexpectedFlag
<1>2. /\ state'[e] = Processed(state[e], flag)
      /\ \A d \in Sides : d # e => state'[d] = state[d] /\ registered'[d] = registered[d]
  BY <1>1 DEF TypeOK
<1>3. registered'[e] <=> ~(flag = "RST" \/ (flag = "FIN" /\ state[e] = "LocalClose"))
  BY <1>1 DEF TypeOK
<1>4. flag \in {"none", "ACK", "FIN", "RST"}
  BY <1>1, RecvType DEF Flags
<1>5. flag = "RST" => e = "opener"
  <2>1. Has(wire[p], flag)
    BY HandledFacts
  <2>. QED  BY <2>1, Ends DEF Handshake, RstOnce
<1>6. state[e] # "none" /\ (~Shut(e) => state[e] \notin {"Closed", "Reset"})
  BY Ends DEF Handshake, Opening, Unborn, Registered
<1>7. state[e] # "Init"
  <2>1. CASE e = "opener"
    BY <2>1, Ends DEF Handshake, BeforeSyn
  <2>2. CASE e = "acceptor"
    BY <2>2 DEF Handshake, Unborn
  <2>. QED  BY <2>1, <2>2, Ends
<1>8. CASE flag \in {"none", "ACK"}
  <2>1. Processed(state[e], flag) = state[e]
           \/ (state[e] = "SYNSent" /\ Processed(state[e], flag) = "Established")
    BY <1>8 DEF Processed
  <2>. QED  BY <1>2, <1>3, <1>6, <1>7, <1>8, <2>1
<1>9. CASE flag = "FIN"
  <2>1. /\ state[e] \in Unclosed => Processed(state[e], flag) = "RemoteClose"
        /\ state[e] = "LocalClose" => Processed(state[e], flag) = "Closed"
        /\ "LocalClose" \notin Unclosed
    BY <1>9 DEF Processed, Unclosed
  <2>. QED  BY <1>1, <1>2, <1>3, <1>6, <1>7, <1>9, <2>1
<1>10. CASE flag = "RST"
  <2>1. Processed(state[e], flag) = "Reset"
    BY <1>10 DEF Processed
  <2>. QED  BY <1>2, <1>3, <1>5, <1>6, <1>7, <1>10, <2>1
<1>. QED  BY <1>4, <1>8, <1>9, <1>10

(* incrSendWindow and readData, as far as the handshake goes: processFlags. *)
LEMMA RecvFlagsHandshake ==
    ASSUME TypeOK, OpenedFirst, FlowAccounts, Handshake, NEW e \in Sides, NEW p, p = Peer(e),
           NEW flag, wire[p] # << >>, flag = Head(wire[p]).flag, registered[e],
           ~Refused(e, Head(wire[p])), ProcessFlags(e, flag), wire' = Handled(e),
           UNCHANGED <<queued, shutdownErr, ctl, pc, sent, delivered>>,
           \A d \in Sides : d # e => recvBuf'[d] = recvBuf[d]
    PROVE  Handshake'
<1>1. /\ queued' = queued /\ shutdownErr' = shutdownErr /\ ctl' = ctl /\ pc' = pc
      /\ sent' = sent /\ delivered' = delivered
  OBVIOUS
<1>2. /\ p \in Sides /\ p # e /\ Peer(p) = e
      /\ wire'[e] = wire[e]
      /\ \A d \in Sides : \A x : Has(wire'[d], x) => Has(wire[d], x)
      /\ \A d \in Sides : Plain(wire'[d])
      /\ Has(wire[p], flag) /\ ~Has(wire'[p], "SYN")
      /\ flag = "FIN" => ~Has(wire'[p], "FIN")
      /\ \A x : Has(wire[p], x) => flag = x \/ Has(wire'[p], x)
      /\ Lone(wire[p]) => wire'[p] = << >> /\ flag = "RST"
  BY HandledFacts
<1>3. \A d \in Sides : d = e \/ d = p
  BY PeerOf
<1>4. \A d \in Sides : d # e => state'[d] = state[d] /\ registered'[d] = registered[d]
  BY ProcessedFacts
<1>5. \/ /\ flag \in {"none", "ACK"} /\ registered'[e]
         /\ state'[e] = state[e] \/ (state[e] = "SYNSent" /\ state'[e] = "Established")
      \/ flag = "FIN" /\ state[e] \in Unclosed /\ state'[e] = "RemoteClose" /\ registered'[e]
      \/ flag = "FIN" /\ state[e] = "LocalClose" /\ state'[e] = "Closed" /\ ~registered'[e]
      \/ flag = "RST" /\ e = "opener" /\ state'[e] = "Reset" /\ ~registered'[e]
  BY ProcessedFacts
<1>6. state[e] \notin {"none", "Init"} /\ (~Shut(e) => state[e] \notin {"Closed", "Reset"})
  BY ProcessedFacts
<1>7. \A d \in Sides : (Shut(d)' <=> Shut(d)) /\ (Ready(d)' <=> Ready(d))
  BY <1>1 DEF Shut, Ready
<1>8. Broken' <=> Broken
  BY <1>7 DEF Broken
<1>9. state'[e] \notin {"none", "Init"} /\ (state'[e] = "Reset" => state[e] = "Reset" \/ e = "opener")
  BY <1>5, <1>6
<1>10. Told(p)' <=> Told(p)
  BY <1>2, <1>4, <1>7 DEF Told
<1>11. (Told(e)' => Told(e) \/ flag = "FIN") /\ (Told(e) => Told(e)' \/ flag = "RST")
  BY <1>5, <1>7 DEF Told, Unclosed
<1>12. flag = "FIN" /\ ~Shut(e) => Told(e)'
  BY <1>5, <1>7 DEF Told
<1>13. UsersWait' /\ WiresPlain'
  BY <1>1, <1>2, <1>7 DEF Handshake, UsersWait, WiresPlain
<1>14. Registered'
  <2>1. /\ state'[e] \notin {"none", "Closed", "Reset"} => registered'[e]
        /\ registered'[e] /\ ~Shut(e) => state'[e] \notin {"none", "Closed", "Reset"}
    BY <1>5, <1>6
  <2>. QED  BY <1>4, <1>7, <2>1 DEF Handshake, Registered
<1>15. /\ state["opener"] \notin {"none", "Init"}
       /\ pc["opener"]["setup"] \notin {"idle", "register", "update", "send"}
  BY <1>2, Ends DEF Handshake, BeforeSyn
<1>16. state'["opener"] \notin {"none", "Init"}
  BY <1>4, <1>9, <1>15, Ends
<1>17. BeforeSyn' /\ Opening'
  BY <1>1, <1>15, <1>16 DEF BeforeSyn, Opening
<1>18. state'["acceptor"] = "none" => state["acceptor"] = "none" /\ e = "opener" /\ p = "acceptor"
  BY <1>4, <1>6, <1>9, Ends
<1>19. state["acceptor"] = "none" => wire'["acceptor"] = << >> /\ flag = "RST" /\ e = "opener"
  <2>1. state["acceptor"] = "none" => e = "opener" /\ p = "acceptor"
    BY <1>6, Ends
  <2>. QED  BY <1>2, <2>1 DEF Handshake, Unborn
<1>20. Unborn'
  <2>1. state'["acceptor"] # "Init"
    BY <1>4, <1>9, Ends DEF Handshake, Unborn
  <2>2. state'["acceptor"] = "none" =>
            ~registered'["acceptor"] /\ ~queued /\ recvBuf'["acceptor"] = << >>
    BY <1>4, <1>18, Ends DEF Handshake, Unborn
  <2>3. state'["acceptor"] = "none" => Lone(wire'["acceptor"])
    BY <1>18, <1>19, EmptyHas
  <2>. QED  BY <1>1, <1>18, <2>1, <2>2, <2>3 DEF Handshake, Unborn
<1>21. SynOnce'
  <2>1. ~Has(wire["opener"], "SYN")
    <3>1. CASE p = "opener"
      BY <1>2, <1>6, <3>1, Ends DEF Handshake, SynOnce
    <3>2. CASE p = "acceptor"
      BY <3>2 DEF Handshake, SynOnce
    <3>. QED  BY <1>2, <3>1, <3>2, Ends
  <2>2. ~Has(wire'["opener"], "SYN") /\ ~Has(wire'["acceptor"], "SYN")
    BY <1>2, <2>1, Ends DEF Handshake, SynOnce
  <2>. QED  BY <1>1, <2>2 DEF Handshake, SynOnce
<1>22. RstOnce'
  <2>1. ~Has(wire'["acceptor"], "RST")
    BY <1>2, <1>19, EmptyHas, Ends DEF Handshake, RstOnce
  <2>2. state'["acceptor"] # "Reset" /\ ~Has(wire'["opener"], "RST")
    BY <1>2, <1>4, <1>9, Ends DEF Handshake, RstOnce
  <2>. QED  BY <1>1, <2>1, <2>2 DEF Handshake, RstOnce
<1>23. FinOnce'
  <2>. SUFFICES ASSUME NEW d \in Sides
                PROVE  /\ pc[d]["closer"] \in {"idle", "fin", "send"} =>
                             ~Has(wire'[d], "FIN") /\ ~Told(Peer(d))'
                       /\ Has(wire'[d], "FIN") => ~Told(Peer(d))'
    BY <1>1, PeerOf DEF Handshake, FinOnce
  <2>1. CASE d = e
    BY <1>2, <1>10, <2>1 DEF Handshake, FinOnce
  <2>2. CASE d = p
    BY <1>2, <1>11, <2>2 DEF Handshake, FinOnce
  <2>. QED  BY <1>3, <2>1, <2>2
<1>24. \A d \in Sides : state'[d] \in {"LocalClose", "Closed"} => state[d] \in {"LocalClose", "Closed"}
  BY <1>4, <1>5
<1>25. ClosedByClose'
  <2>1. ~Shut(e) /\ state[e] \in {"LocalClose", "Closed", "Reset"} =>
            state'[e] \in {"LocalClose", "Closed", "Reset"}
    BY <1>5, <1>6 DEF Unclosed
  <2>. QED  BY <1>1, <1>4, <1>7, <1>24, <2>1 DEF Handshake, ClosedByClose
<1>26. Rejected' <=> state'["opener"] = "Reset" \/ Has(wire'["acceptor"], "RST")
  BY DEF Rejected, Has
<1>27. flag = "RST" => Rejected'
  BY <1>5, <1>26
<1>28. ~Broken /\ ~Rejected' => ~Rejected
  <2>1. ~Broken /\ state["opener"] = "Reset" => Rejected'
    BY <1>4, <1>6, <1>26, Ends DEF Broken
  <2>2. Has(wire["acceptor"], "RST") => Rejected'
    BY <1>19, <1>27 DEF Handshake, RstOnce
  <2>. QED  BY <2>1, <2>2, RejectedHas
<1>29. SynWaits'
  BY <1>18, <1>19, <1>27 DEF SynWaits
<1>30. HalfClosed'
  <2>. SUFFICES ASSUME ~Broken, ~Rejected', NEW d \in Sides, state'[d] \in {"LocalClose", "Closed"}
                PROVE  pc[d]["closer"] \in {"fin", "send"} \/ Has(wire'[d], "FIN") \/ Told(Peer(d))'
    BY <1>1, <1>8 DEF HalfClosed
  <2>1. pc[d]["closer"] \in {"fin", "send"} \/ Has(wire[d], "FIN") \/ Told(Peer(d))
    BY <1>24, <1>28 DEF Handshake, HalfClosed
  <2>2. CASE d = e
    BY <1>2, <1>10, <2>1, <2>2
  <2>3. CASE d = p
    BY <1>2, <1>11, <1>12, <1>27, <2>1, <2>3 DEF Broken
  <2>. QED  BY <1>3, <2>2, <2>3
<1>. QED  BY <1>13, <1>14, <1>17, <1>20, <1>21, <1>22, <1>23, <1>25, <1>29, <1>30 DEF Handshake

(* A session's end cuts what is under way and closes what it has. *)
LEMMA EndHandshake ==
    ASSUME TypeOK, Handshake, Broken',
           \A d \in Sides : wire'[d] \in Seq(Frames) /\ Part(wire'[d], wire[d]),
           UNCHANGED <<registered, queued, pc, ctl, sent, delivered>>,
           \A d \in Sides : Shut(d) => Shut(d)',
           \A d \in Sides : \/ state'[d] = state[d]
                            \/ Shut(d)' /\ registered[d] /\ state'[d] = "Closed",
           \A d \in Sides : recvBuf'[d] = recvBuf[d] \/ registered[d]
    PROVE  Handshake'
<1>1. /\ registered' = registered /\ queued' = queued /\ pc' = pc /\ ctl' = ctl
      /\ sent' = sent /\ delivered' = delivered
  OBVIOUS
<1>2. \A d \in Sides : /\ Plain(wire'[d])
                       /\ \A flag : Has(wire'[d], flag) => Has(wire[d], flag)
                       /\ Lone(wire[d]) => Lone(wire'[d])
                       /\ wire[d] = << >> => wire'[d] = << >>
  <2>1. \A d \in Sides : wire[d] \in Seq(Frames) /\ Plain(wire[d])
    BY DEF TypeOK, Handshake, WiresPlain
  <2>. QED  BY <2>1, PartKeeps
<1>3. \A d \in Sides : /\ Told(d)' => Told(d)
                       /\ Ready(d)' <=> Ready(d)
                       /\ ~registered[d] => state'[d] = state[d]
  BY <1>1 DEF Told, Ready
<1>4. \A d \in Sides : /\ \A x \in {"none", "Init", "Reset"} : state'[d] = x => state[d] = x
                       /\ ~Shut(d)' => state'[d] = state[d]
  OBVIOUS
<1>5. /\ state["acceptor"] = "none" => ~registered["acceptor"]
      /\ state["opener"] = "none" => ~registered["opener"]
  BY DEF Handshake, Unborn, Opening
<1>6. UsersWait' /\ WiresPlain'
  BY <1>1, <1>2, <1>3 DEF Handshake, UsersWait, WiresPlain
<1>7. Registered'
  BY <1>1 DEF Handshake, Registered
<1>8. BeforeSyn'
  BY <1>1, <1>2, <1>3, <1>4, <1>5, Ends DEF Handshake, BeforeSyn
<1>9. Opening'
  BY <1>1, <1>3, <1>4, <1>5, Ends DEF Handshake, Opening
<1>10. Unborn'
  <2>1. /\ state'["acceptor"] = "none" => state["acceptor"] = "none"
        /\ state'["acceptor"] # "Init"
    BY <1>4, Ends DEF Handshake, Unborn
  <2>2. /\ Lone(wire["acceptor"]) => Lone(wire'["acceptor"])
        /\ state["acceptor"] = "none" => recvBuf'["acceptor"] = recvBuf["acceptor"]
    BY <1>2, <1>5, Ends
  <2>. QED  BY <1>1, <2>1, <2>2 DEF Handshake, Unborn
<1>11. SynOnce' /\ RstOnce'
  <2>1. /\ state["acceptor"] = "none" => state'["acceptor"] = "none"
        /\ state'["acceptor"] = "Reset" => state["acceptor"] = "Reset"
        /\ state'["opener"] = "Reset" => state["opener"] = "Reset"
    BY <1>3, <1>4, <1>5, Ends
  <2>2. /\ ~Has(wire'["acceptor"], "SYN") /\ ~Has(wire'["opener"], "RST")
        /\ Has(wire'["opener"], "SYN") => Has(wire["opener"], "SYN")
        /\ Has(wire'["acceptor"], "RST") => Has(wire["acceptor"], "RST")
        /\ wire["acceptor"] = << >> => wire'["acceptor"] = << >>
    BY <1>2, Ends DEF Handshake, SynOnce, RstOnce
  <2>. QED  BY <1>1, <2>1, <2>2 DEF Handshake, SynOnce, RstOnce
<1>12. FinOnce'
  <2>1. \A d \in Sides : /\ Has(wire'[d], "FIN") => Has(wire[d], "FIN")
                         /\ Told(Peer(d))' => Told(Peer(d))
    BY <1>2, <1>3, PeerOf
  <2>. QED  BY <1>1, <2>1 DEF Handshake, FinOnce
<1>13. ClosedByClose'
  BY <1>1, <1>4 DEF Handshake, ClosedByClose
<1>14. SynWaits' /\ HalfClosed'
  BY DEF SynWaits, HalfClosed
<1>. QED  BY <1>6, <1>7, <1>8, <1>9, <1>10, <1>11, <1>12, <1>13, <1>14 DEF Handshake

(* Cutting w at both ends of a connection leaves parts of w. *)
LEMMA ShutdownParts ==
    ASSUME TypeOK, NEW e \in Sides, NEW err, err # "nil",
           NEW w, w = wire \/ w = [wire EXCEPT ![Peer(e)] = << >>], Shutdown(e, err, w)
    PROVE  /\ \A d \in Sides : /\ wire'[d] \in Seq(Frames) /\ Cut(wire'[d], wire[d])
                               /\ Part(wire'[d], wire[d])
           /\ w # wire => wire'[Peer(e)] = << >>
           /\ Broken' /\ registered' = registered /\ queued' = queued
           /\ \A d \in Sides : d # e => state'[d] = state[d] /\ shutdownErr'[d] = shutdownErr[d]
           /\ Shut(e)' /\ shutdownErr'[e] = err
           /\ state'[e] = IF registered[e] THEN "Closed" ELSE state[e]
<1>1. PICK own \in 0..Len(w[e]), held \in 0..Len(w[Peer(e)]) :
         wire' = [w EXCEPT ![e] = SubSeq(@, 1, own), ![Peer(e)] = SubSeq(@, 1, held)]
  BY DEF Shutdown
<1>2. Peer(e) \in Sides /\ Peer(e) # e /\ \A d \in Sides : d = e \/ d = Peer(e)
  BY PeerOf
<1>3. wire \in [Sides -> Seq(Frames)]
  BY DEF TypeOK
<1>4. \A d \in Sides : w[d] \in Seq(Frames) /\ (w[d] = wire[d] \/ w[d] = << >>)
  <2>1. CASE w = wire
    BY <1>3, <2>1
  <2>2. CASE w = [wire EXCEPT ![Peer(e)] = << >>]
    <3>1. \A d \in Sides : w[d] = wire[d] \/ w[d] = << >>
      BY <1>3, <2>2
    <3>. QED  BY <1>3, <3>1, EmptySeq
  <2>. QED  BY <2>1, <2>2
<1>5. w \in [Sides -> Seq(Frames)]
  BY <1>3, <1>4
<1>6. wire'[e] = SubSeq(w[e], 1, own) /\ wire'[Peer(e)] = SubSeq(w[Peer(e)], 1, held)
  BY <1>1, <1>2, <1>5
<1>7. \A d \in Sides : wire'[d] \in Seq(Frames) /\ Cut(wire'[d], w[d])
  <2>1. w[e] \in Seq(Frames) /\ w[Peer(e)] \in Seq(Frames)
    BY <1>2, <1>4
  <2>2. wire'[e] \in Seq(Frames) /\ Cut(wire'[e], w[e])
    BY <1>6, <2>1, Cuts
  <2>3. wire'[Peer(e)] \in Seq(Frames) /\ Cut(wire'[Peer(e)], w[Peer(e)])
    BY <1>6, <2>1, Cuts
  <2>. QED  BY <1>2, <2>2, <2>3
<1>8. \A d \in Sides : /\ w[d] = << >> => wire'[d] = << >>
                       /\ Cut(wire'[d], wire[d])
  <2>. SUFFICES ASSUME NEW d \in Sides
                PROVE  (w[d] = << >> => wire'[d] = << >>) /\ Cut(wire'[d], wire[d])
    OBVIOUS
  <2>1. w[d] = << >> => wire'[d] = << >>
    BY <1>7, EmptySeq, LenProperties DEF Cut
  <2>. QED  BY <1>3, <1>4, <1>7, <2>1, Cuts
<1>9. /\ \A d \in Sides : /\ wire'[d] \in Seq(Frames) /\ Cut(wire'[d], wire[d])
                          /\ Part(wire'[d], wire[d])
      /\ w # wire => wire'[Peer(e)] = << >>
  <2>1. \A d \in Sides : Part(wire'[d], wire[d])
    BY <1>3, <1>7, <1>8, Cuts
  <2>2. w # wire => w[Peer(e)] = << >>
    BY <1>2, <1>3
  <2>. QED  BY <1>2, <1>7, <1>8, <2>1, <2>2
<1>10. /\ \A d \in Sides : d # e => state'[d] = state[d] /\ shutdownErr'[d] = shutdownErr[d]
       /\ shutdownErr'[e] = err
       /\ state'[e] = IF registered[e] THEN "Closed" ELSE state[e]
       /\ registered' = registered /\ queued' = queued
  BY DEF Shutdown, TypeOK
<1>11. Shut(e)' /\ Broken'
  BY <1>10 DEF Shut, Broken
<1>. QED  BY <1>9, <1>10, <1>11

(* A session ends. *)
LEMMA ShutdownHandshake ==
    ASSUME TypeOK, Handshake, NEW e \in Sides, NEW err, err # "nil",
           NEW w, w = wire \/ w = [wire EXCEPT ![Peer(e)] = << >>], Shutdown(e, err, w),
           UNCHANGED <<pc, ctl, sent, delivered>>,
           \A d \in Sides : recvBuf'[d] = recvBuf[d] \/ registered[d]
    PROVE  Handshake'
<1>1. /\ \A d \in Sides : wire'[d] \in Seq(Frames) /\ Part(wire'[d], wire[d])
      /\ Broken' /\ registered' = registered /\ queued' = queued
      /\ \A d \in Sides : d # e => state'[d] = state[d] /\ shutdownErr'[d] = shutdownErr[d]
      /\ Shut(e)'
      /\ state'[e] = IF registered[e] THEN "Closed" ELSE state[e]
  BY ShutdownParts
<1>2. \A d \in Sides : Shut(d) => Shut(d)'
  BY <1>1 DEF Shut
<1>3. \A d \in Sides : \/ state'[d] = state[d]
                       \/ Shut(d)' /\ registered[d] /\ state'[d] = "Closed"
  BY <1>1
<1>. QED  BY <1>1, <1>2, <1>3, EndHandshake

(* recv is gone, with the frames its bufRead still held. *)
LEMMA RestDropped ==
    ASSUME TypeOK, Handshake, NEW e \in Sides, Broken,
           wire' = [wire EXCEPT ![Peer(e)] = << >>],
           UNCHANGED <<state, lifeVars, pc, ctl, sent, delivered>>,
           \A d \in Sides : recvBuf'[d] = recvBuf[d] \/ registered[d]
    PROVE  Handshake'
<1>1. /\ registered' = registered /\ queued' = queued /\ state' = state
      /\ shutdownErr' = shutdownErr /\ pc' = pc /\ ctl' = ctl /\ sent' = sent /\ delivered' = delivered
  BY DEF lifeVars
<1>2. (\A d \in Sides : Shut(d)' <=> Shut(d)) /\ Broken'
  BY <1>1 DEF Shut, Broken
<1>3. \A d \in Sides : wire'[d] \in Seq(Frames) /\ Part(wire'[d], wire[d])
  <2>1. wire \in [Sides -> Seq(Frames)]
    BY DEF TypeOK
  <2>2. \A d \in Sides : wire'[d] = wire[d] \/ wire'[d] = << >>
    BY <2>1
  <2>. QED  BY <2>1, <2>2, Parts, EmptySeq
<1>. QED  BY <1>1, <1>2, <1>3, EndHandshake

(* Whatever ends a session. *)
LEMMA SessionEndHandshake ==
    ASSUME TypeOK, Handshake, NEW e \in Sides,
           SessionClose(e) \/ RecvEOF(e) \/ SendFail(e) \/ RecvRefuse(e) \/ RecvShort(e)
    PROVE  Handshake'
<1>1. CASE SessionClose(e)
  BY <1>1, ShutdownHandshake DEF SessionClose, streamRest, windowVars, bufVars
<1>2. CASE RecvEOF(e)
  BY <1>2, ShutdownHandshake DEF RecvEOF, streamRest, windowVars, bufVars
<1>3. CASE SendFail(e)
  BY <1>3, ShutdownHandshake DEF SendFail, streamRest, windowVars, bufVars
<1>4. CASE RecvRefuse(e)
  <2>. DEFINE rest == [wire EXCEPT ![Peer(e)] = << >>]
  <2>1. UNCHANGED <<pc, ctl, sent, delivered, recvBuf>>
    BY <1>4 DEF RecvRefuse, streamRest, windowVars, bufVars
  <2>2. \/ \E err : err # "nil" /\ Shutdown(e, err, rest)
        \/ Shut(e) /\ wire' = rest /\ UNCHANGED <<state, lifeVars>>
    BY <1>4 DEF RecvRefuse
  <2>. HIDE DEF rest
  <2>3. CASE \E err : err # "nil" /\ Shutdown(e, err, rest)
    BY <2>1, <2>3, ShutdownHandshake DEF rest
  <2>4. CASE Shut(e) /\ wire' = rest /\ UNCHANGED <<state, lifeVars>>
    <3>1. Broken
      BY <2>4 DEF Broken
    <3>. QED  BY <2>1, <2>4, <3>1, RestDropped DEF rest
  <2>. QED  BY <2>2, <2>3, <2>4
<1>5. CASE RecvShort(e)
  <2>. DEFINE rest == [wire EXCEPT ![Peer(e)] = << >>]
  <2>1. /\ UNCHANGED <<pc, ctl, sent, delivered>> /\ Broken
        /\ \A d \in Sides : recvBuf'[d] = recvBuf[d] \/ registered[d]
    <3>1. PICK v : recvBuf' = [recvBuf EXCEPT ![e] = v]
      BY <1>5 DEF RecvShort
    <3>2. registered[e] /\ Broken /\ UNCHANGED <<pc, ctl, sent, delivered>>
      BY <1>5 DEF RecvShort
    <3>. QED  BY <3>1, <3>2 DEF TypeOK
  <2>2. \/ Shutdown(e, "ErrRead", rest)
        \/ wire' = rest /\ UNCHANGED <<state, lifeVars>>
    BY <1>5 DEF RecvShort
  <2>. HIDE DEF rest
  <2>3. CASE Shutdown(e, "ErrRead", rest)
    BY <2>1, <2>3, ShutdownHandshake DEF rest
  <2>4. CASE wire' = rest /\ UNCHANGED <<state, lifeVars>>
    BY <2>1, <2>4, RestDropped DEF rest
  <2>. QED  BY <2>2, <2>3, <2>4
<1>. QED  BY <1>1, <1>2, <1>3, <1>4, <1>5

(* Every step of the stream keeps the handshake. *)
LEMMA HandshakeStep ==
    ASSUME TypeOK, OpenedFirst, FlowAccounts, Handshake, Next
    PROVE  Handshake'
<1>. USE DEF lifeVars, windowVars, bufVars
<1>1. CASE Setup
  BY <1>1, SetupHandshake
<1>2. ASSUME NEW e \in Sides, Write(e) \/ WriteCall(e) \/ WriteTimeout(e)
      PROVE  Handshake'
  <2>1. CASE WriteSend(e)
    BY <2>1, WriteSendHandshake
  <2>2. CASE WriteCall(e)
    BY <2>2, UserStep, TaskFacts DEF WriteCall
  <2>3. CASE WriteCheck(e) \/ WriteSent(e) \/ WriteFailed(e) \/ WriteWake(e) \/ WriteTimeout(e)
    <3>1. pc[e]["writer"] \in {"start", "flush", "send", "wait"}
      BY <2>3 DEF WriteCheck, WriteSent, WriteFailed, WriteWake, WriteTimeout
    <3>2. Ready(e)
      BY <3>1, TaskFacts DEF Handshake, UsersWait
    <3>3. \E l : Goto(e, "writer", l)
      BY <2>3 DEF WriteCheck, WriteSent, WriteFailed, WriteWake, WriteTimeout
    <3>4. UNCHANGED <<state, lifeVars, wire, ctl, sent, delivered, recvBuf>>
      BY <2>3 DEF WriteCheck, WriteSent, WriteFailed, WriteWake, WriteTimeout
    <3>. QED  BY <3>2, <3>3, <3>4, UserStep, TaskFacts
  <2>. QED  BY <1>2, <2>1, <2>2, <2>3 DEF Write
<1>3. ASSUME NEW e \in Sides, CloseCall(e) \/ LoadClose(e)
      PROVE  Handshake'
  BY <1>3, CloseCallHandshake, LoadCloseHandshake
<1>4. ASSUME NEW e \in Sides, Recv(e)
      PROVE  Handshake'
  <2>1. CASE RecvSYN(e) \/ RecvReject(e) \/ RecvMissing(e)
    BY <2>1, RecvSYNHandshake, RecvRejectHandshake, RecvMissingHandshake
  <2>2. CASE RecvWindow(e) \/ RecvData(e)
    <3>. DEFINE flag == Head(wire[Peer(e)]).flag
    <3>1. /\ wire[Peer(e)] # << >> /\ registered[e] /\ ~Refused(e, Head(wire[Peer(e)]))
          /\ ProcessFlags(e, flag) /\ wire' = Handled(e)
          /\ UNCHANGED <<queued, shutdownErr, ctl, pc, sent, delivered>>
      BY <2>2 DEF RecvWindow, RecvData
    <3>2. \A d \in Sides : d # e => recvBuf'[d] = recvBuf[d]
      <4>1. recvBuf' = recvBuf \/ \E v : recvBuf' = [recvBuf EXCEPT ![e] = v]
        BY <2>2 DEF RecvWindow, RecvData
      <4>. QED  BY <4>1 DEF TypeOK
    <3>. QED  BY <3>1, <3>2, RecvFlagsHandshake
  <2>3. CASE RecvRefuse(e) \/ RecvShort(e) \/ RecvEOF(e)
    BY <2>3, SessionEndHandshake
  <2>. QED  BY <1>4, <2>1, <2>2, <2>3 DEF Recv
<1>5. ASSUME NEW e \in Sides, SessionClose(e) \/ SendFail(e)
      PROVE  Handshake'
  BY <1>5, SessionEndHandshake
<1>6. ASSUME NEW e \in Sides, NEW t \in CtlTasks(e), Control(e, t)
      PROVE  Handshake'
  BY <1>6, LoadUpdateHandshake, SendControlHandshake, ReleasedHandshake DEF Control
<1>7. ASSUME NEW e \in Sides, NEW r \in Readers[e],
             Read(e, r) \/ ReadCall(e, r) \/ ReadTimeout(e, r)
      PROVE  Handshake'
  <2>1. r \in Tasks \ {"setup", "closer"}
    BY TaskFacts, ReaderAssumption
  <2>2. Ready(e)
    <3>1. Ready(e) \/ pc[e][r] \in {"start", "take", "wait"}
      BY <1>7 DEF Read, ReadCall, ReadTimeout, ReadCheck, ReadTake, ReadWake
    <3>. QED  BY <2>1, <3>1 DEF Handshake, UsersWait
  <2>3. \E l : Goto(e, r, l)
    BY <1>7 DEF Read, ReadCall, ReadTimeout, ReadCheck, ReadTake, ReadWake
  <2>4. UNCHANGED <<state, lifeVars, wire, ctl, sent>>
    BY <1>7 DEF Read, ReadCall, ReadTimeout, ReadCheck, ReadTake, ReadWake
  <2>5. \A d \in Sides : d # e => delivered'[d] = delivered[d] /\ recvBuf'[d] = recvBuf[d]
    <3>1. CASE ReadTake(e, r)
      <4>1. \/ delivered' = delivered /\ recvBuf' = recvBuf
            \/ \E u, v : /\ delivered' = [delivered EXCEPT ![e] = u]
                         /\ recvBuf' = [recvBuf EXCEPT ![e] = v]
        BY <3>1 DEF ReadTake
      <4>. QED  BY <4>1 DEF TypeOK
    <3>2. CASE ~ReadTake(e, r)
      <4>1. delivered' = delivered /\ recvBuf' = recvBuf
        BY <1>7, <3>2 DEF Read, ReadCall, ReadTimeout, ReadCheck, ReadWake
      <4>. QED  BY <4>1
    <3>. QED  BY <3>1, <3>2
  <2>. QED  BY <2>1, <2>2, <2>3, <2>4, <2>5, UserStep
<1>. QED  BY <1>1, <1>2, <1>3, <1>4, <1>5, <1>6, <1>7 DEF Next

(* Nothing has happened yet. *)
LEMMA HandshakeInit == Init => Handshake
<1>. SUFFICES ASSUME Init PROVE Handshake
  OBVIOUS
<1>1. \A e \in Sides : /\ state[e] = "none" /\ ~registered[e] /\ ~Shut(e) /\ wire[e] = << >>
                       /\ recvBuf[e] = << >> /\ delivered[e] = << >> /\ sent[e] = 0
                       /\ ctl[e] = Free /\ \A t \in Tasks : pc[e][t] = "idle"
  BY DEF Init, Shut
<1>2. \A e \in Sides : ctl[e].flag = "none" /\ ctl[e].holder = "free"
  BY <1>1 DEF Free
<1>3. \A e \in Sides : /\ ~Told(e) /\ Plain(wire[e]) /\ Lone(wire[e])
                       /\ \A flag : ~Has(wire[e], flag)
  BY <1>1, EmptyHas DEF Told
<1>4. UsersWait /\ Registered /\ BeforeSyn /\ WiresPlain
  BY <1>1, <1>3, TaskFacts, Ends DEF UsersWait, Registered, BeforeSyn, WiresPlain
<1>5. Opening /\ Unborn /\ SynOnce /\ RstOnce
  BY <1>1, <1>2, <1>3, TaskFacts, Ends DEF Init, Opening, Unborn, SynOnce, RstOnce
<1>6. FinOnce /\ ClosedByClose /\ SynWaits /\ HalfClosed
  BY <1>1, <1>2, <1>3, TaskFacts, Ends, PeerOf DEF FinOnce, ClosedByClose, SynWaits, HalfClosed
<1>. QED  BY <1>4, <1>5, <1>6 DEF Handshake

(* Only these steps end a session. *)
LEMMA OnlyEnds ==
    ASSUME Next, shutdownErr' # shutdownErr
    PROVE  \E e \in Sides : RecvRefuse(e) \/ RecvShort(e) \/ RecvEOF(e) \/ SessionClose(e) \/ SendFail(e)
<1>. USE DEF lifeVars
<1>1. ~Setup
  BY DEF Setup, OpenCheck, OpenRegister, AcceptStream, AcceptShutdown
<1>2. ASSUME NEW e \in Sides PROVE ~(Write(e) \/ WriteCall(e) \/ WriteTimeout(e))
  BY DEF Write, WriteCheck, WriteSend, WriteSent, WriteFailed, WriteWake, WriteCall, WriteTimeout
<1>3. ASSUME NEW e \in Sides, NEW t PROVE ~Control(e, t)
  BY DEF Control, LoadUpdate, SendControl, ControlSent, ControlFailed
<1>4. ASSUME NEW e \in Sides, NEW r PROVE ~(Read(e, r) \/ ReadCall(e, r) \/ ReadTimeout(e, r))
  BY DEF Read, ReadCheck, ReadTake, ReadWake, ReadCall, ReadTimeout
<1>5. ASSUME NEW e \in Sides
      PROVE  ~(CloseCall(e) \/ LoadClose(e) \/ RecvSYN(e) \/ RecvReject(e) \/ RecvMissing(e)
                 \/ RecvWindow(e) \/ RecvData(e))
  BY DEF CloseCall, LoadClose, RecvSYN, RecvReject, RecvMissing, RecvWindow, RecvData
<1>. QED  BY <1>1, <1>2, <1>3, <1>4, <1>5 DEF Next, Recv

(* A frame that recv finds a stream for carries no flag the stream cannot take. *)
LEMMA FlagsExpected ==
    ASSUME TypeOK, Handshake, NEW e \in Sides, registered[e], ~Shut(e), wire[Peer(e)] # << >>
    PROVE  LET flag == Head(wire[Peer(e)]).flag
           IN  flag # "SYN" /\ ~UnexpectedFlag(state[e], flag)
<1>. DEFINE p == Peer(e)
            flag == Head(wire[p]).flag
<1>1. Has(wire[p], flag) /\ p \in Sides /\ Peer(p) = e
  BY HandledFacts
<1>2. flag # "SYN"
  <2>1. CASE e = "opener"
    BY <1>1, <2>1, Ends DEF Handshake, SynOnce
  <2>2. CASE e = "acceptor"
    BY <1>1, <2>2, Ends DEF Handshake, SynOnce, Unborn
  <2>. QED  BY <2>1, <2>2, Ends
<1>3. ASSUME flag = "FIN" PROVE state[e] \in Unclosed \cup {"LocalClose"}
  <2>1. state[e] \notin {"none", "Closed", "Reset"}
    BY DEF Handshake, Registered
  <2>2. state[e] # "RemoteClose"
    BY <1>1, <1>3 DEF Handshake, FinOnce, Told
  <2>3. state[e] # "Init"
    BY Ends DEF Handshake, BeforeSyn, Unborn
  <2>. QED  BY <2>1, <2>2, <2>3 DEF TypeOK, StreamStates, Unclosed
<1>. QED  BY <1>2, <1>3 DEF UnexpectedFlag

(* No session ends for a flag. *)
LEMMA FlagErrorStep ==
    ASSUME TypeOK, Handshake, NoFlagError, Next
    PROVE  NoFlagError'
<1>1. CASE shutdownErr' = shutdownErr
  BY <1>1 DEF NoFlagError
<1>2. CASE shutdownErr' # shutdownErr
  <2>1. PICK e \in Sides : RecvRefuse(e) \/ RecvShort(e) \/ RecvEOF(e) \/ SessionClose(e) \/ SendFail(e)
    BY <1>2, OnlyEnds
  <2>2. PICK err, w : Shutdown(e, err, w) /\ err \notin {"ErrUnexpectedFlag", "ErrDuplicateStream"}
    <3>1. CASE RecvRefuse(e)
      <4>. DEFINE flag == Head(wire[Peer(e)]).flag
                  err == CASE flag = "SYN" -> "ErrDuplicateStream"
                           [] UnexpectedFlag(state[e], flag) -> "ErrUnexpectedFlag"
                           [] OTHER -> "ErrRecvWindowExceeded"
      <4>1. /\ wire[Peer(e)] # << >> /\ registered[e] /\ ~Shut(e)
            /\ Shutdown(e, err, [wire EXCEPT ![Peer(e)] = << >>])
        BY <1>2, <3>1 DEF RecvRefuse, lifeVars
      <4>2. flag # "SYN" /\ ~UnexpectedFlag(state[e], flag)
        BY <4>1, FlagsExpected
      <4>3. err = "ErrRecvWindowExceeded"
        BY <4>2
      <4>. QED  BY <4>1, <4>3
    <3>2. CASE RecvShort(e)
      BY <1>2, <3>2 DEF RecvShort, lifeVars
    <3>3. CASE RecvEOF(e) \/ SessionClose(e) \/ SendFail(e)
      BY <3>3 DEF RecvEOF, SessionClose, SendFail
    <3>. QED  BY <2>1, <3>1, <3>2, <3>3
  <2>3. shutdownErr' = [shutdownErr EXCEPT ![e] = err]
    BY <2>2 DEF Shutdown
  <2>. QED  BY <2>2, <2>3 DEF NoFlagError, TypeOK
<1>. QED  BY <1>1, <1>2

-----------------------------------------------------------------------------
(* What the handshake shows *)

HandshakeInv == FlowInv /\ Handshake /\ NoFlagError

(* It holds before the stream exists ... *)
LEMMA HandshakeInvInit == Init => HandshakeInv
<1>1. Init => NoFlagError
  BY DEF Init, NoFlagError
<1>. QED  BY <1>1, FlowInit, HandshakeInit DEF HandshakeInv

(* ... and every step keeps it. *)
LEMMA HandshakeInvNext == HandshakeInv /\ [Next]_vars => HandshakeInv'
<1>. SUFFICES ASSUME HandshakeInv, [Next]_vars PROVE HandshakeInv'
  OBVIOUS
<1>1. FlowInv' /\ TypeOK /\ OpenedFirst /\ FlowAccounts /\ Handshake /\ NoFlagError
  BY FlowNext DEF HandshakeInv, FlowInv
<1>2. CASE Next
  BY <1>1, <1>2, HandshakeStep, FlagErrorStep DEF HandshakeInv
<1>3. CASE UNCHANGED vars
  <2>1. /\ state' = state /\ registered' = registered /\ queued' = queued /\ shutdownErr' = shutdownErr
        /\ wire' = wire /\ recvBuf' = recvBuf /\ delivered' = delivered /\ sent' = sent
        /\ ctl' = ctl /\ pc' = pc
    BY <1>3 DEF vars, lifeVars, windowVars, bufVars
  <2>2. /\ \A e \in Sides : (Shut(e)' <=> Shut(e)) /\ (Told(e)' <=> Told(e)) /\ (Ready(e)' <=> Ready(e))
        /\ Broken' <=> Broken
        /\ Rejected' <=> Rejected
    BY <2>1 DEF Shut, Told, Ready, Broken, Rejected
  <2>3. UsersWait' /\ Registered' /\ WiresPlain' /\ NoFlagError'
    BY <1>1, <2>1, <2>2 DEF Handshake, UsersWait, Registered, WiresPlain, NoFlagError
  <2>4. BeforeSyn' /\ Opening' /\ Unborn'
    BY <1>1, <2>1, <2>2, Ends DEF Handshake, BeforeSyn, Opening, Unborn
  <2>5. SynOnce' /\ RstOnce'
    BY <1>1, <2>1, <2>2, Ends DEF Handshake, SynOnce, RstOnce
  <2>6. FinOnce' /\ ClosedByClose' /\ SynWaits' /\ HalfClosed'
    BY <1>1, <2>1, <2>2, PeerOf DEF Handshake, FinOnce, ClosedByClose, SynWaits, HalfClosed
  <2>. QED  BY <1>1, <2>3, <2>4, <2>5, <2>6 DEF HandshakeInv, Handshake
<1>. QED  BY <1>2, <1>3

(* Two correct ends never make each other's recv fail on a flag: no SYN reaches a
   stream that exists, and no FIN one that was told already or is over. *)
THEOREM NoFlagErrors == Spec => []NoFlagError
<1>1. HandshakeInv => NoFlagError
  BY DEF HandshakeInv
<1>. QED  BY <1>1, HandshakeInvInit, HandshakeInvNext, PTL DEF Spec

(* The FINs on a wire that carries at most one, counted. *)
LEMMA FinCount ==
    ASSUME NEW w \in Seq(Frames), Plain(w)
    PROVE  Cardinality({i \in 1..Len(w) : w[i].flag = "FIN"}) = IF Has(w, "FIN") THEN 1 ELSE 0
<1>. DEFINE S == {i \in 1..Len(w) : w[i].flag = "FIN"}
<1>1. CASE Has(w, "FIN")
  <2>1. PICK i \in 1..Len(w) : w[i].flag = "FIN"
    BY <1>1 DEF Has
  <2>2. \A j \in 1..Len(w) : w[j].flag = "FIN" => ~(i < j) /\ ~(j < i)
    BY <2>1 DEF Plain
  <2>3. Len(w) \in Nat
    BY LenProperties
  <2>4. S = {i}
    BY <2>1, <2>2, <2>3
  <2>. QED  BY <1>1, <2>4, FS_Singleton
<1>2. CASE ~Has(w, "FIN")
  <2>1. S = {}
    BY <1>2 DEF Has
  <2>. QED  BY <1>2, <2>1, FS_EmptySet
<1>. QED  BY <1>1, <1>2

(* The invariant leaves one place for a half-close. *)
LEMMA HalfCloseFrom == HandshakeInv => HalfCloseOnce
<1>. SUFFICES ASSUME HandshakeInv, ~Broken, ~Rejected, NEW e \in Sides
              PROVE  FinPlaces(e).pending + FinPlaces(e).wire + FinPlaces(e).peer
                        = IF state[e] \in {"LocalClose", "Closed"} THEN 1 ELSE 0
  BY DEF HalfCloseOnce
<1>. DEFINE pending == pc[e]["closer"] \in {"fin", "send"}
            wired == Has(wire[e], "FIN")
            told == Told(Peer(e))
<1>1. TypeOK /\ Handshake /\ Peer(e) \in Sides /\ \A d \in Sides : ~Shut(d)
  BY PeerOf DEF HandshakeInv, FlowInv, Broken
<1>2. /\ FinPlaces(e).pending = IF pending THEN 1 ELSE 0
      /\ FinPlaces(e).wire = IF wired THEN 1 ELSE 0
      /\ FinPlaces(e).peer = IF told THEN 1 ELSE 0
  <2>1. told <=> state[Peer(e)] \in {"RemoteClose", "Closed"}
    BY <1>1 DEF Told
  <2>2. wire[e] \in Seq(Frames) /\ Plain(wire[e])
    BY <1>1 DEF TypeOK, Handshake, WiresPlain
  <2>. QED  BY <2>1, <2>2, FinCount DEF FinPlaces
<1>3. CASE state[e] \in {"LocalClose", "Closed"}
  <2>1. pending \/ wired \/ told
    BY <1>1, <1>3 DEF Handshake, HalfClosed
  <2>2. (pending => ~wired /\ ~told) /\ (wired => ~told)
    BY <1>1 DEF Handshake, FinOnce
  <2>. QED  BY <1>2, <1>3, <2>1, <2>2
<1>4. CASE state[e] \notin {"LocalClose", "Closed"}
  <2>1. state[e] # "Reset"
    BY <1>1, Ends DEF Handshake, RstOnce, Rejected
  <2>2. pc[e]["closer"] = "idle"
    BY <1>1, <1>4, <2>1 DEF Handshake, ClosedByClose
  <2>3. ~pending /\ ~wired /\ ~told
    BY <1>1, <2>2 DEF Handshake, FinOnce
  <2>. QED  BY <1>2, <1>4, <2>3
<1>. QED  BY <1>3, <1>4

(* The half-close of an end is never lost and never told twice: Close still has to
   send it, it is under way, or the peer's state says that it came. *)
THEOREM HalfClosesOnce == Spec => []HalfCloseOnce
BY HalfCloseFrom, HandshakeInvInit, HandshakeInvNext, PTL DEF Spec

-----------------------------------------------------------------------------
(* The bytes *)

(* What the users of e have been given of the peer's bytes, and what they will be. *)
Got(e) == delivered[e] \o recvBuf[e]

(* The data frames of w continue one another from lo on ... *)
Chained(w, lo) ==
    \A i \in 1..Len(w) : w[i].type = "data" =>
        \/ w[i].from = lo
        \/ \E j \in 1..(i - 1) : w[j].type = "data" /\ w[j].from + w[j].len = w[i].from
(* ... up to hi. *)
Reaches(w, lo, hi) ==
    lo = hi \/ \E j \in 1..Len(w) : w[j].type = "data" /\ w[j].from + w[j].len = hi

(* What e has is what its peer wrote, and what is under way to a stream that takes it
   continues it, up to the last byte sent while nothing is broken. *)
Arrives(e) ==
    /\ Len(Got(e)) <= sent[Peer(e)]
    /\ \A i \in 1..Len(Got(e)) : Got(e)[i] = i
    /\ registered[e] \/ Has(wire[Peer(e)], "SYN") =>
          /\ Chained(wire[Peer(e)], Len(Got(e)))
          /\ ~Broken => Reaches(wire[Peer(e)], Len(Got(e)), sent[Peer(e)])
Bytes == \A e \in Sides : Arrives(e)

(* What is under way after recv took the first frame. *)
LEMMA ChainedTail ==
    ASSUME NEW w \in Seq(Frames), w # << >>, NEW lo \in Nat, NEW hi \in Nat, NEW rcv \in Int,
           Ordered(w, "data", rcv, hi), Chained(w, lo)
    PROVE  /\ Head(w) \in Frames
           /\ Head(w).type = "data" =>
                 /\ Head(w).from = lo /\ lo + Head(w).len <= hi
                 /\ Chained(Tail(w), lo + Head(w).len)
                 /\ Reaches(w, lo, hi) => Reaches(Tail(w), lo + Head(w).len, hi)
           /\ Head(w).type # "data" =>
                 /\ Chained(Tail(w), lo)
                 /\ Reaches(w, lo, hi) => Reaches(Tail(w), lo, hi)
<1>. DEFINE v == Tail(w)
            h == Head(w)
<1>1. /\ v \in Seq(Frames) /\ Len(v) = Len(w) - 1
      /\ h = w[1] /\ Len(w) \in Nat /\ Len(w) >= 1
      /\ \A i \in 1..Len(v) : v[i] = w[i + 1]
  BY HeadTailProperties, EmptySeq
<1>2. \A i \in 1..Len(w) : w[i].from \in Nat /\ w[i].len \in Nat /\ w[i] \in Frames
  BY FrameOf
<1>3. 1 \in 1..Len(w) /\ \A i \in 1..Len(v) : i + 1 \in 1..Len(w) /\ i + 1 > 1
  BY <1>1
<1>4. h \in Frames /\ h.from \in Nat /\ h.len \in Nat
  BY <1>1, <1>2, <1>3
<1>5. \A i \in 2..Len(w) : i - 1 \in 1..Len(v) /\ v[i - 1] = w[i]
  <2>. SUFFICES ASSUME NEW i \in 2..Len(w) PROVE i - 1 \in 1..Len(v) /\ v[i - 1] = w[i]
    OBVIOUS
  <2>1. i - 1 \in 1..Len(v)
    BY <1>1
  <2>2. v[i - 1] = w[(i - 1) + 1]
    BY <1>1, <2>1
  <2>. QED  BY <2>1, <2>2
<1>. HIDE DEF v, h
<1>6. ASSUME h.type = "data"
      PROVE  /\ h.from = lo /\ lo + h.len <= hi /\ Chained(v, lo + h.len)
             /\ Reaches(w, lo, hi) => Reaches(v, lo + h.len, hi)
  <2>1. h.from = lo
    <3>1. w[1].type = "data"
      BY <1>1, <1>6
    <3>2. ~ \E j \in 1..(1 - 1) : TRUE
      OBVIOUS
    <3>. QED  BY <1>1, <1>3, <3>1, <3>2 DEF Chained
  <2>2. lo + h.len <= hi
    BY <1>1, <1>3, <1>6, <2>1 DEF Ordered
  <2>3. ASSUME NEW i \in 1..Len(v), v[i].type = "data"
        PROVE  \/ v[i].from = lo + h.len
               \/ \E j \in 1..(i - 1) : v[j].type = "data" /\ v[j].from + v[j].len = v[i].from
    <3>1. i + 1 \in 1..Len(w) /\ w[i + 1] = v[i] /\ 1 < i + 1
      BY <1>1, <1>3
    <3>2. h.from + h.len <= w[i + 1].from
      BY <1>1, <1>3, <1>6, <2>3, <3>1 DEF Ordered
    <3>3. CASE w[i + 1].from = lo
      BY <1>2, <1>4, <2>1, <3>1, <3>2, <3>3
    <3>4. CASE \E j \in 1..((i + 1) - 1) : w[j].type = "data" /\ w[j].from + w[j].len = w[i + 1].from
      <4>1. PICK j \in 1..i : w[j].type = "data" /\ w[j].from + w[j].len = w[i + 1].from
        BY <3>4
      <4>2. CASE j = 1
        BY <1>1, <2>1, <3>1, <4>1, <4>2
      <4>3. CASE j # 1
        <5>1. j \in 2..Len(w) /\ j - 1 \in 1..(i - 1)
          BY <1>1, <4>3
        <5>. QED  BY <1>5, <3>1, <4>1, <5>1
      <4>. QED  BY <4>2, <4>3
    <3>. QED  BY <2>3, <3>1, <3>3, <3>4 DEF Chained
  <2>4. ASSUME Reaches(w, lo, hi) PROVE Reaches(v, lo + h.len, hi)
    <3>1. CASE lo = hi
      BY <1>4, <2>2, <3>1 DEF Reaches
    <3>2. CASE \E j \in 1..Len(w) : w[j].type = "data" /\ w[j].from + w[j].len = hi
      <4>1. PICK j \in 1..Len(w) : w[j].type = "data" /\ w[j].from + w[j].len = hi
        BY <3>2
      <4>2. CASE j = 1
        BY <1>1, <2>1, <4>1, <4>2 DEF Reaches
      <4>3. CASE j # 1
        <5>1. j \in 2..Len(w)
          BY <1>1, <4>3
        <5>2. j - 1 \in 1..Len(v) /\ v[j - 1] = w[j]
          BY <1>5, <5>1
        <5>. QED  BY <4>1, <5>2 DEF Reaches
      <4>. QED  BY <4>2, <4>3
    <3>. QED  BY <2>4, <3>1, <3>2 DEF Reaches
  <2>. QED  BY <2>1, <2>2, <2>3, <2>4 DEF Chained
<1>7. ASSUME h.type # "data"
      PROVE  Chained(v, lo) /\ (Reaches(w, lo, hi) => Reaches(v, lo, hi))
  <2>1. ASSUME NEW i \in 1..Len(v), v[i].type = "data", v[i].from # lo
        PROVE  \E j \in 1..(i - 1) : v[j].type = "data" /\ v[j].from + v[j].len = v[i].from
    <3>1. i + 1 \in 1..Len(w) /\ w[i + 1] = v[i]
      BY <1>1, <1>3
    <3>2. PICK j \in 1..((i + 1) - 1) : w[j].type = "data" /\ w[j].from + w[j].len = w[i + 1].from
      BY <2>1, <3>1 DEF Chained
    <3>3. j \in 2..Len(w) /\ j - 1 \in 1..(i - 1)
      BY <1>1, <1>7, <3>2
    <3>. QED  BY <1>5, <3>1, <3>2, <3>3
  <2>2. ASSUME NEW j \in 1..Len(w), w[j].type = "data"
        PROVE  j - 1 \in 1..Len(v) /\ v[j - 1] = w[j]
    <3>1. j \in 2..Len(w)
      BY <1>1, <1>7, <2>2
    <3>. QED  BY <1>5, <3>1
  <2>. QED  BY <2>1, <2>2 DEF Chained, Reaches
<1>. QED  BY <1>4, <1>6, <1>7 DEF v, h

(* A frame is put at the end. *)
LEMMA ChainedAppend ==
    ASSUME NEW w \in Seq(Frames), NEW f \in Frames, NEW lo \in Nat, NEW hi \in Nat,
           Chained(w, lo), f.type = "data" => f.from = hi /\ Reaches(w, lo, hi)
    PROVE  /\ Chained(Append(w, f), lo)
           /\ Reaches(w, lo, hi) =>
                 Reaches(Append(w, f), lo, IF f.type = "data" THEN hi + f.len ELSE hi)
<1>. DEFINE v == Append(w, f)
            n == Len(w)
<1>1. /\ v \in Seq(Frames) /\ Len(v) = n + 1 /\ n \in Nat
      /\ v[n + 1] = f /\ \A i \in 1..n : v[i] = w[i]
  BY AppendProperties, LenProperties
<1>2. \A i \in 1..Len(v) : (i \in 1..n /\ v[i] = w[i]) \/ (i = n + 1 /\ v[i] = f)
  BY <1>1
<1>3. n + 1 \in 1..Len(v) /\ \A i \in 1..n : i \in 1..Len(v)
  BY <1>1
<1>. HIDE DEF v
<1>4. Chained(v, lo)
  <2>. SUFFICES ASSUME NEW i \in 1..Len(v), v[i].type = "data", v[i].from # lo
                PROVE  \E j \in 1..(i - 1) : v[j].type = "data" /\ v[j].from + v[j].len = v[i].from
    BY DEF Chained
  <2>1. CASE i \in 1..n /\ v[i] = w[i]
    <3>1. PICK j \in 1..(i - 1) : w[j].type = "data" /\ w[j].from + w[j].len = w[i].from
      BY <2>1 DEF Chained
    <3>2. j \in 1..n
      BY <1>1, <2>1
    <3>. QED  BY <1>1, <2>1, <3>1, <3>2
  <2>2. CASE i = n + 1 /\ v[i] = f
    <3>1. PICK j \in 1..n : w[j].type = "data" /\ w[j].from + w[j].len = hi
      BY <2>2 DEF Reaches
    <3>2. j \in 1..(i - 1)
      BY <1>1, <2>2
    <3>. QED  BY <1>1, <2>2, <3>1, <3>2
  <2>. QED  BY <1>2, <2>1, <2>2
<1>5. ASSUME Reaches(w, lo, hi)
      PROVE  Reaches(v, lo, IF f.type = "data" THEN hi + f.len ELSE hi)
  <2>1. CASE f.type = "data"
    BY <1>1, <1>3, <2>1 DEF Reaches
  <2>2. CASE f.type # "data"
    BY <1>1, <1>3, <1>5, <2>2 DEF Reaches
  <2>. QED  BY <2>1, <2>2
<1>. QED  BY <1>4, <1>5 DEF v

(* A cut leaves no gap. *)
LEMMA ChainedCut ==
    ASSUME NEW w \in Seq(Frames), NEW v \in Seq(Frames), NEW lo, Cut(v, w), Chained(w, lo)
    PROVE  Chained(v, lo) /\ \A flag : Has(v, flag) => Has(w, flag)
<1>1. Len(v) \in Nat /\ Len(w) \in Nat /\ \A i \in 1..Len(v) : i \in 1..Len(w) /\ v[i] = w[i]
  BY LenProperties DEF Cut
<1>2. \A i \in 1..Len(v) : \A j \in 1..(i - 1) : j \in 1..Len(v)
  BY <1>1
<1>. QED  BY <1>1, <1>2 DEF Chained, Has

(* An empty wire has nothing to bring. *)
LEMMA ChainedEmpty == \A lo : Chained(<< >>, lo) /\ Reaches(<< >>, lo, lo)
  BY EmptySeq DEF Chained, Reaches

(* What e has is a sequence of positions. *)
LEMMA GotType ==
    ASSUME TypeOK, NEW e \in Sides
    PROVE  /\ Got(e) \in Seq(Nat) /\ Len(Got(e)) \in Nat
           /\ Len(Got(e)) = Len(delivered[e]) + Len(recvBuf[e])
           /\ sent[Peer(e)] \in Nat
<1>1. delivered[e] \in Seq(Nat) /\ recvBuf[e] \in Seq(Nat)
  BY DEF TypeOK
<1>. QED  BY <1>1, ConcatProperties, LenProperties, PeerOf DEF Got, TypeOK

(* Nothing new arrives, and no more is sent. *)
LEMMA ArrivesKept ==
    ASSUME TypeOK, NEW e \in Sides, Arrives(e), Got(e)' = Got(e),
           sent'[Peer(e)] = sent[Peer(e)], registered'[e] => registered[e],
           Broken => Broken',
           \/ wire'[Peer(e)] = wire[Peer(e)]
           \/ /\ Broken' /\ wire'[Peer(e)] \in Seq(Frames)
              /\ Cut(wire'[Peer(e)], wire[Peer(e)])
    PROVE  Arrives(e)'
<1>1. wire[Peer(e)] \in Seq(Frames)
  BY PeerOf DEF TypeOK
<1>2. CASE wire'[Peer(e)] = wire[Peer(e)]
  BY <1>2 DEF Arrives
<1>3. CASE Broken' /\ wire'[Peer(e)] \in Seq(Frames) /\ Cut(wire'[Peer(e)], wire[Peer(e)])
  <2>1. \A lo : Chained(wire[Peer(e)], lo) => Chained(wire'[Peer(e)], lo)
    BY <1>1, <1>3, ChainedCut
  <2>2. Has(wire'[Peer(e)], "SYN") => Has(wire[Peer(e)], "SYN")
    BY <1>1, <1>3 DEF Cut, Has
  <2>. QED  BY <1>3, <2>1, <2>2 DEF Arrives
<1>. QED  BY <1>2, <1>3

(* Steps that touch no frame and no byte. *)
LEMMA BytesKept ==
    ASSUME TypeOK, Bytes, \A e \in Sides : Got(e)' = Got(e),
           sent' = sent, wire' = wire, shutdownErr' = shutdownErr,
           \A e \in Sides : registered'[e] => registered[e]
    PROVE  Bytes'
<1>1. Broken' <=> Broken
  BY DEF Broken, Shut
<1>2. \A e \in Sides : Arrives(e) /\ Peer(e) \in Sides
  BY PeerOf DEF Bytes
<1>. QED  BY <1>1, <1>2, ArrivesKept DEF Bytes

(* A buffer is its first bytes and the rest. *)
LEMMA Split ==
    ASSUME NEW s \in Seq(Nat), NEW n \in 1..Len(s)
    PROVE  /\ SubSeq(s, 1, n) \in Seq(Nat) /\ SubSeq(s, n + 1, Len(s)) \in Seq(Nat)
           /\ SubSeq(s, 1, n) \o SubSeq(s, n + 1, Len(s)) = s
<1>1. Len(s) \in Nat /\ n \in Nat /\ n <= Len(s) /\ \A i \in 1..Len(s) : s[i] \in Nat
  BY LenProperties, ElementOfSeq
<1>2. SubSeq(s, 1, n) \in Seq(Nat) /\ SubSeq(s, n + 1, Len(s)) \in Seq(Nat)
  BY <1>1, SubSeqProperties
<1>3. 1 \in 1..Len(s) + 1 /\ n \in (1 - 1)..Len(s) /\ Len(s) \in n..Len(s)
  BY <1>1
<1>4. SubSeq(s, 1, n) \o SubSeq(s, n + 1, Len(s)) = SubSeq(s, 1, Len(s))
  BY <1>3, ConcatAdjacentSubSeq, Zenon
<1>5. SubSeq(s, 1, Len(s)) = s
  BY SubSeqFull
<1>. QED  BY <1>2, <1>4, <1>5

(* Bytes are handed over in any grouping. *)
LEMMA Regroup ==
    ASSUME NEW u \in Seq(Nat), NEW a \in Seq(Nat), NEW b \in Seq(Nat)
    PROVE  (u \o a) \o b = u \o (a \o b)
  BY ConcatAssociative

(* Read hands over the first bytes of the buffer. *)
LEMMA TakeKeeps ==
    ASSUME TypeOK, NEW e \in Sides, NEW r, ReadTake(e, r)
    PROVE  \A d \in Sides : Got(d)' = Got(d)
<1>1. delivered[e] \in Seq(Nat) /\ recvBuf[e] \in Seq(Nat)
  BY DEF TypeOK
<1>2. CASE UNCHANGED bufVars
  BY <1>2 DEF bufVars, Got
<1>3. ASSUME NEW n \in 1..Len(recvBuf[e]),
             delivered' = [delivered EXCEPT ![e] = @ \o SubSeq(recvBuf[e], 1, n)],
             recvBuf' = [recvBuf EXCEPT ![e] = SubSeq(@, n + 1, Len(@))]
      PROVE  \A d \in Sides : Got(d)' = Got(d)
  <2>1. \A d \in Sides : d # e => delivered'[d] = delivered[d] /\ recvBuf'[d] = recvBuf[d]
    BY <1>3 DEF TypeOK
  <2>2. /\ delivered'[e] = delivered[e] \o SubSeq(recvBuf[e], 1, n)
        /\ recvBuf'[e] = SubSeq(recvBuf[e], n + 1, Len(recvBuf[e]))
    BY <1>3 DEF TypeOK
  <2>3. ASSUME NEW u \in Seq(Nat), NEW v \in Seq(Nat), NEW k \in 1..Len(v)
        PROVE  (u \o SubSeq(v, 1, k)) \o SubSeq(v, k + 1, Len(v)) = u \o v
    <3>1. /\ SubSeq(v, 1, k) \in Seq(Nat) /\ SubSeq(v, k + 1, Len(v)) \in Seq(Nat)
          /\ SubSeq(v, 1, k) \o SubSeq(v, k + 1, Len(v)) = v
      BY Split
    <3>2. (u \o SubSeq(v, 1, k)) \o SubSeq(v, k + 1, Len(v))
             = u \o (SubSeq(v, 1, k) \o SubSeq(v, k + 1, Len(v)))
      BY <3>1, Regroup, Zenon
    <3>. QED  BY <3>1, <3>2, Zenon
  <2>4. Got(e)' = Got(e)
    BY <1>1, <2>2, <2>3 DEF Got
  <2>. QED  BY <2>1, <2>4 DEF Got
<1>. QED  BY <1>2, <1>3 DEF ReadTake

(* Payload follows what e has. *)
LEMMA GotMore ==
    ASSUME TypeOK, NEW e \in Sides, Arrives(e), NEW f \in Frames, f.from = Len(Got(e)),
           NEW n \in Nat, Len(Got(e)) + n <= sent[Peer(e)],
           recvBuf' = [recvBuf EXCEPT ![e] = @ \o Payload(f, n)], delivered' = delivered
    PROVE  /\ \A d \in Sides : d # e => Got(d)' = Got(d)
           /\ Len(Got(e)') = Len(Got(e)) + n
           /\ \A i \in 1..Len(Got(e)') : Got(e)'[i] = i
<1>. DEFINE u == delivered[e]
            v == recvBuf[e]
            q == Payload(f, n)
<1>1. u \in Seq(Nat) /\ v \in Seq(Nat) /\ q \in Seq(Nat) /\ Len(q) = n
  BY PayloadType DEF TypeOK
<1>2. \A d \in Sides : d # e => Got(d)' = Got(d)
  BY DEF TypeOK, Got
<1>3. recvBuf'[e] = v \o q /\ delivered'[e] = u
  BY DEF TypeOK
<1>4. \A i \in 1..n : q[i] = Len(Got(e)) + i
  BY DEF Payload
<1>. HIDE DEF u, v, q
<1>5. Got(e) = u \o v /\ Got(e)' = u \o (v \o q)
  BY <1>3 DEF Got, u, v
<1>6. Got(e)' = Got(e) \o q
  BY SMTT(30), <1>1, <1>5, ConcatAssociative
<1>7. Got(e) \in Seq(Nat) /\ Len(Got(e)) \in Nat /\ \A i \in 1..Len(Got(e)) : Got(e)[i] = i
  BY GotType DEF Arrives
<1>. DEFINE g == Got(e)
<1>. HIDE DEF g
<1>8. /\ Len(g \o q) = Len(g) + n
      /\ \A i \in 1..(Len(g) + n) : (g \o q)[i] = IF i <= Len(g) THEN g[i] ELSE q[i - Len(g)]
  BY <1>1, <1>7, ConcatProperties DEF g
<1>9. ASSUME NEW i \in 1..(Len(g) + n) PROVE (g \o q)[i] = i
  <2>1. CASE i <= Len(g)
    BY <1>7, <1>8, <2>1 DEF g
  <2>2. CASE ~(i <= Len(g))
    <3>1. i - Len(g) \in 1..n /\ Len(g) + (i - Len(g)) = i
      BY <1>7, <2>2 DEF g
    <3>2. q[i - Len(g)] = Len(g) + (i - Len(g))
      BY <1>4, <3>1 DEF g
    <3>. QED  BY <1>8, <2>2, <3>1, <3>2
  <2>. QED  BY <2>1, <2>2
<1>. QED  BY <1>2, <1>6, <1>8, <1>9 DEF g

(* OpenStream makes its end before anything is under way. *)
LEMMA RegisterBytes ==
    ASSUME TypeOK, FlowAccounts, Handshake, Bytes, OpenRegister
    PROVE  Bytes'
<1>1. /\ pc["opener"]["setup"] = "register" /\ sent' = sent /\ wire' = wire /\ shutdownErr' = shutdownErr
      /\ delivered' = delivered /\ recvBuf' = recvBuf /\ registered'["acceptor"] = registered["acceptor"]
  BY Ends DEF OpenRegister, windowVars, bufVars, TypeOK
<1>2. state["opener"] = "none" /\ state["acceptor"] = "none" /\ wire["acceptor"] = << >>
  BY <1>1 DEF Handshake, Opening, BeforeSyn
<1>3. delivered["opener"] = << >> /\ recvBuf["opener"] = << >> /\ sent["acceptor"] = 0
  BY <1>2, UnbornIdle, Ends
<1>4. Broken' <=> Broken
  BY <1>1 DEF Broken, Shut
<1>5. Got("opener") = << >> /\ Got("opener")' = << >> /\ Got("acceptor")' = Got("acceptor")
  BY <1>1, <1>3 DEF Got
<1>6. Arrives("opener")'
  <2>1. Chained(<< >>, 0) /\ Reaches(<< >>, 0, 0) /\ Len(<< >>) = 0
    BY ChainedEmpty
  <2>2. wire'[Peer("opener")] = << >> /\ sent'[Peer("opener")] = 0
    BY <1>1, <1>2, <1>3, Ends
  <2>. QED  BY <1>5, <2>1, <2>2 DEF Arrives
<1>7. Arrives("acceptor")'
  BY <1>1, <1>4, <1>5, Ends, ArrivesKept DEF Bytes
<1>. QED  BY <1>6, <1>7, Ends DEF Bytes

(* A frame is sent: the next data, or one that carries none. *)
LEMMA SendBytes ==
    ASSUME TypeOK, Bytes, NEW e \in Sides, NEW f \in Frames, wire' = Sent(wire, e, f),
           shutdownErr' = shutdownErr, registered' = registered,
           \A d \in Sides : Got(d)' = Got(d), \A d \in Sides : d # e => sent'[d] = sent[d],
           sent'[e] = IF f.type = "data" THEN sent[e] + f.len ELSE sent[e],
           f.type = "data" => f.from = sent[e],
           ~Broken /\ f.flag = "SYN" => wire[e] = << >> /\ Len(Got(Peer(e))) = sent[e]
    PROVE  Bytes'
<1>. DEFINE p == Peer(e)
<1>1. p \in Sides /\ p # e /\ Peer(p) = e /\ \A d \in Sides : d = e \/ d = p
  BY PeerOf
<1>2. /\ \A d \in Sides : d # e => wire'[d] = wire[d]
      /\ Broken => wire' = wire
      /\ ~Broken => wire'[e] = Append(wire[e], f)
      /\ \A d \in Sides : \A flag :
            Has(wire'[d], flag) => Has(wire[d], flag) \/ (~Broken /\ d = e /\ f.flag = flag)
  BY SentHas
<1>3. Broken' <=> Broken
  BY DEF Broken, Shut
<1>4. Arrives(e)'
  BY <1>1, <1>2, <1>3, ArrivesKept DEF Bytes
<1>5. /\ Got(p)' = Got(p) /\ Len(Got(p)) \in Nat /\ sent[e] \in Nat /\ f.len \in Nat
      /\ wire[e] \in Seq(Frames) /\ Arrives(p)
  BY <1>1, GotType DEF TypeOK, Frames, Bytes
<1>6. /\ Len(Got(p))' <= sent'[e] /\ \A i \in 1..Len(Got(p)') : Got(p)'[i] = i
  BY <1>1, <1>5 DEF Arrives
<1>7. CASE Broken
  BY <1>1, <1>2, <1>3, <1>5, <1>6, <1>7 DEF Arrives, Bytes
<1>8. CASE ~Broken
  <2>1. registered'[p] \/ Has(wire'[e], "SYN") =>
           Chained(wire[e], Len(Got(p))) /\ Reaches(wire[e], Len(Got(p)), sent[e])
    <3>1. CASE registered[p] \/ Has(wire[e], "SYN")
      BY <1>1, <1>5, <1>8, <3>1 DEF Arrives
    <3>2. CASE f.flag = "SYN"
      BY <1>8, <3>2, ChainedEmpty
    <3>. QED  BY <1>1, <1>2, <3>1, <3>2
  <2>2. registered'[p] \/ Has(wire'[e], "SYN") =>
           Chained(wire'[e], Len(Got(p))) /\ Reaches(wire'[e], Len(Got(p)), sent'[e])
    <3>. SUFFICES ASSUME registered'[p] \/ Has(wire'[e], "SYN")
                  PROVE  Chained(wire'[e], Len(Got(p))) /\ Reaches(wire'[e], Len(Got(p)), sent'[e])
      OBVIOUS
    <3>. DEFINE lo == Len(Got(p))
    <3>1. lo \in Nat /\ Chained(wire[e], lo) /\ Reaches(wire[e], lo, sent[e])
      BY <1>5, <2>1
    <3>. HIDE DEF lo
    <3>2. Chained(Append(wire[e], f), lo) /\ Reaches(Append(wire[e], f), lo, sent'[e])
      BY <1>5, <3>1, ChainedAppend
    <3>. QED  BY <1>2, <1>8, <3>2 DEF lo
  <2>3. Arrives(p)'
    BY <1>1, <1>3, <1>5, <1>6, <2>2 DEF Arrives
  <2>. QED  BY <1>1, <1>4, <2>3 DEF Bytes
<1>. QED  BY <1>7, <1>8

(* A control frame is sent. *)
LEMMA SendControlBytes ==
    ASSUME TypeOK, FlowAccounts, Handshake, Bytes, NEW e \in Sides, NEW t \in CtlTasks(e),
           SendControl(e, t)
    PROVE  Bytes'
<1>. DEFINE f == [type |-> "window", flag |-> ctl[e].flag, from |-> Announced(e), len |-> ctl[e].delta]
<1>1. /\ pc[e][t] = "send" /\ wire' = Sent(wire, e, f)
      /\ sent' = sent /\ shutdownErr' = shutdownErr /\ registered' = registered
      /\ delivered' = delivered /\ recvBuf' = recvBuf
  BY DEF SendControl, windowVars, bufVars, lifeVars
<1>2. f \in Frames /\ f.type = "window" /\ f.flag = ctl[e].flag
  BY AnnouncedType DEF FlowAccounts, TypeOK, Frames
<1>. HIDE DEF f
<1>3. \A d \in Sides : Got(d)' = Got(d)
  BY <1>1 DEF Got
<1>4. ASSUME f.flag = "SYN" PROVE wire[e] = << >> /\ Len(Got(Peer(e))) = sent[e]
  <2>1. e = "opener" /\ ctl[e].holder = "setup"
    BY <1>2, <1>4 DEF Handshake, SynOnce
  <2>2. ctl[e].holder = t
    BY <1>1 DEF FlowAccounts, CtlLock
  <2>3. pc["opener"]["setup"] = "send"
    BY <1>1, <2>1, <2>2
  <2>4. wire[e] = << >> /\ state["acceptor"] = "none" /\ sent[e] = 0
    BY <2>1, <2>3, Ends DEF Handshake, BeforeSyn, UsersWait, Ready
  <2>5. delivered["acceptor"] = << >> /\ recvBuf["acceptor"] = << >>
    BY <2>4, UnbornIdle, Ends
  <2>6. Got(Peer(e)) = << >>
    BY <2>1, <2>5, Ends DEF Got
  <2>. QED  BY <2>4, <2>6
<1>. QED  BY <1>1, <1>2, <1>3, <1>4, SendBytes

(* Write sends the next bytes. *)
LEMMA WriteSendBytes ==
    ASSUME TypeOK, OpenedFirst, FlowAccounts, Handshake, Bytes, NEW e \in Sides, WriteSend(e)
    PROVE  Bytes'
<1>. DEFINE f == [type |-> "data", flag |-> SendFlag(state[e]), from |-> sent[e], len |-> wlen[e]]
<1>1. /\ pc[e]["writer"] = "send" /\ wire' = Sent(wire, e, f)
      /\ sent' = [sent EXCEPT ![e] = @ + wlen[e]]
      /\ shutdownErr' = shutdownErr /\ registered' = registered
      /\ delivered' = delivered /\ recvBuf' = recvBuf
  BY DEF WriteSend, bufVars, lifeVars
<1>2. SendFlag(state[e]) \in {"none", "ACK"}
  <2>1. Ready(e)
    BY <1>1 DEF OpenedFirst
  <2>2. state[e] # "Init"
    BY <2>1 DEF OpenedFirst, Ready
  <2>. QED  BY <2>2, FlaggedFacts
<1>3. f \in Frames /\ f.type = "data" /\ f.flag # "SYN" /\ f.from = sent[e] /\ f.len = wlen[e]
  BY <1>2 DEF TypeOK, Frames, Flags
<1>. HIDE DEF f
<1>4. \A d \in Sides : Got(d)' = Got(d)
  BY <1>1 DEF Got
<1>5. sent'[e] = sent[e] + wlen[e] /\ \A d \in Sides : d # e => sent'[d] = sent[d]
  BY <1>1 DEF TypeOK
<1>. QED  BY <1>1, <1>3, <1>4, <1>5, SendBytes

(* What is under way to e, in types. *)
LEMMA Coming ==
    ASSUME TypeOK, FlowAccounts, NEW e \in Sides
    PROVE  /\ wire[Peer(e)] \in Seq(Frames) /\ Len(Got(e)) \in Nat
           /\ sent[Peer(e)] \in Nat /\ rcvd[e] \in Int
           /\ Ordered(wire[Peer(e)], "data", rcvd[e], sent[Peer(e)])
<1>1. Peer(e) \in Sides
  BY PeerOf
<1>2. wire[Peer(e)] \in Seq(Frames) /\ sent[Peer(e)] \in Nat /\ rcvd[e] \in Int
  BY <1>1 DEF TypeOK
<1>3. Len(Got(e)) \in Nat
  BY GotType
<1>4. Ordered(wire[Peer(e)], "data", rcvd[e], sent[Peer(e)])
  BY OrderNow
<1>. QED  BY <1>2, <1>3, <1>4

(* recv takes a frame without data from the head. *)
LEMMA OtherBytes ==
    ASSUME TypeOK, FlowAccounts, Handshake, Bytes, NEW e \in Sides, wire[Peer(e)] # << >>,
           wire' = Handled(e), Head(wire[Peer(e)]).type # "data",
           registered[e] \/ Head(wire[Peer(e)]).flag = "SYN",
           shutdownErr' = shutdownErr, sent' = sent, \A d \in Sides : Got(d)' = Got(d),
           \A d \in Sides : d # e => registered'[d] = registered[d]
    PROVE  Bytes'
<1>. DEFINE p == Peer(e)
            w == wire[p]
            lo == Len(Got(e))
<1>1. /\ p \in Sides /\ p # e /\ Peer(p) = e /\ wire'[p] = Tail(w) /\ wire'[e] = wire[e]
      /\ Has(w, Head(w).flag) /\ ~Has(wire'[p], "SYN")
  BY HandledFacts
<1>2. /\ w \in Seq(Frames) /\ lo \in Nat /\ sent[p] \in Nat /\ rcvd[e] \in Int
      /\ Ordered(w, "data", rcvd[e], sent[p]) /\ Got(e)' = Got(e) /\ Arrives(e)
  BY <1>1, Coming DEF Bytes
<1>3. Chained(w, lo) /\ (~Broken => Reaches(w, lo, sent[p]))
  BY <1>1, <1>2 DEF Arrives
<1>4. Broken' <=> Broken
  BY DEF Broken, Shut
<1>. HIDE DEF w, lo
<1>5. Head(w).type # "data" /\ w # << >>
  BY DEF w
<1>6. Chained(Tail(w), lo) /\ (Reaches(w, lo, sent[p]) => Reaches(Tail(w), lo, sent[p]))
  BY <1>2, <1>3, <1>5, ChainedTail
<1>7. Arrives(e)'
  BY <1>1, <1>2, <1>3, <1>4, <1>6 DEF Arrives, lo
<1>8. Arrives(p)'
  BY <1>1, <1>4, ArrivesKept DEF Bytes
<1>. QED  BY <1>1, <1>7, <1>8, PeerOf DEF Bytes

(* recv drops a frame, and the SYN is not among the rest. *)
LEMMA DroppedBytes ==
    ASSUME TypeOK, FlowAccounts, Handshake, Bytes, NEW e \in Sides,
           RecvReject(e) \/ RecvMissing(e)
    PROVE  Bytes'
<1>. DEFINE p == Peer(e)
            f == [type |-> "window", flag |-> "RST", from |-> Announced(e), len |-> 0]
<1>1. /\ wire[p] # << >> /\ ~registered[e] /\ registered' = registered
      /\ shutdownErr' = shutdownErr /\ sent' = sent /\ delivered' = delivered /\ recvBuf' = recvBuf
      /\ wire' = Sent(Handled(e), e, f) \/ wire' = Handled(e)
  BY DEF RecvReject, RecvMissing, lifeVars, windowVars, bufVars
<1>2. /\ p \in Sides /\ p # e /\ Peer(p) = e /\ Handled(e) \in [Sides -> Seq(Frames)]
      /\ Handled(e)[e] = wire[e] /\ ~Has(Handled(e)[p], "SYN")
  BY <1>1, HandledFacts
<1>3. /\ wire'[p] = Handled(e)[p]
      /\ wire'[e] = wire[e] \/ wire'[e] = Append(wire[e], f)
  <2>1. Sent(Handled(e), e, f) \in {Handled(e), [Handled(e) EXCEPT ![e] = Append(@, f)]}
    BY DEF Sent
  <2>. QED  BY <1>1, <1>2, <2>1
<1>4. f \in Frames /\ f.type = "window" /\ f.flag = "RST"
  BY AnnouncedType DEF FlowAccounts, TypeOK, Frames, Flags
<1>. HIDE DEF f
<1>5. /\ \A d \in Sides : Got(d)' = Got(d) /\ Arrives(d)
      /\ Broken' <=> Broken
      /\ Len(Got(p)) \in Nat /\ sent[e] \in Nat /\ wire[e] \in Seq(Frames)
  BY <1>1, <1>2, GotType DEF Got, Bytes, Broken, Shut, TypeOK
<1>6. Arrives(e)'
  BY <1>1, <1>2, <1>3, <1>5 DEF Arrives
<1>7. Arrives(p)'
  <2>1. CASE wire'[e] = wire[e]
    BY <1>1, <1>2, <1>5, <2>1, ArrivesKept
  <2>2. CASE wire'[e] = Append(wire[e], f)
    <3>. DEFINE lo == Len(Got(p))
    <3>. HIDE DEF lo
    <3>1. Has(wire'[e], "SYN") => Has(wire[e], "SYN")
      BY <1>4, <1>5, <2>2, AppendAdds
    <3>2. lo \in Nat /\ (Chained(wire[e], lo) =>
            /\ Chained(wire'[e], lo)
            /\ Reaches(wire[e], lo, sent[e]) => Reaches(wire'[e], lo, sent[e]))
      BY <1>4, <1>5, <2>2, ChainedAppend DEF lo
    <3>3. Arrives(p)
      BY <1>2, <1>5
    <3>. QED  BY <1>1, <1>2, <1>5, <3>1, <3>2, <3>3 DEF Arrives, lo
  <2>. QED  BY <1>3, <2>1, <2>2
<1>. QED  BY <1>2, <1>6, <1>7, PeerOf DEF Bytes

(* recv takes the first data frame, which is the next that e has not got. *)
LEMMA RecvDataBytes ==
    ASSUME TypeOK, FlowAccounts, Handshake, Bytes, NEW e \in Sides, RecvData(e)
    PROVE  Bytes'
<1>. DEFINE p == Peer(e)
            w == wire[p]
            f == Head(w)
            lo == Len(Got(e))
<1>1. /\ w # << >> /\ registered[e] /\ f.type = "data" /\ wire' = Handled(e)
      /\ recvBuf' = [recvBuf EXCEPT ![e] = @ \o Payload(f, f.len)] /\ delivered' = delivered
      /\ sent' = sent /\ shutdownErr' = shutdownErr
      /\ \E x : registered' = [registered EXCEPT ![e] = x]
  BY DEF RecvData, ProcessFlags
<1>2. /\ p \in Sides /\ p # e /\ Peer(p) = e /\ wire'[p] = Tail(w) /\ wire'[e] = wire[e]
      /\ ~Has(wire'[p], "SYN")
  BY <1>1, HandledFacts
<1>3. /\ w \in Seq(Frames) /\ lo \in Nat /\ sent[p] \in Nat /\ rcvd[e] \in Int
      /\ Ordered(w, "data", rcvd[e], sent[p]) /\ Arrives(e)
      /\ f \in Frames /\ f.len \in Nat
  BY <1>1, <1>2, Coming, RecvType DEF Bytes
<1>4. Chained(w, lo) /\ (~Broken => Reaches(w, lo, sent[p]))
  BY <1>1, <1>2, <1>3 DEF Arrives
<1>5. Broken' <=> Broken
  BY <1>1 DEF Broken, Shut
<1>6. /\ f.from = lo /\ lo + f.len <= sent[p] /\ Chained(Tail(w), lo + f.len)
      /\ Reaches(w, lo, sent[p]) => Reaches(Tail(w), lo + f.len, sent[p])
  <2>. HIDE DEF w, lo
  <2>. QED  BY <1>1, <1>3, <1>4, ChainedTail
<1>. HIDE DEF f
<1>7. /\ \A d \in Sides : d # e => Got(d)' = Got(d)
      /\ Len(Got(e)') = lo + f.len
      /\ \A i \in 1..Len(Got(e)') : Got(e)'[i] = i
  BY <1>1, <1>3, <1>6, GotMore
<1>8. Arrives(e)'
  BY <1>1, <1>2, <1>3, <1>4, <1>5, <1>6, <1>7 DEF Arrives
<1>9. Arrives(p)'
  <2>1. registered'[p] = registered[p]
    BY <1>1, <1>2 DEF TypeOK
  <2>. QED  BY <1>1, <1>2, <1>5, <1>7, <2>1, ArrivesKept DEF Bytes
<1>. QED  BY <1>2, <1>8, <1>9, PeerOf DEF Bytes

(* A session ends and nothing was read on the way. *)
LEMMA ShutdownBytes ==
    ASSUME TypeOK, Bytes, NEW e \in Sides, NEW err, err # "nil",
           NEW w, w = wire \/ w = [wire EXCEPT ![Peer(e)] = << >>], Shutdown(e, err, w),
           UNCHANGED <<sent, delivered, recvBuf>>
    PROVE  Bytes'
<1>1. /\ \A d \in Sides : wire'[d] \in Seq(Frames) /\ Cut(wire'[d], wire[d])
      /\ Broken' /\ registered' = registered
  BY ShutdownParts
<1>2. \A d \in Sides : Got(d)' = Got(d) /\ Arrives(d) /\ Peer(d) \in Sides
  BY PeerOf DEF Got, Bytes
<1>. QED  BY <1>1, <1>2, ArrivesKept DEF Bytes

(* recv is gone, with the frames its bufRead still held. *)
LEMMA RestBytes ==
    ASSUME TypeOK, Bytes, NEW e \in Sides, Broken,
           wire' = [wire EXCEPT ![Peer(e)] = << >>], UNCHANGED <<lifeVars, sent, delivered, recvBuf>>
    PROVE  Bytes'
<1>1. \A d \in Sides : wire'[d] \in Seq(Frames) /\ Cut(wire'[d], wire[d])
  <2>1. wire \in [Sides -> Seq(Frames)]
    BY DEF TypeOK
  <2>2. \A d \in Sides : wire'[d] = wire[d] \/ wire'[d] = << >>
    BY <2>1
  <2>. QED  BY <2>1, <2>2, Cuts, EmptySeq
<1>2. /\ \A d \in Sides : Got(d)' = Got(d) /\ Arrives(d) /\ Peer(d) \in Sides
      /\ Broken' /\ registered' = registered
  BY PeerOf DEF Got, Bytes, Broken, Shut, lifeVars
<1>. QED  BY <1>1, <1>2, ArrivesKept DEF Bytes

(* The connection ends inside a data frame: its first bytes may be kept, and no
   frame is left behind them. *)
LEMMA RecvShortBytes ==
    ASSUME TypeOK, FlowAccounts, Handshake, Bytes, NEW e \in Sides, RecvShort(e)
    PROVE  Bytes'
<1>. DEFINE p == Peer(e)
            w == wire[p]
            f == Head(w)
            lo == Len(Got(e))
            rest == [wire EXCEPT ![p] = << >>]
<1>1. PICK n \in 0..(f.len - 1) : recvBuf' = [recvBuf EXCEPT ![e] = @ \o Payload(f, n)]
  BY DEF RecvShort
<1>2. /\ w # << >> /\ registered[e] /\ f.type = "data" /\ Broken
      /\ sent' = sent /\ delivered' = delivered
      /\ Shutdown(e, "ErrRead", rest) \/ (wire' = rest /\ UNCHANGED lifeVars)
  BY DEF RecvShort
<1>3. p \in Sides /\ p # e /\ Peer(p) = e /\ \A d \in Sides : d = e \/ d = p
  BY PeerOf
<1>4. /\ w \in Seq(Frames) /\ lo \in Nat /\ sent[p] \in Nat /\ rcvd[e] \in Int
      /\ Ordered(w, "data", rcvd[e], sent[p]) /\ Arrives(e)
      /\ f \in Frames /\ f.len \in Nat
  BY <1>2, <1>3, Coming, RecvType DEF Bytes
<1>5. Chained(w, lo)
  BY <1>2, <1>3, <1>4 DEF Arrives
<1>6. f.from = lo /\ lo + f.len <= sent[p]
  <2>. HIDE DEF w, lo
  <2>. QED  BY <1>2, <1>4, <1>5, ChainedTail
<1>7. n \in Nat /\ lo + n <= sent[p]
  BY <1>4, <1>6
<1>8. /\ wire'[p] = << >> /\ wire'[e] \in Seq(Frames) /\ Cut(wire'[e], wire[e])
      /\ Broken' /\ registered' = registered
  <2>1. CASE Shutdown(e, "ErrRead", rest)
    <3>1. /\ wire'[e] \in Seq(Frames) /\ Cut(wire'[e], wire[e])
          /\ rest # wire => wire'[p] = << >>
          /\ Broken' /\ registered' = registered
      BY <2>1, ShutdownParts
    <3>2. rest # wire
      BY <1>2, <1>3 DEF TypeOK
    <3>. QED  BY <3>1, <3>2
  <2>2. CASE wire' = rest /\ UNCHANGED lifeVars
    <3>1. wire'[p] = << >> /\ wire'[e] = wire[e] /\ wire[e] \in Seq(Frames)
      BY <1>3, <2>2 DEF TypeOK
    <3>. QED  BY <1>2, <2>2, <3>1, Cuts DEF lifeVars, Broken, Shut
  <2>. QED  BY <1>2, <2>1, <2>2
<1>. HIDE DEF f
<1>9. /\ \A d \in Sides : d # e => Got(d)' = Got(d)
      /\ Len(Got(e)') = lo + n
      /\ \A i \in 1..Len(Got(e)') : Got(e)'[i] = i
  BY <1>1, <1>2, <1>4, <1>6, <1>7, GotMore
<1>10. Arrives(e)'
  BY <1>2, <1>3, <1>7, <1>8, <1>9, ChainedEmpty DEF Arrives
<1>11. Arrives(p)'
  BY <1>2, <1>3, <1>8, <1>9, ArrivesKept DEF Bytes
<1>. QED  BY <1>3, <1>10, <1>11 DEF Bytes

(* Every step keeps the bytes in order. *)
LEMMA BytesStep ==
    ASSUME TypeOK, OpenedFirst, FlowAccounts, Handshake, Bytes, Next
    PROVE  Bytes'
<1>. USE DEF lifeVars, windowVars, bufVars
<1>1. CASE Setup
  <2>1. CASE OpenRegister
    BY <2>1, RegisterBytes
  <2>2. CASE OpenCheck \/ AcceptStream \/ AcceptShutdown
    <3>1. UNCHANGED <<sent, wire, shutdownErr, registered, delivered, recvBuf>>
      BY <2>2 DEF OpenCheck, AcceptStream, AcceptShutdown
    <3>. QED  BY <3>1, BytesKept DEF Got
  <2>. QED  BY <1>1, <2>1, <2>2 DEF Setup
<1>2. ASSUME NEW e \in Sides, Write(e) \/ WriteCall(e) \/ WriteTimeout(e)
      PROVE  Bytes'
  <2>1. CASE WriteSend(e)
    BY <2>1, WriteSendBytes
  <2>2. CASE ~WriteSend(e)
    <3>1. UNCHANGED <<sent, wire, shutdownErr, registered, delivered, recvBuf>>
      BY <1>2, <2>2 DEF Write, WriteCheck, WriteSent, WriteFailed, WriteWake, WriteCall, WriteTimeout
    <3>. QED  BY <3>1, BytesKept DEF Got
  <2>. QED  BY <2>1, <2>2
<1>3. ASSUME NEW e \in Sides, CloseCall(e) \/ LoadClose(e)
      PROVE  Bytes'
  <2>1. UNCHANGED <<sent, wire, shutdownErr, delivered, recvBuf>>
    BY <1>3 DEF CloseCall, LoadClose
  <2>2. registered' = registered \/ registered' = [registered EXCEPT ![e] = FALSE]
    BY <1>3 DEF CloseCall, LoadClose
  <2>3. \A d \in Sides : registered'[d] => registered[d]
    BY <2>2 DEF TypeOK
  <2>. QED  BY <2>1, <2>3, BytesKept DEF Got
<1>4. ASSUME NEW e \in Sides, Recv(e)
      PROVE  Bytes'
  <2>1. CASE RecvSYN(e) \/ RecvWindow(e)
    <3>1. /\ wire[Peer(e)] # << >> /\ wire' = Handled(e) /\ shutdownErr' = shutdownErr
          /\ sent' = sent /\ delivered' = delivered /\ recvBuf' = recvBuf
          /\ \E x : registered' = [registered EXCEPT ![e] = x]
      BY <2>1 DEF RecvSYN, RecvWindow, ProcessFlags
    <3>2. Head(wire[Peer(e)]).type # "data" /\ (registered[e] \/ Head(wire[Peer(e)]).flag = "SYN")
      BY <2>1, <3>1, RecvType DEF RecvSYN, RecvWindow, Frames
    <3>3. \A d \in Sides : d # e => registered'[d] = registered[d]
      BY <3>1 DEF TypeOK
    <3>. QED  BY <3>1, <3>2, <3>3, OtherBytes DEF Got
  <2>2. CASE RecvReject(e) \/ RecvMissing(e)
    BY <2>2, DroppedBytes
  <2>3. CASE RecvData(e)
    BY <2>3, RecvDataBytes
  <2>4. CASE RecvRefuse(e)
    <3>. DEFINE rest == [wire EXCEPT ![Peer(e)] = << >>]
    <3>1. UNCHANGED <<sent, delivered, recvBuf>>
      BY <2>4 DEF RecvRefuse, streamRest
    <3>2. \/ \E err : err # "nil" /\ Shutdown(e, err, rest)
          \/ Shut(e) /\ wire' = rest /\ UNCHANGED lifeVars
      BY <2>4 DEF RecvRefuse
    <3>. HIDE DEF rest
    <3>3. CASE \E err : err # "nil" /\ Shutdown(e, err, rest)
      BY <3>1, <3>3, ShutdownBytes DEF rest
    <3>4. CASE Shut(e) /\ wire' = rest /\ UNCHANGED lifeVars
      BY <3>1, <3>4, RestBytes DEF rest, Broken
    <3>. QED  BY <3>2, <3>3, <3>4
  <2>5. CASE RecvShort(e)
    BY <2>5, RecvShortBytes
  <2>6. CASE RecvEOF(e)
    BY <2>6, ShutdownBytes DEF RecvEOF, streamRest
  <2>. QED  BY <1>4, <2>1, <2>2, <2>3, <2>4, <2>5, <2>6 DEF Recv
<1>5. ASSUME NEW e \in Sides, SessionClose(e) \/ SendFail(e)
      PROVE  Bytes'
  BY <1>5, ShutdownBytes DEF SessionClose, SendFail, streamRest
<1>6. ASSUME NEW e \in Sides, NEW t \in CtlTasks(e), Control(e, t)
      PROVE  Bytes'
  <2>1. CASE SendControl(e, t)
    BY <2>1, SendControlBytes
  <2>2. CASE ~SendControl(e, t)
    <3>1. UNCHANGED <<sent, wire, shutdownErr, registered, delivered, recvBuf>>
      BY <1>6, <2>2 DEF Control, LoadUpdate, ControlSent, ControlFailed
    <3>. QED  BY <3>1, BytesKept DEF Got
  <2>. QED  BY <2>1, <2>2
<1>7. ASSUME NEW e \in Sides, NEW r \in Readers[e],
             Read(e, r) \/ ReadCall(e, r) \/ ReadTimeout(e, r)
      PROVE  Bytes'
  <2>1. UNCHANGED <<sent, wire, shutdownErr, registered>>
    BY <1>7 DEF Read, ReadCall, ReadTimeout, ReadCheck, ReadTake, ReadWake
  <2>2. \A d \in Sides : Got(d)' = Got(d)
    <3>1. CASE ReadTake(e, r)
      BY <3>1, TakeKeeps
    <3>2. CASE ~ReadTake(e, r)
      <4>1. UNCHANGED <<delivered, recvBuf>>
        BY <1>7, <3>2 DEF Read, ReadCall, ReadTimeout, ReadCheck, ReadWake
      <4>. QED  BY <4>1 DEF Got
    <3>. QED  BY <3>1, <3>2
  <2>. QED  BY <2>1, <2>2, BytesKept
<1>. QED  BY <1>1, <1>2, <1>3, <1>4, <1>5, <1>6, <1>7 DEF Next

-----------------------------------------------------------------------------
(* What the bytes show *)

BytesInv == HandshakeInv /\ Bytes

(* Nothing was written or read yet. *)
LEMMA BytesInvInit == Init => BytesInv
<1>. SUFFICES ASSUME Init PROVE BytesInv
  OBVIOUS
<1>1. \A e \in Sides : /\ Got(e) = << >> /\ wire[e] = << >> /\ sent[e] = 0 /\ Peer(e) \in Sides
  BY PeerOf, EmptySeq DEF Init, Got
<1>2. Len(<< >>) = 0 /\ Chained(<< >>, 0) /\ Reaches(<< >>, 0, 0)
  BY ChainedEmpty
<1>3. Bytes
  BY <1>1, <1>2 DEF Bytes, Arrives
<1>. QED  BY <1>3, HandshakeInvInit DEF BytesInv

(* Every step keeps it. *)
LEMMA BytesInvNext == BytesInv /\ [Next]_vars => BytesInv'
<1>. SUFFICES ASSUME BytesInv, [Next]_vars PROVE BytesInv'
  OBVIOUS
<1>1. HandshakeInv' /\ TypeOK /\ OpenedFirst /\ FlowAccounts /\ Handshake /\ Bytes
  BY HandshakeInvNext DEF BytesInv, HandshakeInv, FlowInv
<1>2. CASE Next
  BY <1>1, <1>2, BytesStep DEF BytesInv
<1>3. CASE UNCHANGED vars
  <2>1. UNCHANGED <<sent, wire, shutdownErr, registered, delivered, recvBuf>>
    BY <1>3 DEF vars, lifeVars, windowVars, bufVars
  <2>. QED  BY <1>1, <2>1, BytesKept DEF BytesInv, Got
<1>. QED  BY <1>2, <1>3

(* What a user reads, and what waits for it, is what the peer wrote: every byte in
   its place, none twice, none that was not written. *)
THEOREM ReadsPrefix == Spec => []ReadsArePrefix
<1>1. BytesInv => ReadsArePrefix
  BY DEF BytesInv, Bytes, Arrives, Got, ReadsArePrefix
<1>. QED  BY <1>1, BytesInvInit, BytesInvNext, PTL DEF Spec

-----------------------------------------------------------------------------
(* The end of a stream *)

(* A Write under way has bytes left, and the frame it sends is not empty. *)
Writing ==
    \A e \in Sides :
        /\ pc[e]["writer"] \in {"start", "wait", "send", "flush"} => todo[e] > 0
        /\ pc[e]["writer"] \in {"send", "flush"} => wlen[e] > 0

(* Close found no Write under way, and none that begins later sends a frame. *)
Quiet(e) == pc[e]["closer"] # "idle" => pc[e]["writer"] \in {"idle", "start", "stopped"}

(* e has everything: its peer closed, sent no more, and nothing is on the way. *)
Drained(e) ==
    /\ pc[Peer(e)]["closer"] # "idle" /\ NoData(wire[Peer(e)])
    /\ Len(Got(e)) = sent[Peer(e)]

(* Whoever was told the end, by a FIN or by Read, has everything. *)
Complete(e) ==
    /\ Told(e) => Drained(e)
    /\ \A r \in Readers[e] : pc[e][r] = "eof" => Drained(e) /\ recvBuf[e] = << >>

EndsWell == ~Broken => \A e \in Sides : Quiet(e) /\ Complete(e)

FinLast(w) == \A i, j \in 1..Len(w) : i < j /\ w[i].flag = "FIN" => w[j].type # "data"

(* No data after a FIN, in what is left of a wire or gets a frame without data. *)
LEMMA FinLastKept ==
    ASSUME NEW w \in Seq(Frames)
    PROVE  /\ \A v \in Seq(Frames) : Part(v, w) /\ FinLast(w) => FinLast(v)
           /\ \A f \in Frames : f.type # "data" /\ FinLast(w) => FinLast(Append(w, f))
           /\ \A f \in Frames : f.type # "data" /\ NoData(w) => NoData(Append(w, f))
           /\ ~Has(w, "FIN") => FinLast(w) /\ \A f \in Frames : FinLast(Append(w, f))
           /\ w # << >> /\ NoData(w) => NoData(Tail(w)) /\ Head(w).type # "data"
           /\ w # << >> /\ FinLast(w) /\ Head(w).flag = "FIN" => NoData(Tail(w))
<1>1. ASSUME NEW v \in Seq(Frames), Part(v, w), FinLast(w) PROVE FinLast(v)
  <2>1. PICK k \in Nat : Len(v) + k <= Len(w) /\ \A i \in 1..Len(v) : v[i] = w[i + k]
    BY <1>1 DEF Part
  <2>2. Len(v) \in Nat /\ Len(w) \in Nat
    BY LenProperties
  <2>3. \A i \in 1..Len(v) : i + k \in 1..Len(w)
    BY <2>1, <2>2
  <2>4. \A i, j \in 1..Len(v) : i < j => i + k < j + k
    BY <2>1, <2>2
  <2>. QED  BY <1>1, <2>1, <2>3, <2>4 DEF FinLast
<1>2. ASSUME NEW f \in Frames
      PROVE  /\ f.type # "data" /\ FinLast(w) => FinLast(Append(w, f))
             /\ f.type # "data" /\ NoData(w) => NoData(Append(w, f))
             /\ ~Has(w, "FIN") => FinLast(Append(w, f))
  <2>. DEFINE v == Append(w, f)
              n == Len(w)
  <2>1. /\ Len(v) = n + 1 /\ n \in Nat
        /\ v[n + 1] = f /\ \A i \in 1..n : v[i] = w[i]
    BY AppendProperties, LenProperties
  <2>2. \A i \in 1..Len(v) : (i \in 1..n /\ v[i] = w[i]) \/ (i = n + 1 /\ v[i] = f)
    BY <2>1
  <2>3. \A i, j \in 1..Len(v) : i < j => i \in 1..n /\ v[i] = w[i]
    BY <2>1
  <2>. HIDE DEF v
  <2>4. f.type # "data" /\ FinLast(w) => FinLast(v)
    BY <2>2, <2>3 DEF FinLast
  <2>5. f.type # "data" /\ NoData(w) => NoData(v)
    BY <2>2 DEF NoData
  <2>6. ~Has(w, "FIN") => FinLast(v)
    BY <2>3 DEF FinLast, Has
  <2>. QED  BY <2>4, <2>5, <2>6 DEF v
<1>3. ~Has(w, "FIN") => FinLast(w)
  BY DEF Has, FinLast
<1>4. ASSUME w # << >>
      PROVE  /\ NoData(w) => NoData(Tail(w)) /\ Head(w).type # "data"
             /\ FinLast(w) /\ Head(w).flag = "FIN" => NoData(Tail(w))
  <2>1. /\ Len(Tail(w)) = Len(w) - 1 /\ Len(w) \in Nat /\ Len(w) >= 1 /\ Head(w) = w[1]
        /\ \A i \in 1..Len(Tail(w)) : Tail(w)[i] = w[i + 1]
    BY <1>4, HeadTailProperties, EmptySeq
  <2>2. 1 \in 1..Len(w) /\ \A i \in 1..Len(Tail(w)) : i + 1 \in 1..Len(w) /\ 1 < i + 1
    BY <2>1
  <2>. QED  BY <2>1, <2>2 DEF NoData, FinLast
<1>. QED  BY <1>1, <1>2, <1>3, <1>4

(* While both sessions stay up, none of the steps that end one was taken. *)
LEMMA UpStep ==
    ASSUME TypeOK, Next, ~Broken'
    PROVE  /\ ~Broken /\ shutdownErr' = shutdownErr
           /\ \A e \in Sides : ~(RecvRefuse(e) \/ RecvShort(e) \/ RecvEOF(e) \/ SessionClose(e) \/ SendFail(e))
<1>1. \A e \in Sides : \A err, w : Shutdown(e, err, w) => err = "nil"
  <2>. SUFFICES ASSUME NEW e \in Sides, NEW err, NEW w, Shutdown(e, err, w) PROVE err = "nil"
    OBVIOUS
  <2>1. shutdownErr'[e] = err
    BY DEF Shutdown, TypeOK
  <2>. QED  BY <2>1 DEF Broken, Shut
<1>2. \A e \in Sides : ~SessionClose(e) /\ ~RecvEOF(e) /\ ~SendFail(e)
  BY <1>1 DEF SessionClose, RecvEOF, SendFail
<1>3. shutdownErr' = shutdownErr
  <2>1. SUFFICES ASSUME shutdownErr' # shutdownErr PROVE FALSE
    OBVIOUS
  <2>2. PICK e \in Sides : RecvRefuse(e) \/ RecvShort(e)
    BY <1>2, <2>1, OnlyEnds
  <2>3. \E err, w : Shutdown(e, err, w) /\ err # "nil"
    <3>1. CASE RecvRefuse(e)
      <4>1. \E err : /\ err \in {"ErrDuplicateStream", "ErrUnexpectedFlag", "ErrRecvWindowExceeded"}
                     /\ Shutdown(e, err, [wire EXCEPT ![Peer(e)] = << >>])
        BY <2>1, <3>1 DEF RecvRefuse, lifeVars
      <4>. QED  BY <4>1
    <3>2. CASE RecvShort(e)
      BY <2>1, <3>2 DEF RecvShort, lifeVars
    <3>. QED  BY <2>2, <3>1, <3>2
  <2>. QED  BY <1>1, <2>3
<1>4. ~Broken
  BY <1>3 DEF Broken, Shut
<1>5. ASSUME NEW e \in Sides PROVE ~RecvRefuse(e) /\ ~RecvShort(e)
  <2>1. ~Shut(e)
    BY <1>4 DEF Broken
  <2>. QED  BY <1>1, <1>4, <2>1 DEF RecvRefuse, RecvShort
<1>. QED  BY <1>2, <1>3, <1>4, <1>5

(* Only Write moves the writer. *)
LEMMA WritingStep ==
    ASSUME TypeOK, FlowAccounts, Writing, Next
    PROVE  Writing'
<1>. USE DEF windowVars, writeVars, streamRest
<1>1. ASSUME NEW e \in Sides, NEW t \in Tasks, t # "writer", NEW l, Goto(e, t, l), UNCHANGED writeVars
      PROVE  Writing'
  <2>1. \A d \in Sides : pc'[d]["writer"] = pc[d]["writer"]
    BY <1>1, Moved, TaskFacts
  <2>. QED  BY <1>1, <2>1 DEF Writing
<1>2. CASE UNCHANGED <<pc, writeVars>>
  BY <1>2 DEF Writing
<1>3. CASE Setup
  <2>1. UNCHANGED writeVars
    BY <1>3 DEF Setup, OpenCheck, OpenRegister, AcceptStream, AcceptShutdown
  <2>2. \E e \in Sides : \E l : Goto(e, "setup", l)
    BY <1>3, Ends DEF Setup, OpenCheck, OpenRegister, AcceptStream, AcceptShutdown
  <2>. QED  BY <1>1, <2>1, <2>2, TaskFacts
<1>4. ASSUME NEW e \in Sides, Write(e) \/ WriteCall(e) \/ WriteTimeout(e)
      PROVE  Writing'
  <2>1. PICK l : Goto(e, "writer", l)
    BY <1>4 DEF Write, WriteCheck, WriteSend, WriteSent, WriteFailed, WriteWake, WriteCall, WriteTimeout
  <2>2. /\ pc'[e]["writer"] = l /\ \A d \in Sides : d # e => pc'[d]["writer"] = pc[d]["writer"]
    BY <2>1, Moved, TaskFacts
  <2>3. \E x, y : todo' = [todo EXCEPT ![e] = x] /\ wlen' = [wlen EXCEPT ![e] = y]
    <3>1. todo = [todo EXCEPT ![e] = todo[e]] /\ wlen = [wlen EXCEPT ![e] = wlen[e]]
      BY DEF TypeOK
    <3>. QED  BY <1>4, <3>1 DEF Write, WriteCheck, WriteSend, WriteSent, WriteFailed, WriteWake, WriteCall, WriteTimeout
  <2>4. \A d \in Sides : d # e => todo'[d] = todo[d] /\ wlen'[d] = wlen[d]
    BY <2>3 DEF TypeOK
  <2>5. /\ l \in {"start", "wait", "send", "flush"} => todo'[e] > 0
        /\ l \in {"send", "flush"} => wlen'[e] > 0
    <3>1. todo \in [Sides -> Nat] /\ wlen \in [Sides -> Nat] /\ todo[e] \in Nat /\ wlen[e] \in Nat
          /\ sendWindow[e] \in Nat
      BY DEF TypeOK
    <3>2. CASE WriteCall(e)
      <4>1. \E n \in 1..(Total[e] - sent[e]) : todo' = [todo EXCEPT ![e] = n]
        BY <3>2 DEF WriteCall
      <4>2. l = "start"
        BY <2>2, <3>2, Moved, TaskFacts DEF WriteCall
      <4>. QED  BY <3>1, <4>1, <4>2
    <3>3. CASE WriteCheck(e)
      <4>0. pc[e]["writer"] = "start" /\ todo[e] > 0
        BY <3>3 DEF WriteCheck, Writing
      <4>1. \/ l = "stopped"
            \/ l = "wait" /\ todo' = todo
            \/ /\ l = "send" /\ sendWindow[e] > 0 /\ todo' = todo
               /\ wlen' = [wlen EXCEPT ![e] = MinOf(sendWindow[e], todo[e])]
        BY <2>2, <3>3, Moved, TaskFacts DEF WriteCheck
      <4>. QED  BY <3>1, <4>0, <4>1 DEF MinOf
    <3>4. CASE WriteSend(e)
      BY <3>1, <3>4 DEF WriteSend, Writing
    <3>5. CASE WriteSent(e)
      <4>1. /\ todo'[e] = todo[e] - wlen[e] /\ wlen[e] <= todo[e]
            /\ l = IF todo[e] = wlen[e] THEN "idle" ELSE "start"
        BY <2>2, <3>1, <3>5, Moved, TaskFacts DEF WriteSent, FlowAccounts, WriterBound
      <4>. QED  BY <3>1, <4>1
    <3>6. CASE WriteFailed(e) \/ WriteTimeout(e)
      <4>1. l \in {"stopped", "idle"}
        BY <2>2, <3>6, Moved, TaskFacts DEF WriteFailed, WriteTimeout
      <4>. QED  BY <4>1
    <3>7. CASE WriteWake(e)
      <4>1. l = "start" /\ todo' = todo /\ pc[e]["writer"] = "wait"
        BY <2>2, <3>7, Moved, TaskFacts DEF WriteWake
      <4>. QED  BY <4>1 DEF Writing
    <3>. QED  BY <1>4, <3>2, <3>3, <3>4, <3>5, <3>6, <3>7 DEF Write
  <2>. QED  BY <2>2, <2>4, <2>5 DEF Writing
<1>5. ASSUME NEW e \in Sides, CloseCall(e) \/ LoadClose(e)
      PROVE  Writing'
  <2>1. UNCHANGED writeVars /\ \E l : Goto(e, "closer", l)
    BY <1>5 DEF CloseCall, LoadClose
  <2>. QED  BY <1>1, <2>1, TaskFacts
<1>6. ASSUME NEW e \in Sides, Recv(e) \/ SessionClose(e) \/ SendFail(e)
      PROVE  Writing'
  <2>1. UNCHANGED <<pc, writeVars>>
    BY <1>6 DEF Recv, RecvSYN, RecvReject, RecvMissing, RecvWindow, RecvData, RecvRefuse,
                RecvShort, RecvEOF, SessionClose, SendFail
  <2>. QED  BY <1>2, <2>1
<1>7. ASSUME NEW e \in Sides, NEW t \in CtlTasks(e), Control(e, t)
      PROVE  Writing'
  <2>1. UNCHANGED writeVars /\ \E l : Goto(e, t, l)
    BY <1>7 DEF Control, LoadUpdate, SendControl, ControlSent, ControlFailed
  <2>. QED  BY <1>1, <2>1, NotWriter
<1>8. ASSUME NEW e \in Sides, NEW r \in Readers[e],
             Read(e, r) \/ ReadCall(e, r) \/ ReadTimeout(e, r)
      PROVE  Writing'
  <2>1. UNCHANGED writeVars /\ \E l : Goto(e, r, l)
    BY <1>8 DEF Read, ReadCall, ReadTimeout, ReadCheck, ReadTake, ReadWake
  <2>. QED  BY <1>1, <2>1, NotWriter, TaskFacts
<1>. QED  BY <1>3, <1>4, <1>5, <1>6, <1>7, <1>8 DEF Next

(* What a step does to a wire: some of it is taken or lost, or one frame follows. *)
LEMMA WireStep ==
    ASSUME TypeOK, OpenedFirst, FlowAccounts, Handshake, Next, NEW d \in Sides
    PROVE  \/ wire'[d] \in Seq(Frames) /\ Part(wire'[d], wire[d])
           \/ ~Broken /\ \E f \in Frames : f.type # "data" /\ wire'[d] = Append(wire[d], f)
           \/ ~Broken /\ WriteSend(d) /\ \E f \in Frames : wire'[d] = Append(wire[d], f)
<1>. USE DEF lifeVars, windowVars, bufVars
<1>. DEFINE P == \/ wire'[d] \in Seq(Frames) /\ Part(wire'[d], wire[d])
                 \/ ~Broken /\ \E f \in Frames : f.type # "data" /\ wire'[d] = Append(wire[d], f)
                 \/ ~Broken /\ WriteSend(d) /\ \E f \in Frames : wire'[d] = Append(wire[d], f)
<1>1. wire \in [Sides -> Seq(Frames)] /\ wire[d] \in Seq(Frames)
  BY DEF TypeOK
<1>2. CASE wire'[d] = wire[d]
  BY <1>1, <1>2, Parts
<1>3. CASE wire' = wire
  BY <1>2, <1>3
<1>4. CASE Setup
  <2>1. wire' = wire
    BY <1>4 DEF Setup, OpenCheck, OpenRegister, AcceptStream, AcceptShutdown
  <2>. QED  BY <1>3, <2>1
<1>5. ASSUME NEW e \in Sides, Write(e) \/ WriteCall(e) \/ WriteTimeout(e)
      PROVE  P
  <2>1. CASE WriteSend(e)
    <3>. DEFINE f == [type |-> "data", flag |-> SendFlag(state[e]), from |-> sent[e], len |-> wlen[e]]
    <3>1. SendFlag(state[e]) \in {"none", "ACK"}
      <4>1. state[e] # "Init"
        BY <2>1 DEF OpenedFirst, Ready, WriteSend
      <4>. QED  BY <4>1, FlaggedFacts
    <3>2. f \in Frames /\ wire' = Sent(wire, e, f)
      BY <2>1, <3>1 DEF TypeOK, Frames, Flags, WriteSend
    <3>. HIDE DEF f
    <3>3. /\ d # e => wire'[d] = wire[d]
          /\ Broken => wire' = wire
          /\ ~Broken => wire'[e] = Append(wire[e], f)
      BY <3>2, SentHas
    <3>. QED  BY <1>2, <1>3, <2>1, <3>2, <3>3
  <2>2. CASE ~WriteSend(e)
    <3>1. wire' = wire
      BY <1>5, <2>2 DEF Write, WriteCheck, WriteSent, WriteFailed, WriteWake, WriteCall, WriteTimeout
    <3>. QED  BY <1>3, <3>1
  <2>. QED  BY <2>1, <2>2
<1>6. ASSUME NEW e \in Sides, CloseCall(e) \/ LoadClose(e)
      PROVE  P
  <2>1. wire' = wire
    BY <1>6 DEF CloseCall, LoadClose
  <2>. QED  BY <1>3, <2>1
<1>7. ASSUME NEW e \in Sides, Recv(e)
      PROVE  P
  <2>1. CASE RecvSYN(e) \/ RecvMissing(e) \/ RecvWindow(e) \/ RecvData(e)
    <3>1. wire[Peer(e)] # << >> /\ wire' = Handled(e)
      BY <2>1 DEF RecvSYN, RecvMissing, RecvWindow, RecvData
    <3>2. Part(Handled(e)[d], wire[d]) /\ Handled(e)[d] \in Seq(Frames)
      BY <3>1, HandledFacts
    <3>. QED  BY <3>1, <3>2
  <2>2. CASE RecvReject(e)
    <3>. DEFINE f == [type |-> "window", flag |-> "RST", from |-> Announced(e), len |-> 0]
    <3>1. wire[Peer(e)] # << >> /\ wire' = Sent(Handled(e), e, f)
      BY <2>2 DEF RecvReject
    <3>2. /\ Handled(e) \in [Sides -> Seq(Frames)] /\ Handled(e)[e] = wire[e]
          /\ Part(Handled(e)[d], wire[d]) /\ Handled(e)[d] \in Seq(Frames)
      BY <3>1, HandledFacts
    <3>3. f \in Frames /\ f.type # "data"
      BY AnnouncedType DEF FlowAccounts, TypeOK, Frames, Flags
    <3>. HIDE DEF f
    <3>4. \/ wire'[d] = Handled(e)[d]
          \/ ~Broken /\ d = e /\ wire'[d] = Append(wire[d], f)
      BY <3>1, <3>2 DEF Sent
    <3>. QED  BY <3>2, <3>3, <3>4
  <2>3. CASE RecvRefuse(e) \/ RecvShort(e) \/ RecvEOF(e)
    <3>. DEFINE rest == [wire EXCEPT ![Peer(e)] = << >>]
    <3>1. \/ \E err, w : err # "nil" /\ (w = wire \/ w = rest) /\ Shutdown(e, err, w)
          \/ wire' = rest
      <4>1. CASE RecvRefuse(e)
        <5>1. \/ \E err : /\ err \in {"ErrDuplicateStream", "ErrUnexpectedFlag", "ErrRecvWindowExceeded"}
                          /\ Shutdown(e, err, rest)
              \/ wire' = rest
          BY <4>1 DEF RecvRefuse
        <5>. QED  BY <5>1
      <4>2. CASE RecvShort(e)
        BY <4>2 DEF RecvShort
      <4>3. CASE RecvEOF(e)
        BY <4>3 DEF RecvEOF
      <4>. QED  BY <2>3, <4>1, <4>2, <4>3
    <3>2. CASE \E err, w : err # "nil" /\ (w = wire \/ w = rest) /\ Shutdown(e, err, w)
      <4>. HIDE DEF rest
      <4>1. PICK err, w : err # "nil" /\ (w = wire \/ w = rest) /\ Shutdown(e, err, w)
        BY <3>2
      <4>2. wire'[d] \in Seq(Frames) /\ Part(wire'[d], wire[d])
        BY <4>1, ShutdownParts DEF rest
      <4>. QED  BY <4>2
    <3>3. CASE wire' = rest
      <4>1. wire'[d] = wire[d] \/ wire'[d] = << >>
        BY <1>1, <3>3
      <4>. QED  BY <1>1, <4>1, Parts, EmptySeq
    <3>. QED  BY <3>1, <3>2, <3>3
  <2>. QED  BY <1>7, <2>1, <2>2, <2>3 DEF Recv
<1>8. ASSUME NEW e \in Sides, SessionClose(e) \/ SendFail(e)
      PROVE  P
  <2>1. \E err : err # "nil" /\ Shutdown(e, err, wire)
    BY <1>8 DEF SessionClose, SendFail
  <2>. QED  BY <2>1, ShutdownParts
<1>9. ASSUME NEW e \in Sides, NEW t \in CtlTasks(e), Control(e, t)
      PROVE  P
  <2>1. CASE SendControl(e, t)
    <3>. DEFINE f == [type |-> "window", flag |-> ctl[e].flag, from |-> Announced(e), len |-> ctl[e].delta]
    <3>1. f \in Frames /\ f.type # "data" /\ wire' = Sent(wire, e, f)
      BY <2>1, AnnouncedType DEF FlowAccounts, TypeOK, Frames, SendControl
    <3>. HIDE DEF f
    <3>2. /\ d # e => wire'[d] = wire[d]
          /\ Broken => wire' = wire
          /\ ~Broken => wire'[e] = Append(wire[e], f)
      BY <3>1, SentHas
    <3>. QED  BY <1>2, <1>3, <3>1, <3>2
  <2>2. CASE ~SendControl(e, t)
    <3>1. wire' = wire
      BY <1>9, <2>2 DEF Control, LoadUpdate, ControlSent, ControlFailed
    <3>. QED  BY <1>3, <3>1
  <2>. QED  BY <2>1, <2>2
<1>10. ASSUME NEW e \in Sides, NEW r \in Readers[e],
             Read(e, r) \/ ReadCall(e, r) \/ ReadTimeout(e, r)
      PROVE  P
  <2>1. wire' = wire
    BY <1>10 DEF Read, ReadCall, ReadTimeout, ReadCheck, ReadTake, ReadWake
  <2>. QED  BY <1>3, <2>1
<1>. QED  BY <1>4, <1>5, <1>6, <1>7, <1>8, <1>9, <1>10 DEF Next

(* No data follows a FIN: Close found no Write under way. *)
LEMMA LastStep ==
    ASSUME TypeOK, OpenedFirst, FlowAccounts, Handshake, NoDataAfterFin, EndsWell, Next
    PROVE  NoDataAfterFin'
<1>1. \A e \in Sides : wire[e] \in Seq(Frames) /\ FinLast(wire[e])
  BY DEF TypeOK, NoDataAfterFin, FinLast
<1>2. ASSUME NEW e \in Sides PROVE FinLast(wire'[e])
  <2>1. CASE wire'[e] \in Seq(Frames) /\ Part(wire'[e], wire[e])
    BY <1>1, <2>1, FinLastKept
  <2>2. CASE \E f \in Frames : f.type # "data" /\ wire'[e] = Append(wire[e], f)
    BY <1>1, <2>2, FinLastKept
  <2>3. CASE ~Broken /\ WriteSend(e) /\ \E f \in Frames : wire'[e] = Append(wire[e], f)
    <3>1. pc[e]["closer"] = "idle"
      BY <2>3 DEF EndsWell, Quiet, WriteSend
    <3>2. ~Has(wire[e], "FIN")
      BY <3>1 DEF Handshake, FinOnce
    <3>. QED  BY <1>1, <2>3, <3>2, FinLastKept
  <2>. QED  BY <2>1, <2>2, <2>3, WireStep
<1>. QED  BY <1>2 DEF NoDataAfterFin, FinLast

(* Data only follows when Write sends it. *)
LEMMA StillNoData ==
    ASSUME TypeOK, OpenedFirst, FlowAccounts, Handshake, Next, NEW e \in Sides, ~WriteSend(e), NoData(wire[e])
    PROVE  NoData(wire'[e])
<1>1. wire[e] \in Seq(Frames)
  BY DEF TypeOK
<1>2. CASE wire'[e] \in Seq(Frames) /\ Part(wire'[e], wire[e])
  BY <1>1, <1>2, PartKeeps
<1>3. CASE \E f \in Frames : f.type # "data" /\ wire'[e] = Append(wire[e], f)
  BY <1>1, <1>3, FinLastKept
<1>. QED  BY <1>2, <1>3, WireStep

(* One end's part of the invariant is kept when nothing reaches it. *)
LEMMA CompleteKept ==
    ASSUME NEW e \in Sides, Complete(e),
           pc'[Peer(e)]["closer"] = "idle" => pc[Peer(e)]["closer"] = "idle",
           Told(e)' => Told(e), \A r \in Readers[e] : pc'[e][r] = "eof" => pc[e][r] = "eof",
           Got(e)' = Got(e), sent'[Peer(e)] = sent[Peer(e)],
           recvBuf[e] = << >> => recvBuf'[e] = << >>,
           NoData(wire[Peer(e)]) => NoData(wire'[Peer(e)])
    PROVE  Complete(e)'
<1>1. Drained(e) => Drained(e)'
  BY DEF Drained
<1>. QED  BY <1>1 DEF Complete

(* A task moved, and no byte. *)
LEMMA TaskEnds ==
    ASSUME TypeOK, EndsWell, ~Broken, NEW e \in Sides, NEW t \in Tasks, NEW l, Goto(e, t, l),
           t = "closer" => l # "idle" /\ pc[e]["closer"] # "idle",
           t = "writer" => l \in {"idle", "start", "stopped"} \/ pc[e]["closer"] = "idle",
           t \in Readers[e] => l # "eof",
           \A d \in Sides : /\ Told(d)' => Told(d)
                            /\ Got(d)' = Got(d) /\ sent'[d] = sent[d]
                            /\ recvBuf[d] = << >> => recvBuf'[d] = << >>
                            /\ NoData(wire[d]) => NoData(wire'[d])
    PROVE  EndsWell'
<1>1. /\ pc'[e][t] = l
      /\ \A d \in Sides : \A u \in Tasks : d # e \/ u # t => pc'[d][u] = pc[d][u]
  BY Moved
<1>2. ASSUME NEW d \in Sides PROVE Quiet(d)' /\ Complete(d)'
  <2>1. Quiet(d) /\ Complete(d) /\ Peer(d) \in Sides
    BY PeerOf DEF EndsWell
  <2>2. \A c \in Sides : pc'[c]["closer"] = "idle" <=> pc[c]["closer"] = "idle"
    BY <1>1, TaskFacts
  <2>3. \A r \in Readers[d] : pc'[d][r] = "eof" => pc[d][r] = "eof"
    BY <1>1, TaskFacts
  <2>4. Quiet(d)'
    BY <1>1, <2>1, <2>2, TaskFacts DEF Quiet
  <2>5. Complete(d)'
    BY <2>1, <2>2, <2>3, CompleteKept
  <2>. QED  BY <2>4, <2>5
<1>. QED  BY <1>2 DEF EndsWell

(* recv took a frame at e. *)
LEMMA RecvEnds ==
    ASSUME TypeOK, EndsWell, ~Broken, NEW e \in Sides, pc' = pc, sent' = sent, Complete(e)',
           \A d \in Sides : d # e => /\ Told(d)' => Told(d)
                                     /\ Got(d)' = Got(d) /\ recvBuf'[d] = recvBuf[d],
           \A d \in Sides : NoData(wire[d]) => NoData(wire'[d])
    PROVE  EndsWell'
<1>1. \A d \in Sides : Quiet(d)' /\ Complete(d) /\ Peer(d) \in Sides
  BY PeerOf DEF EndsWell, Quiet
<1>2. ASSUME NEW d \in Sides, d # e PROVE Complete(d)'
  BY <1>1, <1>2, CompleteKept
<1>. QED  BY <1>1, <1>2 DEF EndsWell

(* The first FIN finds all the data before it handled. *)
LEMMA FinDrains ==
    ASSUME TypeOK, FlowAccounts, Handshake, Bytes, NoDataAfterFin, ~Broken, NEW e \in Sides,
           registered[e], wire[Peer(e)] # << >>, Head(wire[Peer(e)]).flag = "FIN",
           wire' = Handled(e), pc' = pc, sent' = sent, Got(e)' = Got(e)
    PROVE  Drained(e)'
<1>. DEFINE p == Peer(e)
            w == wire[p]
            lo == Len(Got(e))
<1>1. /\ p \in Sides /\ w \in Seq(Frames) /\ lo \in Nat /\ Arrives(e) /\ Plain(w)
      /\ FinLast(w) /\ wire'[p] = Tail(w) /\ Has(w, "FIN")
      /\ sent[p] \in Nat /\ rcvd[e] \in Int /\ Ordered(w, "data", rcvd[e], sent[p])
  BY HandledFacts, Coming DEF Bytes, NoDataAfterFin, FinLast
<1>2. pc[p]["closer"] # "idle"
  BY <1>1 DEF Handshake, FinOnce
<1>3. NoData(Tail(w)) /\ Head(w).type # "data"
  BY <1>1, FinLastKept, TailLoses
<1>4. Chained(w, lo) /\ Reaches(w, lo, sent[p])
  BY <1>1 DEF Arrives
<1>. HIDE DEF w, lo
<1>5. Reaches(Tail(w), lo, sent[p])
  BY <1>1, <1>3, <1>4, ChainedTail DEF w
<1>6. lo = sent[p]
  BY <1>3, <1>5 DEF Reaches, NoData
<1>. QED  BY <1>1, <1>2, <1>3, <1>6 DEF Drained, lo

(* sendFlags tells nobody the end. *)
LEMMA FlaggedTold ==
    ASSUME TypeOK, NEW e \in Sides, state' = [state EXCEPT ![e] = Flagged(@)],
           \A d \in Sides : ~Shut(d) /\ ~Shut(d)'
    PROVE  \A d \in Sides : Told(d)' <=> Told(d)
<1>1. \A d \in Sides : state'[d] = state[d] \/ (d = e /\ state'[d] = Flagged(state[d]))
  BY DEF TypeOK
<1>2. \A x \in {"RemoteClose", "Closed"} : Flagged(state[e]) = x <=> state[e] = x
  BY FlaggedFacts
<1>. QED  BY <1>1, <1>2 DEF Told

(* Nobody is told the end before it is there. *)
LEMMA EndsStep ==
    ASSUME TypeOK, OpenedFirst, FlowAccounts, Handshake, Bytes, ~CloseRaces, NoDataAfterFin,
           EndsWell, Next
    PROVE  EndsWell'
<1>. USE DEF lifeVars, windowVars, bufVars
<1>0. SUFFICES ASSUME ~Broken' PROVE EndsWell'
  BY DEF EndsWell
<1>1. ~Broken /\ (\A d \in Sides : ~Shut(d) /\ ~Shut(d)') /\ shutdownErr' = shutdownErr
  BY <1>0, UpStep DEF Broken
<1>2. \A d \in Sides : ~WriteSend(d) => (NoData(wire[d]) => NoData(wire'[d]))
  BY StillNoData
<1>3. \A d \in Sides : state'[d] \notin {"RemoteClose", "Closed"} \/ state'[d] = state[d] => (Told(d)' => Told(d))
  BY <1>1 DEF Told
<1>4. CASE Setup
  <2>1. UNCHANGED <<delivered, recvBuf, sent, wire>> /\ \E d \in Sides : \E l : Goto(d, "setup", l)
    BY <1>4, Ends DEF Setup, OpenCheck, OpenRegister, AcceptStream, AcceptShutdown
  <2>2. \A d \in Sides : Told(d)' => Told(d)
    <3>1. state' = state \/ state' = [state EXCEPT !["opener"] = "Init"]
      BY <1>4 DEF Setup, OpenCheck, OpenRegister, AcceptStream, AcceptShutdown
    <3>2. \A d \in Sides : state'[d] = state[d] \/ state'[d] = "Init"
      BY <3>1 DEF TypeOK
    <3>. QED  BY <1>3, <3>2
  <2>3. "setup" \in Tasks /\ \A d \in Sides : "setup" \notin Readers[d]
    BY TaskFacts, ReaderAssumption
  <2>. QED  BY <1>1, <2>1, <2>2, <2>3, TaskEnds DEF Got
<1>5. ASSUME NEW e \in Sides, Write(e) \/ WriteCall(e) \/ WriteTimeout(e)
      PROVE  EndsWell'
  <2>1. "writer" \in Tasks /\ "writer" \notin Readers[e]
    BY TaskFacts, ReaderAssumption
  <2>2. CASE WriteSend(e)
    <3>1. /\ pc[e]["writer"] = "send" /\ Goto(e, "writer", "flush")
          /\ state' = [state EXCEPT ![e] = Flagged(@)] /\ sent' = [sent EXCEPT ![e] = @ + wlen[e]]
          /\ delivered' = delivered /\ recvBuf' = recvBuf
      BY <2>2 DEF WriteSend
    <3>2. pc[e]["closer"] = "idle"
      BY <1>1, <3>1 DEF EndsWell, Quiet
    <3>3. /\ \A d \in Sides : pc'[d]["closer"] = pc[d]["closer"]
          /\ \A d \in Sides : \A r \in Readers[d] : pc'[d][r] = pc[d][r]
          /\ \A d \in Sides : d # e => pc'[d]["writer"] = pc[d]["writer"]
      BY <3>1, Moved, TaskFacts, ReaderAssumption
    <3>4. \A d \in Sides : Told(d)' <=> Told(d)
      BY <1>1, <3>1, FlaggedTold
    <3>5. ASSUME NEW d \in Sides PROVE Quiet(d)' /\ Complete(d)'
      <4>1. Quiet(d) /\ Complete(d) /\ Peer(d) \in Sides
        BY <1>1, PeerOf DEF EndsWell
      <4>2. Quiet(d)'
        BY <3>2, <3>3, <4>1 DEF Quiet
      <4>3. CASE Peer(d) = e
        <5>1. ~Told(d) /\ \A r \in Readers[d] : pc[d][r] # "eof"
          BY <3>2, <4>1, <4>3 DEF Complete, Drained
        <5>2. ~Told(d)' /\ \A r \in Readers[d] : pc'[d][r] # "eof"
          BY <3>3, <3>4, <5>1
        <5>3. Complete(d)'
          BY <5>2 DEF Complete
        <5>. QED  BY <4>2, <5>3
      <4>4. CASE Peer(d) # e
        <5>1. sent'[Peer(d)] = sent[Peer(d)] /\ Got(d)' = Got(d)
          BY <3>1, <4>1, <4>4 DEF TypeOK, Got
        <5>2. ~WriteSend(Peer(d))
          <6>1. ASSUME WriteSend(Peer(d)) PROVE FALSE
            <7>1. pc[Peer(d)]["writer"] = "send" /\ pc'[Peer(d)]["writer"] = "flush"
              BY <4>1, <6>1, Moved, TaskFacts DEF WriteSend
            <7>. QED  BY <3>3, <4>1, <4>4, <7>1
          <6>. QED  BY <6>1
        <5>3. /\ pc'[Peer(d)]["closer"] = pc[Peer(d)]["closer"] /\ recvBuf'[d] = recvBuf[d]
              /\ NoData(wire[Peer(d)]) => NoData(wire'[Peer(d)])
              /\ \A r \in Readers[d] : pc'[d][r] = pc[d][r]
              /\ Told(d)' => Told(d)
          BY <1>2, <3>1, <3>3, <3>4, <4>1, <5>2
        <5>4. Complete(d)'
          BY <4>1, <5>1, <5>3, CompleteKept
        <5>. QED  BY <4>2, <5>4
      <4>. QED  BY <4>2, <4>3, <4>4
    <3>. QED  BY <3>5 DEF EndsWell
  <2>3. CASE ~WriteSend(e)
    <3>1. UNCHANGED <<delivered, recvBuf, sent, wire, state>>
      BY <1>5, <2>3 DEF Write, WriteCheck, WriteSent, WriteFailed, WriteWake, WriteCall, WriteTimeout
    <3>2. \E l : Goto(e, "writer", l) /\ (l \in {"idle", "start", "stopped"} \/ pc[e]["closer"] = "idle")
      <4>1. pc[e]["closer"] # "idle" => state[e] \in {"LocalClose", "Closed", "Reset"}
        BY <1>1 DEF Handshake, ClosedByClose
      <4>. QED  BY <1>5, <2>3, <4>1 DEF Write, WriteCheck, WriteSent, WriteFailed, WriteWake, WriteCall, WriteTimeout
    <3>. QED  BY <1>1, <1>3, <2>1, <3>1, <3>2, TaskEnds DEF Got
  <2>. QED  BY <2>2, <2>3
<1>6. ASSUME NEW e \in Sides, LoadClose(e)
      PROVE  EndsWell'
  <2>1. /\ pc[e]["closer"] = "fin" /\ Goto(e, "closer", "send")
        /\ UNCHANGED <<delivered, recvBuf, sent, wire, state>>
    BY <1>6 DEF LoadClose
  <2>2. "closer" \in Tasks /\ "closer" \notin Readers[e]
    BY TaskFacts, ReaderAssumption
  <2>. QED  BY <1>1, <1>3, <2>1, <2>2, TaskEnds DEF Got
<1>7. ASSUME NEW e \in Sides, CloseCall(e)
      PROVE  EndsWell'
  <2>1. /\ pc[e]["closer"] = "idle" /\ pc[e]["writer"] \in {"idle", "stopped"}
        /\ \E l : Goto(e, "closer", l)
        /\ UNCHANGED <<delivered, recvBuf, sent, wire>>
    BY <1>7 DEF CloseCall
  <2>2. /\ \A d \in Sides : pc'[d]["writer"] = pc[d]["writer"]
        /\ \A d \in Sides : d # e => pc'[d]["closer"] = pc[d]["closer"]
        /\ \A d \in Sides : \A r \in Readers[d] : pc'[d][r] = pc[d][r]
    BY <2>1, Moved, TaskFacts, ReaderAssumption
  <2>3. \A d \in Sides : Told(d)' => Told(d)
    <3>1. \/ state[e] = "RemoteClose"
          \/ state' = [state EXCEPT ![e] = "LocalClose"]
          \/ state' = state
      BY <1>7 DEF CloseCall
    <3>2. \A d \in Sides : d # e => state'[d] = state[d]
      BY <1>7 DEF CloseCall, TypeOK
    <3>. QED  BY <1>1, <3>1, <3>2 DEF Told, TypeOK
  <2>4. ASSUME NEW d \in Sides PROVE Quiet(d)' /\ Complete(d)'
    <3>1. Quiet(d) /\ Complete(d) /\ Peer(d) \in Sides
      BY <1>1, PeerOf DEF EndsWell
    <3>2. pc'[Peer(d)]["closer"] = "idle" => pc[Peer(d)]["closer"] = "idle"
      BY <2>1, <2>2, <3>1
    <3>3. Complete(d)'
      BY <2>1, <2>2, <2>3, <3>1, <3>2, CompleteKept DEF Got
    <3>. QED  BY <2>1, <2>2, <3>1, <3>3 DEF Quiet
  <2>. QED  BY <2>4 DEF EndsWell
<1>8. ASSUME NEW e \in Sides, Recv(e)
      PROVE  EndsWell'
  <2>. DEFINE p == Peer(e)
              frame == Head(wire[p])
  <2>0. RecvSYN(e) \/ RecvReject(e) \/ RecvMissing(e) \/ RecvWindow(e) \/ RecvData(e)
    BY <1>0, <1>8, UpStep DEF Recv
  <2>1. pc' = pc /\ sent' = sent /\ delivered' = delivered /\ wire[p] # << >>
    BY <2>0 DEF RecvSYN, RecvReject, RecvMissing, RecvWindow, RecvData
  <2>2. /\ Quiet(e) /\ Complete(e) /\ p \in Sides /\ wire[p] \in Seq(Frames)
        /\ \A d \in Sides : NoData(wire[d]) => NoData(wire'[d])
    <3>1. \A d \in Sides : NoData(wire[d]) => NoData(wire'[d])
      <4>1. ~ \E d \in Sides : WriteSend(d)
        <5>1. ASSUME NEW d \in Sides, WriteSend(d) PROVE FALSE
          <6>1. pc[d]["writer"] = "send" /\ pc'[d]["writer"] = "flush"
            BY <5>1, Moved, TaskFacts DEF WriteSend
          <6>. QED  BY <2>1, <6>1
        <5>. QED  BY <5>1
      <4>. QED  BY <1>2, <4>1
    <3>. QED  BY <1>1, <3>1, PeerOf DEF EndsWell, TypeOK
  <2>3. CASE RecvSYN(e) \/ RecvReject(e) \/ RecvMissing(e)
    <3>1. recvBuf' = recvBuf /\ (state' = state \/ state' = [state EXCEPT ![e] = "SYNReceived"])
      BY <2>3 DEF RecvSYN, RecvReject, RecvMissing
    <3>2. \A d \in Sides : Told(d)' => Told(d)
      <4>1. \A d \in Sides : state'[d] = state[d] \/ state'[d] = "SYNReceived"
        BY <3>1 DEF TypeOK
      <4>. QED  BY <1>3, <4>1
    <3>3. Complete(e)'
      BY <2>1, <2>2, <3>1, <3>2, CompleteKept DEF Got
    <3>. QED  BY <1>1, <2>1, <2>2, <3>1, <3>2, <3>3, RecvEnds DEF Got
  <2>4. CASE RecvWindow(e) \/ RecvData(e)
    <3>1. /\ registered[e] /\ ~Refused(e, frame) /\ ProcessFlags(e, frame.flag) /\ wire' = Handled(e)
      BY <2>4 DEF RecvWindow, RecvData
    <3>2. /\ \A d \in Sides : d # e => state'[d] = state[d]
          /\ \/ frame.flag \in {"none", "ACK"} /\ (state'[e] = state[e] \/ state'[e] = "Established")
             \/ frame.flag = "FIN"
             \/ frame.flag = "RST" /\ state'[e] = "Reset"
      BY <2>1, <3>1, ProcessedFacts
    <3>3. \A d \in Sides : d # e => (Told(d)' => Told(d))
      BY <1>3, <3>2
    <3>4. CASE RecvWindow(e)
      <4>1. recvBuf' = recvBuf /\ \A d \in Sides : Got(d)' = Got(d)
        BY <2>1, <3>4 DEF RecvWindow, Got
      <4>2. CASE frame.flag = "FIN"
        <5>1. Drained(e)'
          BY <1>1, <2>1, <3>1, <4>1, <4>2, FinDrains
        <5>2. Complete(e)'
          BY <2>1, <2>2, <4>1, <5>1 DEF Complete
        <5>. QED  BY <1>1, <2>1, <2>2, <3>3, <4>1, <5>2, RecvEnds
      <4>3. CASE frame.flag # "FIN"
        <5>1. Told(e)' => Told(e)
          BY <1>3, <3>2, <4>3
        <5>2. Complete(e)'
          BY <2>1, <2>2, <4>1, <5>1, CompleteKept
        <5>. QED  BY <1>1, <2>1, <2>2, <3>3, <4>1, <5>2, RecvEnds
      <4>. QED  BY <4>2, <4>3
    <3>5. CASE RecvData(e)
      <4>1. frame.type = "data" /\ \E x : recvBuf' = [recvBuf EXCEPT ![e] = x]
        BY <3>5 DEF RecvData
      <4>2. ~NoData(wire[p])
        BY <2>1, <2>2, <4>1, FinLastKept
      <4>3. ~Told(e) /\ \A r \in Readers[e] : pc[e][r] # "eof"
        BY <2>2, <4>2 DEF Complete, Drained
      <4>4. frame.flag \notin {"FIN", "RST"}
        <5>1. Plain(wire[p])
          BY <2>2 DEF Handshake, WiresPlain
        <5>. QED  BY <2>1, <2>2, <4>1, <5>1, TailLoses
      <4>5. ~Told(e)'
        BY <1>3, <3>2, <4>3, <4>4
      <4>6. Complete(e)'
        BY <2>1, <4>3, <4>5 DEF Complete
      <4>7. \A d \in Sides : d # e => Got(d)' = Got(d) /\ recvBuf'[d] = recvBuf[d]
        BY <2>1, <4>1 DEF Got, TypeOK
      <4>. QED  BY <1>1, <2>1, <2>2, <3>3, <4>6, <4>7, RecvEnds
    <3>. QED  BY <2>4, <3>4, <3>5
  <2>. QED  BY <2>0, <2>3, <2>4
<1>9. ASSUME NEW e \in Sides, SessionClose(e) \/ SendFail(e)
      PROVE  EndsWell'
  BY <1>0, <1>9, UpStep
<1>10. ASSUME NEW e \in Sides, NEW t \in CtlTasks(e), Control(e, t)
      PROVE  EndsWell'
  <2>1. UNCHANGED <<delivered, recvBuf, sent>>
    BY <1>10 DEF Control, LoadUpdate, SendControl, ControlSent, ControlFailed
  <2>2. /\ \E l : Goto(e, t, l) /\ l \notin {"eof"} /\ (t = "closer" => l # "idle")
        /\ pc[e][t] \in {"update", "send", "flush"}
    BY <1>10 DEF Control, LoadUpdate, SendControl, ControlSent, ControlFailed, After, Failed
  <2>3. \A d \in Sides : Told(d)' => Told(d)
    <3>1. state' = state \/ state' = [state EXCEPT ![e] = Flagged(@)]
      BY <1>10 DEF Control, LoadUpdate, SendControl, ControlSent, ControlFailed
    <3>. QED  BY <1>1, <1>3, <3>1, FlaggedTold
  <2>4. t \in Tasks /\ t # "writer"
    BY NotWriter
  <2>5. \A d \in Sides : NoData(wire[d]) => NoData(wire'[d])
    <3>1. ASSUME NEW d \in Sides, WriteSend(d) PROVE FALSE
      <4>1. sent'[d] = sent[d] + wlen[d] /\ pc'[d]["writer"] = "flush" /\ pc[d]["writer"] = "send"
        BY <3>1, Moved, TaskFacts DEF WriteSend, TypeOK
      <4>2. pc'[d]["writer"] = pc[d]["writer"]
        BY <2>2, <2>4, Moved, TaskFacts
      <4>. QED  BY <4>1, <4>2
    <3>. QED  BY <1>2, <3>1
  <2>. QED  BY <1>1, <2>1, <2>2, <2>3, <2>4, <2>5, TaskEnds DEF Got
<1>11. ASSUME NEW e \in Sides, NEW r \in Readers[e],
             Read(e, r) \/ ReadCall(e, r) \/ ReadTimeout(e, r)
      PROVE  EndsWell'
  <2>1. UNCHANGED <<sent, wire, state>> /\ \E l : Goto(e, r, l)
    BY <1>11 DEF Read, ReadCall, ReadTimeout, ReadCheck, ReadTake, ReadWake
  <2>2. r \in Tasks /\ r # "writer" /\ r # "closer"
    BY TaskFacts, ReaderAssumption
  <2>3. \A d \in Sides : Got(d)' = Got(d) /\ (recvBuf[d] = << >> => recvBuf'[d] = << >>)
    <3>1. CASE ReadTake(e, r)
      <4>1. \/ recvBuf' = recvBuf
            \/ \E x : recvBuf[e] # << >> /\ recvBuf' = [recvBuf EXCEPT ![e] = x]
        <5>1. Len(<< >>) = 0 /\ 1..0 = {}
          OBVIOUS
        <5>. QED  BY <3>1, <5>1 DEF ReadTake
      <4>. QED  BY <3>1, <4>1, TakeKeeps DEF TypeOK
    <3>2. CASE ~ReadTake(e, r)
      <4>1. UNCHANGED <<delivered, recvBuf>>
        BY <1>11, <3>2 DEF Read, ReadCall, ReadTimeout, ReadCheck, ReadWake
      <4>. QED  BY <4>1 DEF Got
    <3>. QED  BY <3>1, <3>2
  <2>4. CASE Goto(e, r, "eof")
    <3>1. state[e] \in {"RemoteClose", "Closed"} /\ recvBuf[e] = << >> /\ recvBuf' = recvBuf
      <4>1. pc'[e][r] = "eof"
        BY <2>2, <2>4, Moved
      <4>2. ReadCheck(e, r)
        <5>1. ASSUME NEW l, Goto(e, r, l) PROVE l = "eof"
          BY <2>2, <4>1, <5>1, Moved
        <5>. QED  BY <1>11, <5>1 DEF Read, ReadCall, ReadTimeout, ReadTake, ReadWake
      <4>3. \A l : Goto(e, r, l) => l = "eof"
        BY <2>2, <4>1, Moved
      <4>. QED  BY <4>2, <4>3 DEF ReadCheck
    <3>2. Told(e) /\ Complete(e)
      BY <1>1, <3>1 DEF Told, EndsWell
    <3>3. /\ \A d \in Sides : pc'[d]["writer"] = pc[d]["writer"] /\ pc'[d]["closer"] = pc[d]["closer"]
          /\ \A d \in Sides : d # e => \A q \in Readers[d] : pc'[d][q] = pc[d][q]
      BY <2>1, <2>2, Moved, TaskFacts
    <3>4. \A d \in Sides : Quiet(d) /\ Complete(d) /\ Peer(d) \in Sides /\ (Told(d)' <=> Told(d))
      BY <1>1, <2>1, PeerOf DEF EndsWell, Told
    <3>5. \A d \in Sides : Quiet(d)'
      BY <3>3, <3>4 DEF Quiet
    <3>6. Drained(e)' /\ recvBuf'[e] = << >>
      BY <2>1, <2>3, <3>1, <3>2, <3>3, <3>4 DEF Complete, Drained
    <3>7. Complete(e)'
      BY <3>6 DEF Complete
    <3>8. ASSUME NEW d \in Sides, d # e PROVE Complete(d)'
      BY <2>1, <2>3, <3>3, <3>4, <3>8, CompleteKept
    <3>. QED  BY <3>5, <3>7, <3>8 DEF EndsWell
  <2>5. CASE ~Goto(e, r, "eof")
    <3>1. \A d \in Sides : Told(d)' => Told(d)
      BY <1>3, <2>1
    <3>. QED  BY <1>1, <2>1, <2>2, <2>3, <2>5, <3>1, TaskEnds
  <2>. QED  BY <2>4, <2>5
<1>. QED  BY <1>4, <1>5, <1>6, <1>7, <1>8, <1>9, <1>10, <1>11 DEF Next

-----------------------------------------------------------------------------
(* What a stream shows whose users do not call Close during a Write *)

OrderlyInv == BytesInv /\ ~CloseRaces /\ Writing /\ NoDataAfterFin /\ EndsWell

(* It holds before anything was written or closed ... *)
LEMMA OrderlyInit == Init /\ ~CloseRaces => OrderlyInv
<1>. SUFFICES ASSUME Init, ~CloseRaces PROVE OrderlyInv
  OBVIOUS
<1>1. \A e \in Sides : /\ \A t \in Tasks : pc[e][t] = "idle"
                       /\ state[e] = "none" /\ wire[e] = << >>
  BY DEF Init
<1>2. Writing
  BY <1>1, TaskFacts DEF Writing
<1>3. NoDataAfterFin
  BY <1>1, EmptySeq DEF NoDataAfterFin
<1>4. EndsWell
  <2>1. ASSUME NEW e \in Sides PROVE Quiet(e) /\ Complete(e)
    BY <1>1, TaskFacts DEF Quiet, Complete, Told
  <2>. QED  BY <2>1 DEF EndsWell
<1>. QED  BY <1>2, <1>3, <1>4, BytesInvInit DEF OrderlyInv

(* ... and every step keeps it. *)
LEMMA OrderlyNext == OrderlyInv /\ [Next]_vars => OrderlyInv'
<1>. SUFFICES ASSUME OrderlyInv, [Next]_vars PROVE OrderlyInv'
  OBVIOUS
<1>1. /\ BytesInv' /\ TypeOK /\ OpenedFirst /\ FlowAccounts /\ Handshake /\ Bytes /\ ~CloseRaces
      /\ Writing /\ NoDataAfterFin /\ EndsWell
  BY BytesInvNext DEF OrderlyInv, BytesInv, HandshakeInv, FlowInv
<1>2. CASE Next
  <2>1. Writing'
    BY <1>1, <1>2, WritingStep
  <2>2. NoDataAfterFin'
    BY <1>1, <1>2, LastStep
  <2>3. EndsWell'
    BY <1>1, <1>2, EndsStep
  <2>. QED  BY <1>1, <2>1, <2>2, <2>3 DEF OrderlyInv
<1>3. CASE UNCHANGED vars
  <2>1. /\ state' = state /\ shutdownErr' = shutdownErr /\ wire' = wire /\ pc' = pc
        /\ recvBuf' = recvBuf /\ delivered' = delivered /\ sent' = sent
        /\ todo' = todo /\ wlen' = wlen
    BY <1>3 DEF vars, lifeVars, windowVars, bufVars, writeVars
  <2>2. \A e \in Sides : (Quiet(e)' <=> Quiet(e)) /\ (Complete(e)' <=> Complete(e))
    <3>1. \A e \in Sides : /\ Told(e)' <=> Told(e)
                           /\ Drained(e)' <=> Drained(e)
                           /\ Quiet(e)' <=> Quiet(e)
      BY <2>1 DEF Quiet, Drained, Told, Shut, Got
    <3>. QED  BY <2>1, <3>1 DEF Complete
  <2>3. Broken' <=> Broken
    BY <2>1 DEF Broken, Shut
  <2>4. Writing' /\ NoDataAfterFin'
    BY <1>1, <2>1 DEF Writing, NoDataAfterFin
  <2>5. EndsWell'
    BY <1>1, <2>2, <2>3 DEF EndsWell
  <2>. QED  BY <1>1, <2>4, <2>5 DEF OrderlyInv
<1>. QED  BY <1>2, <1>3

(* Unless Close is called during a Write, an end of file that Read reports while the
   sessions are up comes after every byte the peer wrote, and its Writes are over. *)
THEOREM EOFComplete == ~CloseRaces /\ Spec => []EOFIsComplete
<1>1. OrderlyInv => EOFIsComplete
  <2>. SUFFICES ASSUME OrderlyInv, ~Broken, NEW e \in Sides, NEW r \in Readers[e], pc[e][r] = "eof"
                PROVE  /\ Len(delivered[e]) = sent[Peer(e)]
                       /\ pc[Peer(e)]["writer"] \in {"idle", "start", "stopped"}
    BY DEF EOFIsComplete
  <2>1. Drained(e) /\ recvBuf[e] = << >> /\ Quiet(Peer(e)) /\ TypeOK
    BY PeerOf DEF OrderlyInv, EndsWell, Complete, BytesInv, HandshakeInv, FlowInv
  <2>2. Len(Got(e)) = Len(delivered[e])
    <3>1. Len(recvBuf[e]) = 0 /\ Len(delivered[e]) \in Nat
      BY <2>1, LenProperties DEF TypeOK
    <3>2. Len(Got(e)) = Len(delivered[e]) + Len(recvBuf[e])
      BY <2>1, GotType
    <3>. QED  BY <3>1, <3>2
  <2>. QED  BY <2>1, <2>2 DEF Drained, Quiet
<1>. QED  BY <1>1, OrderlyInit, OrderlyNext, PTL DEF Spec

(* Unless Close is called during a Write, no data follows a FIN: what spec.md promises
   of a half-close can only fail when one is. *)
THEOREM FinIsLast == ~CloseRaces /\ Spec => []NoDataAfterFin
<1>1. OrderlyInv => NoDataAfterFin
  BY DEF OrderlyInv
<1>. QED  BY <1>1, OrderlyInit, OrderlyNext, PTL DEF Spec

-----------------------------------------------------------------------------
(* The pipe *)

(* A session that has ended stays so. *)
LEMMA BrokenStays ==
    ASSUME TypeOK, Next, Broken
    PROVE  Broken'
<1>1. PICK d \in Sides : shutdownErr[d] # "nil"
  BY DEF Broken, Shut
<1>2. CASE shutdownErr' = shutdownErr
  BY <1>1, <1>2 DEF Broken, Shut
<1>3. CASE shutdownErr' # shutdownErr
  BY <1>3, UpStep
<1>. QED  BY <1>2, <1>3

(* sendFlags leaves a stream that is closing or over as it was. *)
LEMMA FlaggedStates ==
    ASSUME TypeOK, NEW e \in Sides, state' = [state EXCEPT ![e] = Flagged(@)], NEW d \in Sides
    PROVE  \A x \in {"LocalClose", "Closed", "Reset"} : state'[d] = x <=> state[d] = x
<1>1. state'[d] = state[d] \/ (d = e /\ state'[d] = Flagged(state[d]))
  BY DEF TypeOK
<1>2. \A x \in {"LocalClose", "Closed", "Reset"} : Flagged(state[d]) = x <=> state[d] = x
  BY FlaggedFacts
<1>. QED  BY <1>1, <1>2

(* While the sessions are up, a refused stream stays refused: its RST finds it. *)
LEMMA RejectedStays ==
    ASSUME TypeOK, OpenedFirst, FlowAccounts, Handshake, Next, ~Broken', Rejected
    PROVE  Rejected'
<1>. USE DEF lifeVars, windowVars, bufVars
<1>1. ~Broken /\ \A d \in Sides : ~Shut(d)
  BY UpStep DEF Broken
<1>2. state["opener"] = "Reset" \/ Has(wire["acceptor"], "RST")
  BY RejectedHas
<1>3. SUFFICES state'["opener"] = "Reset" \/ Has(wire'["acceptor"], "RST")
  BY DEF Rejected, Has
<1>4. CASE state' = state /\ wire' = wire
  BY <1>2, <1>4
<1>5. ASSUME NEW e \in Sides, NEW f \in Frames, wire' = Sent(wire, e, f),
             state' = state \/ state' = [state EXCEPT ![e] = Flagged(@)]
      PROVE  Rejected'
  <2>1. Has(wire["acceptor"], "RST") => Has(wire'["acceptor"], "RST")
    BY <1>5, SentHas, Ends
  <2>2. state["opener"] = "Reset" => state'["opener"] = "Reset"
    BY <1>5, FlaggedStates, Ends
  <2>. QED  BY <1>2, <2>1, <2>2 DEF Rejected, Has
<1>6. CASE Setup
  <2>1. CASE OpenRegister
    <3>1. state["opener"] = "none" /\ wire["acceptor"] = << >>
      BY <2>1 DEF OpenRegister, Handshake, Opening, BeforeSyn
    <3>. QED  BY <1>2, <3>1, EmptyHas
  <2>2. CASE OpenCheck \/ AcceptStream \/ AcceptShutdown
    BY <1>4, <2>2 DEF OpenCheck, AcceptStream, AcceptShutdown
  <2>. QED  BY <1>6, <2>1, <2>2 DEF Setup
<1>7. ASSUME NEW e \in Sides, Write(e) \/ WriteCall(e) \/ WriteTimeout(e)
      PROVE  Rejected'
  <2>1. CASE WriteSend(e)
    <3>. DEFINE f == [type |-> "data", flag |-> SendFlag(state[e]), from |-> sent[e], len |-> wlen[e]]
    <3>1. SendFlag(state[e]) \in {"none", "ACK"}
      <4>1. state[e] # "Init"
        BY <2>1 DEF OpenedFirst, Ready, WriteSend
      <4>. QED  BY <4>1, FlaggedFacts
    <3>2. f \in Frames /\ wire' = Sent(wire, e, f)
      BY <2>1, <3>1 DEF TypeOK, Frames, Flags, WriteSend
    <3>3. state' = [state EXCEPT ![e] = Flagged(@)]
      BY <2>1 DEF WriteSend
    <3>. HIDE DEF f
    <3>. QED  BY <1>5, <3>2, <3>3
  <2>2. CASE ~WriteSend(e)
    <3>1. state' = state /\ wire' = wire
      BY <1>7, <2>2 DEF Write, WriteCheck, WriteSent, WriteFailed, WriteWake, WriteCall, WriteTimeout
    <3>. QED  BY <1>2, <3>1 DEF Rejected, Has
  <2>. QED  BY <2>1, <2>2
<1>8. ASSUME NEW e \in Sides, CloseCall(e) \/ LoadClose(e)
      PROVE  Rejected'
  <2>1. wire' = wire /\ (state[e] = "Reset" => state' = state)
    BY <1>8 DEF CloseCall, LoadClose, Unclosed
  <2>2. \A d \in Sides : d # e => state'[d] = state[d]
    BY <1>8 DEF CloseCall, LoadClose, TypeOK
  <2>. QED  BY <1>2, <2>1, <2>2, Ends DEF Rejected, Has
<1>9. ASSUME NEW e \in Sides, Recv(e)
      PROVE  Rejected'
  <2>. DEFINE p == Peer(e)
              frame == Head(wire[p])
  <2>0. RecvSYN(e) \/ RecvReject(e) \/ RecvMissing(e) \/ RecvWindow(e) \/ RecvData(e)
    BY <1>9, UpStep DEF Recv
  <2>1. wire[p] # << >>
    BY <2>0 DEF RecvSYN, RecvReject, RecvMissing, RecvWindow, RecvData
  <2>2. /\ Handled(e) \in [Sides -> Seq(Frames)] /\ Handled(e)[e] = wire[e] /\ p \in Sides /\ p # e
        /\ \A flag : Has(wire[p], flag) => frame.flag = flag \/ Has(Handled(e)[p], flag)
    BY <2>1, HandledFacts
  <2>3. CASE e = "acceptor"
    <3>1. Has(wire["acceptor"], "RST") => Has(wire'["acceptor"], "RST")
      <4>1. CASE RecvReject(e)
        <5>. DEFINE f == [type |-> "window", flag |-> "RST", from |-> Announced(e), len |-> 0]
        <5>1. wire' = Sent(Handled(e), e, f)
          BY <4>1 DEF RecvReject
        <5>2. f \in Frames
          BY AnnouncedType DEF FlowAccounts, TypeOK, Frames, Flags
        <5>. HIDE DEF f
        <5>3. wire'[e] = wire[e] \/ wire'[e] = Append(wire[e], f)
          BY <2>2, <5>1 DEF Sent
        <5>4. wire[e] \in Seq(Frames)
          BY DEF TypeOK
        <5>. QED  BY <2>3, <5>2, <5>3, <5>4, AppendAdds
      <4>2. CASE ~RecvReject(e)
        <5>1. wire' = Handled(e)
          BY <2>0, <4>2 DEF RecvSYN, RecvMissing, RecvWindow, RecvData
        <5>. QED  BY <2>2, <2>3, <5>1
      <4>. QED  BY <4>1, <4>2
    <3>2. state'["opener"] = state["opener"]
      <4>1. state' = state \/ \E x : state' = [state EXCEPT ![e] = x]
        BY <2>0 DEF RecvSYN, RecvReject, RecvMissing, RecvWindow, RecvData, ProcessFlags
      <4>. QED  BY <2>3, <4>1, Ends DEF TypeOK
    <3>. QED  BY <1>2, <3>1, <3>2 DEF Rejected, Has
  <2>4. CASE e = "opener"
    <3>1. ~RecvSYN(e)
      <4>1. Has(wire[p], frame.flag)
        BY <2>1, HandledFacts
      <4>2. frame.flag # "SYN"
        BY <2>4, <4>1, Ends DEF Handshake, SynOnce
      <4>. QED  BY <4>2 DEF RecvSYN
    <3>2. CASE Has(wire["acceptor"], "RST")
      <4>1. registered[e]
        BY <1>1, <2>4, <3>2 DEF Handshake, RstOnce
      <4>2. /\ ~Refused(e, frame) /\ ProcessFlags(e, frame.flag) /\ wire' = Handled(e)
        BY <2>0, <3>1, <4>1 DEF RecvReject, RecvMissing, RecvWindow, RecvData
      <4>3. frame.flag = "RST" => state'[e] = "Reset"
        BY <2>1, <4>1, <4>2, ProcessedFacts
      <4>4. frame.flag = "RST" \/ Has(wire'[p], "RST")
        BY <2>2, <2>4, <3>2, <4>2, Ends
      <4>. QED  BY <2>4, <4>3, <4>4, Ends DEF Rejected, Has
    <3>3. CASE state["opener"] = "Reset"
      <4>1. ~registered[e]
        BY <1>1, <2>4, <3>3, Ends DEF Handshake, Registered
      <4>2. state' = state
        BY <2>0, <3>1, <4>1 DEF RecvReject, RecvMissing, RecvWindow, RecvData
      <4>. QED  BY <3>3, <4>2 DEF Rejected
    <3>. QED  BY <1>2, <3>2, <3>3
  <2>. QED  BY <2>3, <2>4, Ends
<1>10. ASSUME NEW e \in Sides, SessionClose(e) \/ SendFail(e)
      PROVE  Rejected'
  BY <1>10, UpStep
<1>11. ASSUME NEW e \in Sides, NEW t \in CtlTasks(e), Control(e, t)
      PROVE  Rejected'
  <2>1. CASE SendControl(e, t)
    <3>. DEFINE f == [type |-> "window", flag |-> ctl[e].flag, from |-> Announced(e), len |-> ctl[e].delta]
    <3>1. f \in Frames /\ wire' = Sent(wire, e, f) /\ state' = state
      BY <2>1, AnnouncedType DEF FlowAccounts, TypeOK, Frames, SendControl
    <3>. HIDE DEF f
    <3>. QED  BY <1>5, <3>1
  <2>2. CASE ~SendControl(e, t)
    <3>1. wire' = wire /\ (state' = state \/ state' = [state EXCEPT ![e] = Flagged(@)])
      BY <1>11, <2>2 DEF Control, LoadUpdate, ControlSent, ControlFailed
    <3>2. state["opener"] = "Reset" => state'["opener"] = "Reset"
      BY <3>1, FlaggedStates, Ends
    <3>. QED  BY <1>2, <3>1, <3>2 DEF Rejected, Has
  <2>. QED  BY <2>1, <2>2
<1>12. ASSUME NEW e \in Sides, NEW r \in Readers[e],
             Read(e, r) \/ ReadCall(e, r) \/ ReadTimeout(e, r)
      PROVE  Rejected'
  <2>1. state' = state /\ wire' = wire
    BY <1>12 DEF Read, ReadCall, ReadTimeout, ReadCheck, ReadTake, ReadWake
  <2>. QED  BY <1>2, <2>1 DEF Rejected, Has
<1>. QED  BY <1>6, <1>7, <1>8, <1>9, <1>10, <1>11, <1>12 DEF Next, Rejected, Has

(* A closed end stays closed as long as nothing breaks the stream. *)
LEMMA ClosedStays ==
    ASSUME TypeOK, OpenedFirst, FlowAccounts, Handshake, Next, ~Broken', ~Rejected',
           NEW e \in Sides, state[e] \in {"LocalClose", "Closed"}
    PROVE  state'[e] \in {"LocalClose", "Closed"}
<1>. USE DEF lifeVars, windowVars, bufVars
<1>1. CASE state'[e] = state[e]
  BY <1>1
<1>2. CASE state' = state
  BY <1>2
<1>3. ASSUME NEW d \in Sides, state' = [state EXCEPT ![d] = Flagged(@)]
      PROVE  state'[e] \in {"LocalClose", "Closed"}
  BY <1>3, FlaggedStates
<1>4. CASE Setup
  <2>1. CASE OpenRegister
    <3>1. state["opener"] = "none"
      BY <2>1 DEF OpenRegister, Handshake, Opening
    <3>2. state'["acceptor"] = state["acceptor"]
      BY <2>1, Ends DEF OpenRegister, TypeOK
    <3>. QED  BY <3>1, <3>2, Ends
  <2>2. CASE OpenCheck \/ AcceptStream \/ AcceptShutdown
    BY <1>2, <2>2 DEF OpenCheck, AcceptStream, AcceptShutdown
  <2>. QED  BY <1>4, <2>1, <2>2 DEF Setup
<1>5. ASSUME NEW d \in Sides, Write(d) \/ WriteCall(d) \/ WriteTimeout(d)
      PROVE  state'[e] \in {"LocalClose", "Closed"}
  <2>1. state' = state \/ state' = [state EXCEPT ![d] = Flagged(@)]
    BY <1>5 DEF Write, WriteCheck, WriteSend, WriteSent, WriteFailed, WriteWake, WriteCall, WriteTimeout
  <2>. QED  BY <1>2, <1>3, <2>1
<1>6. ASSUME NEW d \in Sides, CloseCall(d) \/ LoadClose(d)
      PROVE  state'[e] \in {"LocalClose", "Closed"}
  <2>1. state' = state \/ \E x \in {"LocalClose", "Closed"} : state' = [state EXCEPT ![d] = x]
    BY <1>6 DEF CloseCall, LoadClose
  <2>. QED  BY <2>1 DEF TypeOK
<1>7. ASSUME NEW d \in Sides, Recv(d)
      PROVE  state'[e] \in {"LocalClose", "Closed"}
  <2>. DEFINE frame == Head(wire[Peer(d)])
  <2>0. RecvSYN(d) \/ RecvReject(d) \/ RecvMissing(d) \/ RecvWindow(d) \/ RecvData(d)
    BY <1>7, UpStep DEF Recv
  <2>1. CASE RecvReject(d) \/ RecvMissing(d)
    BY <1>2, <2>1 DEF RecvReject, RecvMissing
  <2>2. CASE RecvSYN(d)
    <3>1. frame.flag = "SYN" /\ wire[Peer(d)] # << >> /\ state' = [state EXCEPT ![d] = "SYNReceived"]
      BY <2>2 DEF RecvSYN
    <3>2. Has(wire[Peer(d)], "SYN")
      BY <3>1, HandledFacts
    <3>3. d = "acceptor" /\ state["acceptor"] = "none"
      BY <3>2, Ends DEF Handshake, SynOnce
    <3>. QED  BY <3>1, <3>3, Ends DEF TypeOK
  <2>3. CASE RecvWindow(d) \/ RecvData(d)
    <3>1. /\ wire[Peer(d)] # << >> /\ registered[d] /\ ~Refused(d, frame) /\ ProcessFlags(d, frame.flag)
      BY <2>3 DEF RecvWindow, RecvData
    <3>2. /\ \A c \in Sides : c # d => state'[c] = state[c]
          /\ \/ state'[d] = state[d] \/ (state[d] = "SYNSent" /\ state'[d] = "Established")
             \/ state[d] \in Unclosed
             \/ state'[d] = "Closed"
             \/ d = "opener" /\ state'[d] = "Reset"
      BY <3>1, ProcessedFacts
    <3>3. state'["opener"] # "Reset"
      BY DEF Rejected
    <3>. QED  BY <3>2, <3>3 DEF Unclosed
  <2>. QED  BY <2>0, <2>1, <2>2, <2>3
<1>8. ASSUME NEW d \in Sides, SessionClose(d) \/ SendFail(d)
      PROVE  state'[e] \in {"LocalClose", "Closed"}
  BY <1>8, UpStep
<1>9. ASSUME NEW d \in Sides, NEW t \in CtlTasks(d), Control(d, t)
      PROVE  state'[e] \in {"LocalClose", "Closed"}
  <2>1. state' = state \/ state' = [state EXCEPT ![d] = Flagged(@)]
    BY <1>9 DEF Control, LoadUpdate, SendControl, ControlSent, ControlFailed
  <2>. QED  BY <1>2, <1>3, <2>1
<1>10. ASSUME NEW d \in Sides, NEW r \in Readers[d],
             Read(d, r) \/ ReadCall(d, r) \/ ReadTimeout(d, r)
      PROVE  state'[e] \in {"LocalClose", "Closed"}
  BY <1>2, <1>10 DEF Read, ReadCall, ReadTimeout, ReadCheck, ReadTake, ReadWake
<1>. QED  BY <1>4, <1>5, <1>6, <1>7, <1>8, <1>9, <1>10 DEF Next

(* A pipe goes from open to finished to broken, and never back. *)
LEMMA StatusNext ==
    ASSUME TypeOK, OpenedFirst, FlowAccounts, Handshake, Next, NEW e \in Sides
    PROVE  /\ PipeStatus(e) = "broken" => PipeStatus(e)' = "broken"
           /\ PipeStatus(e) = "finished" => PipeStatus(e)' \in {"finished", "broken"}
           /\ PipeStatus(e)' \in {"open", "finished", "broken"}
<1>1. ASSUME Broken \/ Rejected PROVE Broken' \/ Rejected'
  BY <1>1, BrokenStays, RejectedStays
<1>2. ASSUME ~Broken', ~Rejected', state[e] \in {"LocalClose", "Closed"}
      PROVE  state'[e] \in {"LocalClose", "Closed"}
  BY <1>2, ClosedStays
<1>. QED  BY <1>1, <1>2 DEF PipeStatus

(* The status is in these parts of the state. *)
LEMMA StatusKept ==
    ASSUME NEW e \in Sides, shutdownErr' = shutdownErr,
           \A d \in Sides : \A x \in {"LocalClose", "Closed", "Reset"} : state'[d] = x <=> state[d] = x,
           Has(wire'["acceptor"], "RST") <=> Has(wire["acceptor"], "RST")
    PROVE  PipeStatus(e)' = PipeStatus(e)
<1>1. Broken' <=> Broken
  BY DEF Broken, Shut
<1>2. Rejected' <=> Rejected
  BY Ends DEF Rejected, Has
<1>. QED  BY <1>1, <1>2 DEF PipeStatus

(* One task of e moved, from a place where it was told no end. *)
LEMMA EndedMoves ==
    ASSUME TypeOK, NEW e \in Sides, NEW t \in Tasks, NEW l, Goto(e, t, l), NEW p \in Sides,
           pc[e][t] \notin {"eof", "reset", "failed"}
    PROVE  Ended(p)' <=> Ended(p) \/ (e = p /\ t \in Readers[p] /\ l \in {"eof", "reset", "failed"})
<1>1. /\ pc'[e][t] = l
      /\ \A d \in Sides : \A u \in Tasks : d # e \/ u # t => pc'[d][u] = pc[d][u]
  BY Moved
<1>2. \A r \in Readers[p] : r \in Tasks
  BY TaskFacts
<1>. QED  BY <1>1, <1>2 DEF Ended


(* What a step may do to the direction from e. *)
PipeMoves(e) ==
    /\ sent'[e] = sent[e] /\ delivered'[Peer(e)] = delivered[Peer(e)]
    /\ Ended(Peer(e))' <=> Ended(Peer(e))
    /\ \/ PipeStatus(e)' = PipeStatus(e)
       \/ PipeStatus(e) = "open" /\ PipeStatus(e)' = "finished"
       \/ PipeStatus(e) # "broken" /\ PipeStatus(e)' = "broken"
PipeWrites(e) ==
    /\ PipeStatus(e) # "finished" /\ PipeStatus(e)' = PipeStatus(e)
    /\ sent'[e] \in Nat /\ sent'[e] > sent[e] /\ delivered'[Peer(e)] = delivered[Peer(e)]
    /\ Ended(Peer(e))' <=> Ended(Peer(e))
PipeReads(e) ==
    LET old == delivered[Peer(e)]
        new == delivered'[Peer(e)]
    IN  /\ Len(new) \in (Len(old) + 1)..sent[e]
        /\ new = [i \in 1..Len(new) |-> IF i <= Len(old) THEN old[i] ELSE i]
        /\ sent'[e] = sent[e] /\ PipeStatus(e)' = PipeStatus(e)
        /\ Ended(Peer(e))' <=> Ended(Peer(e))
PipeEnds(e) ==
    /\ PipeStatus(e) = "broken" \/ (PipeStatus(e) = "finished" /\ Len(delivered[Peer(e)]) = sent[e])
    /\ Ended(Peer(e))'
    /\ sent'[e] = sent[e] /\ delivered'[Peer(e)] = delivered[Peer(e)]
    /\ PipeStatus(e)' = PipeStatus(e)

(* Whoever is told of the end by its state was told so by the writer's Close. *)
LEMMA EndIsReal ==
    ASSUME OrderlyInv, ~Broken, ~Rejected, NEW e \in Sides,
           Told(Peer(e)), recvBuf[Peer(e)] = << >>
    PROVE  PipeStatus(e) = "finished" /\ Len(delivered[Peer(e)]) = sent[e]
<1>. DEFINE p == Peer(e)
<1>1. p \in Sides /\ Peer(p) = e /\ TypeOK /\ Handshake /\ ~Shut(e)
  BY PeerOf DEF OrderlyInv, BytesInv, HandshakeInv, FlowInv, Broken
<1>2. Complete(p)
  BY <1>1 DEF OrderlyInv, EndsWell
<1>3. Drained(p)
  BY <1>2 DEF Complete
<1>4. pc[e]["closer"] # "idle" /\ Len(Got(p)) = sent[e]
  BY <1>1, <1>3 DEF Drained
<1>5. state[e] \in {"LocalClose", "Closed", "Reset"}
  BY <1>1, <1>4 DEF Handshake, ClosedByClose
<1>6. state[e] # "Reset"
  BY <1>1, Ends DEF Rejected, Handshake, RstOnce
<1>7. Len(delivered[p]) = sent[e]
  <2>1. Len(recvBuf[p]) = 0 /\ Len(delivered[p]) \in Nat
    BY <1>1, LenProperties DEF TypeOK
  <2>2. Len(Got(p)) = Len(delivered[p]) + Len(recvBuf[p])
    BY <1>1, GotType
  <2>. QED  BY <1>4, <2>1, <2>2
<1>. QED  BY <1>5, <1>6, <1>7 DEF PipeStatus

(* ReadTake returns the next bytes, or none. *)
LEMMA TakeReads ==
    ASSUME BytesInv, BytesInv', NEW e \in Sides, NEW r \in Readers[Peer(e)], ReadTake(Peer(e), r),
           PipeStatus(e)' = PipeStatus(e), Ended(Peer(e))' <=> Ended(Peer(e))
    PROVE  PipeReads(e) \/ PipeMoves(e)
<1>. DEFINE p == Peer(e)
            old == delivered[p]
            new == delivered'[p]
<1>1. /\ p \in Sides /\ Peer(p) = e /\ sent' = sent /\ TypeOK /\ TypeOK' /\ Bytes'
      /\ old \in Seq(Nat) /\ new \in Seq(Nat) /\ Len(old) \in Nat /\ Len(new) \in Nat
      /\ recvBuf'[p] \in Seq(Nat) /\ recvBuf[p] \in Seq(Nat) /\ sent[e] \in Nat
  <2>1. TypeOK /\ TypeOK' /\ Bytes'
    BY DEF BytesInv, HandshakeInv, FlowInv
  <2>. QED  BY <2>1, PeerOf, LenProperties DEF ReadTake, windowVars, TypeOK
<1>2. CASE UNCHANGED bufVars
  BY <1>1, <1>2 DEF bufVars, PipeMoves
<1>3. ASSUME NEW n \in 1..Len(recvBuf[p]),
             delivered' = [delivered EXCEPT ![p] = @ \o SubSeq(recvBuf[p], 1, n)]
      PROVE  PipeReads(e)
  <2>. DEFINE some == SubSeq(recvBuf[p], 1, n)
  <2>1. some \in Seq(Nat) /\ Len(some) = n /\ n \in Nat /\ n >= 1
    BY <1>1, <1>3, SubSeqProperties, LenProperties
  <2>2. new = old \o some
    BY <1>1, <1>3 DEF TypeOK
  <2>. HIDE DEF some, old, new
  <2>3. Len(new) = Len(old) + n /\ \A i \in 1..Len(old) : new[i] = old[i]
    <3>1. old \in Seq(Nat) /\ some \in Seq(Nat) /\ Len(old) \in Nat
      BY <1>1, <2>1
    <3>2. /\ Len(old \o some) = Len(old) + Len(some)
          /\ \A i \in 1..(Len(old) + Len(some)) : (old \o some)[i] = IF i <= Len(old) THEN old[i] ELSE some[i - Len(old)]
      BY <3>1, ConcatProperties
    <3>3. \A i \in 1..Len(old) : i \in 1..(Len(old) + Len(some)) /\ i <= Len(old)
      BY <2>1, <3>1
    <3>. QED  BY <2>1, <2>2, <3>2, <3>3
  <2>. DEFINE left == recvBuf'[p]
              got == new \o left
  <2>4. Len(got) <= sent[e] /\ \A i \in 1..Len(got) : got[i] = i
    <3>1. Arrives(p)'
      BY <1>1 DEF Bytes
    <3>2. sent'[Peer(p)] = sent[e]
      BY <1>1
    <3>. QED  BY <3>1, <3>2 DEF Arrives, Got, new
  <2>. HIDE DEF left
  <2>5. /\ Len(got) = Len(new) + Len(left) /\ Len(left) \in Nat
        /\ \A i \in 1..Len(new) : got[i] = new[i]
    <3>1. left \in Seq(Nat)
      BY <1>1 DEF left
    <3>. QED  BY <1>1, <3>1, ConcatProperties, LenProperties
  <2>. HIDE DEF got
  <2>6. \A i \in 1..Len(new) : new[i] = i
    <3>1. \A i \in 1..Len(new) : i \in 1..Len(got)
      BY <1>1, <2>5
    <3>. QED  BY <2>4, <2>5, <3>1
  <2>7. Len(new) \in (Len(old) + 1)..sent[e]
    BY SMTT(30), <1>1, <2>1, <2>3, <2>4, <2>5
  <2>8. new = [i \in 1..Len(new) |-> IF i <= Len(old) THEN old[i] ELSE i]
    <3>1. new = [i \in 1..Len(new) |-> new[i]]
      BY <1>1
    <3>2. \A i \in 1..Len(new) : new[i] = IF i <= Len(old) THEN old[i] ELSE i
      BY SMTT(30), <1>1, <2>3, <2>6
    <3>. QED  BY <3>1, <3>2
  <2>. QED  BY <1>1, <2>7, <2>8 DEF PipeReads, old, new
<1>. QED  BY <1>2, <1>3 DEF ReadTake


(* Every step of the stream is a step of the pipe from e, or none of its business. *)
LEMMA PipeStep ==
    ASSUME OrderlyInv, OrderlyInv', Next, NEW e \in Sides
    PROVE  PipeWrites(e) \/ PipeReads(e) \/ PipeEnds(e) \/ PipeMoves(e)
<1>. USE DEF lifeVars, windowVars, bufVars
<1>. DEFINE p == Peer(e)
            over == {"eof", "reset", "failed"}
<1>1. /\ TypeOK /\ OpenedFirst /\ FlowAccounts /\ Handshake /\ BytesInv /\ BytesInv' /\ Writing
      /\ EndsWell /\ p \in Sides /\ p # e /\ Peer(p) = e
  BY PeerOf DEF OrderlyInv, BytesInv, HandshakeInv, FlowInv
<1>2. ASSUME sent'[e] = sent[e], delivered'[p] = delivered[p], Ended(p)' <=> Ended(p)
      PROVE  PipeMoves(e)
  <2>1. /\ PipeStatus(e) = "broken" => PipeStatus(e)' = "broken"
        /\ PipeStatus(e) = "finished" => PipeStatus(e)' \in {"finished", "broken"}
        /\ PipeStatus(e)' \in {"open", "finished", "broken"}
    BY <1>1, StatusNext
  <2>2. PipeStatus(e) \in {"open", "finished", "broken"}
    BY DEF PipeStatus
  <2>. QED  BY <1>2, <2>1, <2>2 DEF PipeMoves
<1>3. ASSUME NEW d \in Sides, NEW t \in Tasks, NEW l, Goto(d, t, l), pc[d][t] \notin over,
             d # p \/ t \notin Readers[p] \/ l \notin over,
             sent'[e] = sent[e], delivered'[p] = delivered[p]
      PROVE  PipeMoves(e)
  BY <1>1, <1>2, <1>3, EndedMoves
<1>4. ASSUME pc' = pc, sent' = sent, delivered' = delivered
      PROVE  PipeMoves(e)
  <2>1. Ended(p)' <=> Ended(p)
    BY <1>4 DEF Ended
  <2>. QED  BY <1>2, <1>4, <2>1
<1>5. ASSUME NEW t \in Tasks, NEW l, Goto(p, t, l), t \in Readers[p], l \in over, pc[p][t] \notin over,
             UNCHANGED <<state, shutdownErr, wire, sent, delivered>>,
             PipeStatus(e) = "broken" \/ (PipeStatus(e) = "finished" /\ Len(delivered[p]) = sent[e])
      PROVE  PipeEnds(e)
  <2>1. Ended(p)'
    BY <1>1, <1>5, EndedMoves
  <2>2. PipeStatus(e)' = PipeStatus(e)
    BY <1>5, StatusKept
  <2>. QED  BY <1>5, <2>1, <2>2 DEF PipeEnds
<1>6. CASE Setup
  <2>1. UNCHANGED <<sent, delivered>>
    BY <1>6 DEF Setup, OpenCheck, OpenRegister, AcceptStream, AcceptShutdown
  <2>2. \E d \in Sides : \E l : Goto(d, "setup", l) /\ pc[d]["setup"] \in {"idle", "register"}
    BY <1>6, Ends DEF Setup, OpenCheck, OpenRegister, AcceptStream, AcceptShutdown
  <2>3. "setup" \in Tasks /\ "setup" \notin Readers[p]
    BY <1>1, TaskFacts, ReaderAssumption
  <2>. QED  BY <1>3, <2>1, <2>2, <2>3
<1>7. ASSUME NEW d \in Sides, Write(d) \/ WriteCall(d) \/ WriteTimeout(d)
      PROVE  PipeWrites(e) \/ PipeMoves(e)
  <2>0. "writer" \in Tasks /\ "writer" \notin Readers[p]
    BY <1>1, TaskFacts, ReaderAssumption
  <2>1. CASE WriteSend(d)
    <3>. DEFINE f == [type |-> "data", flag |-> SendFlag(state[d]), from |-> sent[d], len |-> wlen[d]]
    <3>1. /\ pc[d]["writer"] = "send" /\ Goto(d, "writer", "flush") /\ delivered' = delivered
          /\ sent' = [sent EXCEPT ![d] = @ + wlen[d]] /\ shutdownErr' = shutdownErr /\ ~Shut(d)
          /\ state' = [state EXCEPT ![d] = Flagged(@)]
      BY <2>1 DEF WriteSend
    <3>2. CASE d # e
      <4>1. sent'[e] = sent[e]
        BY <3>1, <3>2 DEF TypeOK
      <4>. QED  BY <1>3, <2>0, <3>1, <4>1
    <3>3. CASE d = e
      <4>1. SendFlag(state[d]) \in {"none", "ACK"}
        <5>1. state[d] # "Init"
          BY <1>1, <2>1 DEF OpenedFirst, Ready, WriteSend
        <5>. QED  BY <5>1, FlaggedFacts
      <4>2. f \in Frames /\ wire' = Sent(wire, d, f)
        BY <1>1, <2>1, <4>1 DEF TypeOK, Frames, Flags, WriteSend
      <4>3. f.flag # "RST"
        BY <4>1
      <4>. HIDE DEF f
      <4>4. Has(wire'["acceptor"], "RST") <=> Has(wire["acceptor"], "RST")
        BY <1>1, <4>2, <4>3, SentHas, Ends
      <4>5. PipeStatus(e)' = PipeStatus(e)
        BY <1>1, <3>1, <4>4, FlaggedStates, StatusKept
      <4>6. PipeStatus(e) # "finished"
        <5>1. SUFFICES ASSUME ~Broken, state[e] \in {"LocalClose", "Closed"} PROVE FALSE
          BY DEF PipeStatus
        <5>2. pc[e]["closer"] # "idle"
          BY <1>1, <3>1, <3>3, <5>1 DEF Handshake, ClosedByClose
        <5>3. Quiet(e)
          BY <1>1, <5>1 DEF EndsWell
        <5>. QED  BY <3>1, <3>3, <5>2, <5>3 DEF Quiet
      <4>7. sent'[e] \in Nat /\ sent'[e] > sent[e]
        <5>1. wlen[e] > 0 /\ wlen[e] \in Nat /\ sent[e] \in Nat /\ sent'[e] = sent[e] + wlen[e]
          BY <1>1, <3>1, <3>3 DEF Writing, TypeOK
        <5>. QED  BY <5>1
      <4>8. Ended(p)' <=> Ended(p)
        BY <1>1, <2>0, <3>1, EndedMoves
      <4>. QED  BY <3>1, <4>5, <4>6, <4>7, <4>8 DEF PipeWrites
    <3>. QED  BY <3>2, <3>3
  <2>2. CASE ~WriteSend(d)
    <3>1. /\ UNCHANGED <<sent, delivered>>
          /\ \E l : Goto(d, "writer", l) /\ pc[d]["writer"] \notin over
      BY <1>7, <2>2 DEF Write, WriteCheck, WriteSent, WriteFailed, WriteWake, WriteCall, WriteTimeout
    <3>. QED  BY <1>3, <2>0, <3>1
  <2>. QED  BY <2>1, <2>2
<1>8. ASSUME NEW d \in Sides, CloseCall(d) \/ LoadClose(d)
      PROVE  PipeMoves(e)
  <2>1. UNCHANGED <<sent, delivered>> /\ \E l : Goto(d, "closer", l) /\ pc[d]["closer"] \notin over
    BY <1>8 DEF CloseCall, LoadClose
  <2>2. "closer" \in Tasks /\ "closer" \notin Readers[p]
    BY <1>1, TaskFacts, ReaderAssumption
  <2>. QED  BY <1>3, <2>1, <2>2
<1>9. ASSUME NEW d \in Sides, Recv(d) \/ SessionClose(d) \/ SendFail(d)
      PROVE  PipeMoves(e)
  <2>1. pc' = pc /\ sent' = sent /\ delivered' = delivered
    BY <1>9 DEF Recv, RecvSYN, RecvReject, RecvMissing, RecvWindow, RecvData, RecvRefuse,
                RecvShort, RecvEOF, SessionClose, SendFail, streamRest
  <2>. QED  BY <1>4, <2>1
<1>10. ASSUME NEW d \in Sides, NEW t \in CtlTasks(d), Control(d, t)
      PROVE  PipeEnds(e) \/ PipeMoves(e)
  <2>1. t \in Tasks /\ UNCHANGED <<sent, delivered>> /\ pc[d][t] \notin over
    BY <1>10, NotWriter DEF Control, LoadUpdate, SendControl, ControlSent, ControlFailed
  <2>2. CASE ControlFailed(d, t)
    <3>1. /\ Shut(d) /\ Goto(d, t, Failed(t))
          /\ UNCHANGED <<state, shutdownErr, wire>>
      BY <2>2 DEF ControlFailed
    <3>2. PipeStatus(e) = "broken"
      BY <3>1 DEF PipeStatus, Broken
    <3>3. CASE d = p /\ t \in Readers[p]
      <4>1. Failed(t) \in over
        BY <1>1, <3>3, ReaderAssumption DEF Failed
      <4>. QED  BY <1>5, <2>1, <3>1, <3>2, <3>3, <4>1
    <3>4. CASE ~(d = p /\ t \in Readers[p])
      BY <1>3, <2>1, <3>1, <3>4
    <3>. QED  BY <3>3, <3>4
  <2>3. CASE ~ControlFailed(d, t)
    <3>1. \E l : Goto(d, t, l) /\ l \notin over
      BY <1>10, <2>3 DEF Control, LoadUpdate, SendControl, ControlSent, After
    <3>. QED  BY <1>3, <2>1, <3>1
  <2>. QED  BY <2>2, <2>3
<1>11. ASSUME NEW d \in Sides, NEW r \in Readers[d],
             Read(d, r) \/ ReadCall(d, r) \/ ReadTimeout(d, r)
      PROVE  PipeReads(e) \/ PipeEnds(e) \/ PipeMoves(e)
  <2>1. /\ r \in Tasks /\ pc[d][r] \notin over
        /\ UNCHANGED <<state, shutdownErr, wire, sent>>
    BY <1>11, TaskFacts DEF Read, ReadCall, ReadTimeout, ReadCheck, ReadTake, ReadWake
  <2>2. PipeStatus(e)' = PipeStatus(e)
    BY <2>1, StatusKept
  <2>3. CASE ReadTake(d, r)
    <3>1. \E l : Goto(d, r, l) /\ l \notin over
      BY <2>3 DEF ReadTake
    <3>2. Ended(p)' <=> Ended(p)
      BY <1>1, <2>1, <3>1, EndedMoves
    <3>3. CASE d = p
      BY <1>1, <2>2, <2>3, <3>2, <3>3, TakeReads
    <3>4. CASE d # p
      <4>1. delivered'[p] = delivered[p]
        BY <1>1, <2>3, <3>4 DEF ReadTake, TypeOK
      <4>. QED  BY <1>2, <2>1, <3>2, <4>1
    <3>. QED  BY <3>3, <3>4
  <2>4. CASE ReadCheck(d, r)
    <3>1. delivered' = delivered
      BY <2>4 DEF ReadCheck
    <3>2. \/ Goto(d, r, "eof") /\ state[d] \in {"RemoteClose", "Closed"} /\ recvBuf[d] = << >>
          \/ Goto(d, r, "reset") /\ state[d] = "Reset"
          \/ Goto(d, r, "take")
      BY <2>4 DEF ReadCheck
    <3>3. CASE d # p \/ Goto(d, r, "take")
      BY <1>3, <2>1, <3>1, <3>2, <3>3
    <3>4. CASE d = p /\ Broken
      <4>1. PipeStatus(e) = "broken"
        BY <3>4 DEF PipeStatus
      <4>. QED  BY <1>3, <1>5, <2>1, <3>1, <3>2, <3>4, <4>1
    <3>5. CASE d = p /\ ~Broken /\ Goto(d, r, "reset") /\ state[d] = "Reset"
      <4>1. Rejected
        BY <1>1, <3>5, Ends DEF Handshake, RstOnce, Rejected
      <4>2. PipeStatus(e) = "broken"
        BY <4>1 DEF PipeStatus
      <4>. QED  BY <1>5, <2>1, <3>1, <3>5, <4>2
    <3>6. CASE d = p /\ ~Broken /\ Goto(d, r, "eof") /\ state[d] \in {"RemoteClose", "Closed"} /\ recvBuf[d] = << >>
      <4>1. Told(p)
        BY <1>1, <3>6 DEF Told, Broken
      <4>2. PipeStatus(e) = "broken" \/ (PipeStatus(e) = "finished" /\ Len(delivered[p]) = sent[e])
        <5>1. CASE Rejected
          BY <5>1 DEF PipeStatus
        <5>2. CASE ~Rejected
          BY <3>6, <4>1, <5>2, EndIsReal
        <5>. QED  BY <5>1, <5>2
      <4>. QED  BY <1>5, <2>1, <3>1, <3>6, <4>2
    <3>. QED  BY <3>2, <3>3, <3>4, <3>5, <3>6
  <2>5. CASE ~ReadTake(d, r) /\ ~ReadCheck(d, r)
    <3>1. delivered' = delivered /\ \E l : Goto(d, r, l) /\ l \notin over
      BY <1>11, <2>5 DEF Read, ReadCall, ReadTimeout, ReadWake
    <3>. QED  BY <1>3, <2>1, <3>1
  <2>. QED  BY <2>3, <2>4, <2>5
<1>. QED  BY <1>6, <1>7, <1>8, <1>9, <1>10, <1>11 DEF Next


(* Whether the end was told is a truth value, before and after a step. *)
LEMMA EndedBoolean ==
    \A e \in Sides : Ended(e) \in BOOLEAN /\ Ended(e)' \in BOOLEAN
  BY DEF Ended

(* A step that changes nothing is none of the pipe's business either. *)
LEMMA PipeStutters ==
    ASSUME UNCHANGED vars, NEW e \in Sides
    PROVE  /\ sent'[e] = sent[e] /\ delivered'[e] = delivered[e]
           /\ PipeStatus(e)' = PipeStatus(e)
           /\ Ended(e)' <=> Ended(e)
<1>1. /\ state' = state /\ shutdownErr' = shutdownErr /\ wire' = wire /\ pc' = pc
      /\ sent' = sent /\ delivered' = delivered
  BY DEF vars, lifeVars, windowVars, bufVars
<1>2. PipeStatus(e)' = PipeStatus(e)
  BY <1>1, StatusKept
<1>3. Ended(e)' <=> Ended(e)
  BY <1>1 DEF Ended
<1>. QED  BY <1>1, <1>2, <1>3

(* Nothing was written, and nobody was told the end. *)
LEMMA PipeInit ==
    ASSUME Init, NEW e \in Sides
    PROVE  sent[e] = 0 /\ delivered[e] = << >> /\ PipeStatus(e) = "open" /\ ~Ended(e)
<1>1. \A d \in Sides : /\ \A t \in Tasks : pc[d][t] = "idle"
                       /\ state[d] = "none" /\ wire[d] = << >> /\ shutdownErr[d] = "nil"
  BY DEF Init
<1>2. ~Broken /\ ~Rejected
  BY <1>1, Ends, EmptyHas, RejectedHas DEF Broken, Shut
<1>3. PipeStatus(e) = "open"
  BY <1>1, <1>2 DEF PipeStatus
<1>4. ~Ended(e)
  BY <1>1, TaskFacts DEF Ended
<1>. QED  BY <1>3, <1>4 DEF Init

(* Unless Close is called during a Write, the direction from the end that opened the
   stream is a ByteStream: no byte is lost, invented, repeated or reordered, none is
   written after the half-close, and no end is told before the last byte is read. *)
THEOREM RequestRefined == ~CloseRaces /\ Spec => ImplementsRequestPipe
<1>1. Init => Request!Init
  <2>. SUFFICES ASSUME Init PROVE Request!Init
    OBVIOUS
  <2>1. /\ sent["opener"] = 0 /\ PipeStatus("opener") = "open"
        /\ delivered["acceptor"] = << >> /\ Ended("acceptor") = FALSE
    BY PipeInit, Ends
  <2>. QED  BY <2>1 DEF Request!Init
<1>2. OrderlyInv /\ OrderlyInv' /\ [Next]_vars => [Request!Next]_Request!vars
  <2>. SUFFICES ASSUME OrderlyInv, OrderlyInv', [Next]_vars PROVE [Request!Next]_Request!vars
    OBVIOUS
  <2>1. CASE Next
    <3>1. "opener" \in Sides /\ Peer("opener") = "acceptor"
      BY Ends
    <3>. DEFINE E == Ended("acceptor")
    <3>0. (E' <=> E) => E' = E
      BY EndedBoolean, Ends
    <3>2. PipeWrites("opener") \/ PipeReads("opener") \/ PipeEnds("opener") \/ PipeMoves("opener")
      BY <2>1, <3>1, PipeStep
    <3>3. PipeWrites("opener") => Request!Write
      BY <3>0, <3>1 DEF PipeWrites, Request!Write
    <3>4. PipeReads("opener") => Request!Read
      BY <3>0, <3>1 DEF PipeReads, Request!Read
    <3>5. PipeEnds("opener") => Request!End
      BY <3>0, <3>1 DEF PipeEnds, Request!End
    <3>6. PipeMoves("opener") => Request!Finish \/ Request!Break \/ UNCHANGED Request!vars
      BY <3>0, <3>1 DEF PipeMoves, Request!Finish, Request!Break, Request!vars
    <3>. QED  BY <3>2, <3>3, <3>4, <3>5, <3>6 DEF Request!Next
  <2>2. CASE UNCHANGED vars
    BY <2>2, PipeStutters, EndedBoolean, Ends DEF Request!vars
  <2>. QED  BY <2>1, <2>2
<1>. QED  BY <1>1, <1>2, OrderlyInit, OrderlyNext, PTL DEF Spec, ImplementsRequestPipe, Request!Spec

(* So is the direction back to it. *)
THEOREM ResponseRefined == ~CloseRaces /\ Spec => ImplementsResponsePipe
<1>1. Init => Response!Init
  <2>. SUFFICES ASSUME Init PROVE Response!Init
    OBVIOUS
  <2>1. /\ sent["acceptor"] = 0 /\ PipeStatus("acceptor") = "open"
        /\ delivered["opener"] = << >> /\ Ended("opener") = FALSE
    BY PipeInit, Ends
  <2>. QED  BY <2>1 DEF Response!Init
<1>2. OrderlyInv /\ OrderlyInv' /\ [Next]_vars => [Response!Next]_Response!vars
  <2>. SUFFICES ASSUME OrderlyInv, OrderlyInv', [Next]_vars PROVE [Response!Next]_Response!vars
    OBVIOUS
  <2>1. CASE Next
    <3>1. "acceptor" \in Sides /\ Peer("acceptor") = "opener"
      BY Ends
    <3>. DEFINE E == Ended("opener")
    <3>0. (E' <=> E) => E' = E
      BY EndedBoolean, Ends
    <3>2. PipeWrites("acceptor") \/ PipeReads("acceptor") \/ PipeEnds("acceptor") \/ PipeMoves("acceptor")
      BY <2>1, <3>1, PipeStep
    <3>3. PipeWrites("acceptor") => Response!Write
      BY <3>0, <3>1 DEF PipeWrites, Response!Write
    <3>4. PipeReads("acceptor") => Response!Read
      BY <3>0, <3>1 DEF PipeReads, Response!Read
    <3>5. PipeEnds("acceptor") => Response!End
      BY <3>0, <3>1 DEF PipeEnds, Response!End
    <3>6. PipeMoves("acceptor") => Response!Finish \/ Response!Break \/ UNCHANGED Response!vars
      BY <3>0, <3>1 DEF PipeMoves, Response!Finish, Response!Break, Response!vars
    <3>. QED  BY <3>2, <3>3, <3>4, <3>5, <3>6 DEF Response!Next
  <2>2. CASE UNCHANGED vars
    BY <2>2, PipeStutters, EndedBoolean, Ends DEF Response!vars
  <2>. QED  BY <2>1, <2>2
<1>. QED  BY <1>1, <1>2, OrderlyInit, OrderlyNext, PTL DEF Spec, ImplementsResponsePipe, Response!Spec

-----------------------------------------------------------------------------
(* Wakeups *)

(* What Read and Write look for before they block, and who will leave a token. *)
Calm(e) == recvBuf[e] = << >> /\ state[e] \notin {"RemoteClose", "Closed", "Reset"}
Looking(e) == \E r \in Readers[e] : pc[e][r] \in {"take", "wait"}
Busy(e) == \E r \in Readers[e] : pc[e][r] \in {"start", "update", "send", "flush"}
Taking(e) == recvBuf[e] # << >> /\ \E r \in Readers[e] : pc[e][r] = "take"
Blind(e) == sendWindow[e] = 0 /\ state[e] \notin {"LocalClose", "Closed", "Reset"}
Closing(e) == pc[e]["closer"] \in {"fin", "send", "flush"}

ReadersWake(e) == Looking(e) /\ ~recvNotify[e] => Calm(e) \/ Busy(e) \/ Taking(e)
WriterWakes(e) == pc[e]["writer"] = "wait" /\ ~sendNotify[e] => Blind(e) \/ Closing(e)

(* No user gets a stream whose session has ended and that does not say so. *)
Over(e) ==
    /\ pc[e]["setup"] \in {"idle", "register", "update"} =>
          state[e] \in {"none", "Init", "SYNReceived", "RemoteClose", "Closed", "Reset"}
    /\ Shut(e) /\ pc[e]["setup"] \in {"flush", "ready"} =>
          state[e] \in {"RemoteClose", "Closed", "Reset"}

Wakes(e) == ReadersWake(e) /\ WriterWakes(e) /\ Over(e)
Wakeful == \A e \in Sides : Wakes(e)

(* Nothing happened at e. *)
Still(e) ==
    /\ state'[e] = state[e] /\ shutdownErr'[e] = shutdownErr[e] /\ pc'[e] = pc[e]
    /\ recvBuf'[e] = recvBuf[e] /\ sendWindow'[e] = sendWindow[e]
    /\ recvNotify'[e] = recvNotify[e] /\ sendNotify'[e] = sendNotify[e]

(* An end where nothing happened keeps its part. *)
LEMMA StillWakes ==
    ASSUME NEW e \in Sides, Still(e), Wakes(e)
    PROVE  Wakes(e)'
<1>1. /\ Looking(e)' <=> Looking(e)
      /\ Busy(e)' <=> Busy(e)
      /\ Calm(e)' <=> Calm(e)
      /\ Taking(e)' <=> Taking(e)
      /\ Blind(e)' <=> Blind(e)
      /\ Closing(e)' <=> Closing(e)
  BY DEF Still, Looking, Busy, Calm, Taking, Blind, Closing
<1>2. ReadersWake(e)'
  BY <1>1 DEF Still, Wakes, ReadersWake
<1>3. WriterWakes(e)'
  BY <1>1 DEF Still, Wakes, WriterWakes
<1>4. Over(e)'
  BY DEF Still, Wakes, Over, Shut
<1>. QED  BY <1>2, <1>3, <1>4 DEF Wakes

(* The readers of e: a token, a reader that will leave one, or nothing new. *)
LEMMA ReadersKept ==
    ASSUME NEW e \in Sides, Wakes(e),
           \/ recvNotify'[e]
           \/ Busy(e)'
           \/ /\ recvNotify[e] => recvNotify'[e]
              /\ Calm(e) => Calm(e)'
              /\ recvBuf[e] # << >> => recvBuf'[e] # << >>
              /\ \A r \in Readers[e] : pc'[e][r] = pc[e][r]
    PROVE  ReadersWake(e)'
<1>1. CASE recvNotify'[e] \/ Busy(e)'
  BY <1>1 DEF ReadersWake
<1>2. CASE /\ recvNotify[e] => recvNotify'[e]
           /\ Calm(e) => Calm(e)'
           /\ recvBuf[e] # << >> => recvBuf'[e] # << >>
           /\ \A r \in Readers[e] : pc'[e][r] = pc[e][r]
  <2>1. (Looking(e)' => Looking(e)) /\ (Busy(e) => Busy(e)') /\ (Taking(e) => Taking(e)')
    BY <1>2 DEF Looking, Busy, Taking
  <2>. QED  BY <1>2, <2>1 DEF Wakes, ReadersWake
<1>. QED  BY <1>1, <1>2

(* The writer of e: a token, a Close that will leave one, or nothing new. *)
LEMMA WriterKept ==
    ASSUME NEW e \in Sides, Wakes(e),
           \/ sendNotify'[e]
           \/ pc'[e]["writer"] # "wait"
           \/ Closing(e)'
           \/ /\ sendNotify[e] => sendNotify'[e]
              /\ pc'[e]["writer"] = pc[e]["writer"] /\ sendWindow'[e] = sendWindow[e]
              /\ \A x \in {"LocalClose", "Closed", "Reset"} : state'[e] = x => state[e] = x
              /\ Closing(e) => Closing(e)'
    PROVE  WriterWakes(e)'
<1>1. CASE sendNotify'[e] \/ pc'[e]["writer"] # "wait" \/ Closing(e)'
  BY <1>1 DEF WriterWakes
<1>2. CASE /\ sendNotify[e] => sendNotify'[e]
           /\ pc'[e]["writer"] = pc[e]["writer"] /\ sendWindow'[e] = sendWindow[e]
           /\ \A x \in {"LocalClose", "Closed", "Reset"} : state'[e] = x => state[e] = x
           /\ Closing(e) => Closing(e)'
  <2>1. Blind(e) => Blind(e)'
    BY <1>2 DEF Blind
  <2>. QED  BY <1>2, <2>1 DEF Wakes, WriterWakes
<1>. QED  BY <1>1, <1>2

(* A stream that is over stays so. *)
LEMMA OverKept ==
    ASSUME NEW e \in Sides, Wakes(e), Shut(e)' <=> Shut(e),
           \A x \in {"idle", "register", "update", "flush", "ready"} :
               pc'[e]["setup"] = x => pc[e]["setup"] = x,
           state[e] \in {"RemoteClose", "Closed", "Reset"} => state'[e] \in {"RemoteClose", "Closed", "Reset"},
           \/ pc'[e]["setup"] \in {"flush", "ready"}
           \/ state'[e] \in {"none", "Init", "SYNReceived", "RemoteClose", "Closed", "Reset"}
           \/ state'[e] = state[e]
    PROVE  Over(e)'
BY DEF Wakes, Over


(* What one end does leaves the other as it is, but for the frames. *)
LEMMA OthersStill ==
    ASSUME TypeOK, NEW e \in Sides, NEW d \in Sides, d # e,
           \/ e = "opener" /\ (OpenCheck \/ OpenRegister)
           \/ e = "acceptor" /\ (AcceptStream \/ AcceptShutdown)
           \/ Write(e) \/ WriteCall(e) \/ WriteTimeout(e) \/ CloseCall(e) \/ LoadClose(e)
           \/ Recv(e) \/ SessionClose(e) \/ SendFail(e)
           \/ \E t \in CtlTasks(e) : Control(e, t)
           \/ \E r \in Readers[e] : Read(e, r) \/ ReadCall(e, r) \/ ReadTimeout(e, r)
    PROVE  Still(d)
<1>. USE DEF lifeVars, windowVars, bufVars, notifyVars
<1>1. \A t, l : Goto(e, t, l) => pc'[d] = pc[d]
  BY DEF Goto, TypeOK
<1>2. CASE e = "opener" /\ (OpenCheck \/ OpenRegister)
  BY <1>1, <1>2 DEF OpenCheck, OpenRegister, Still, TypeOK
<1>3. CASE e = "acceptor" /\ (AcceptStream \/ AcceptShutdown)
  BY <1>1, <1>3 DEF AcceptStream, AcceptShutdown, Still
<1>4. CASE Write(e) \/ WriteCall(e) \/ WriteTimeout(e)
  BY <1>1, <1>4 DEF Write, WriteCheck, WriteSend, WriteSent, WriteFailed, WriteWake, WriteCall,
                    WriteTimeout, Still, TypeOK
<1>5. CASE CloseCall(e) \/ LoadClose(e)
  BY <1>1, <1>5 DEF CloseCall, LoadClose, Still, TypeOK
<1>6. \A err, w : Shutdown(e, err, w) /\ UNCHANGED <<sendWindow, recvBuf, pc>> => Still(d)
  BY DEF Shutdown, Still, TypeOK
<1>7. CASE Recv(e)
  <2>1. CASE RecvSYN(e) \/ RecvReject(e) \/ RecvMissing(e)
    BY <2>1 DEF RecvSYN, RecvReject, RecvMissing, Still, TypeOK
  <2>2. CASE RecvWindow(e) \/ RecvData(e)
    BY ZenonT(30), <2>2 DEF RecvWindow, RecvData, ProcessFlags, Still, TypeOK
  <2>3. CASE RecvRefuse(e)
    <3>1. UNCHANGED <<sendWindow, recvBuf, pc>>
      BY <2>3 DEF RecvRefuse, streamRest
    <3>2. (\E err : Shutdown(e, err, [wire EXCEPT ![Peer(e)] = << >>])) \/ UNCHANGED <<state, lifeVars, notifyVars>>
      BY <2>3 DEF RecvRefuse
    <3>. QED  BY <1>6, <3>1, <3>2 DEF Still
  <2>4. CASE RecvShort(e)
    <3>1. /\ UNCHANGED <<sendWindow, pc>> /\ \E x : recvBuf' = [recvBuf EXCEPT ![e] = x]
          /\ \/ /\ recvNotify' = [recvNotify EXCEPT ![e] = TRUE]
                /\ UNCHANGED <<state, lifeVars, sendNotify>>
             \/ Shutdown(e, "ErrRead", [wire EXCEPT ![Peer(e)] = << >>])
             \/ UNCHANGED <<state, lifeVars, notifyVars>>
      BY <2>4 DEF RecvShort
    <3>2. recvBuf'[d] = recvBuf[d]
      BY <3>1 DEF TypeOK
    <3>. QED  BY <3>1, <3>2 DEF Shutdown, Still, TypeOK
  <2>5. CASE RecvEOF(e)
    BY <1>6, <2>5 DEF RecvEOF, streamRest
  <2>. QED  BY <1>7, <2>1, <2>2, <2>3, <2>4, <2>5 DEF Recv
<1>8. CASE SessionClose(e) \/ SendFail(e)
  BY <1>6, <1>8 DEF SessionClose, SendFail, streamRest
<1>9. CASE \E t \in CtlTasks(e) : Control(e, t)
  BY ZenonT(30), <1>1, <1>9 DEF Control, LoadUpdate, SendControl, ControlSent, ControlFailed, ReturnNotify, Still, TypeOK
<1>10. CASE \E r \in Readers[e] : Read(e, r) \/ ReadCall(e, r) \/ ReadTimeout(e, r)
  BY <1>1, <1>10 DEF Read, ReadCall, ReadTimeout, ReadCheck, ReadTake, ReadWake, Still, TypeOK
<1>. QED  BY <1>2, <1>3, <1>4, <1>5, <1>7, <1>8, <1>9, <1>10


(* A task other than the readers, the writer and the closer moved. *)
LEMMA SetupWakes ==
    ASSUME TypeOK, Handshake, Wakeful, NEW e \in Sides,
           \/ e = "opener" /\ (OpenCheck \/ OpenRegister)
           \/ e = "acceptor" /\ (AcceptStream \/ AcceptShutdown)
    PROVE  Wakes(e)'
<1>. USE DEF lifeVars, windowVars, bufVars, notifyVars
<1>1. /\ UNCHANGED <<recvBuf, recvNotify, sendNotify, sendWindow, shutdownErr>>
      /\ \E l : Goto(e, "setup", l) /\ l \in {"register", "update", "failed"}
      /\ state' = state \/ (state[e] = "none" /\ state'[e] = "Init")
      /\ pc[e]["setup"] \in {"idle", "register"}
  BY DEF OpenCheck, OpenRegister, AcceptStream, AcceptShutdown, Handshake, Opening, TypeOK
<1>2. /\ pc'[e]["setup"] \in {"register", "update", "failed"}
      /\ \A t \in Tasks : t # "setup" => pc'[e][t] = pc[e][t]
  BY <1>1, Moved, TaskFacts
<1>3. /\ \A r \in Readers[e] : pc'[e][r] = pc[e][r]
      /\ pc'[e]["writer"] = pc[e]["writer"] /\ pc'[e]["closer"] = pc[e]["closer"]
  BY <1>2, TaskFacts, ReaderAssumption
<1>4. Wakes(e) /\ (Shut(e)' <=> Shut(e))
  BY <1>1 DEF Wakeful, Shut
<1>5. ReadersWake(e)'
  <2>1. Calm(e) => Calm(e)'
    BY <1>1 DEF Calm
  <2>. QED  BY <1>1, <1>3, <1>4, <2>1, ReadersKept
<1>6. WriterWakes(e)'
  BY <1>1, <1>3, <1>4, WriterKept DEF Closing
<1>7. Over(e)'
  BY <1>1, <1>2, <1>4 DEF Wakes, Over
<1>. QED  BY <1>5, <1>6, <1>7 DEF Wakes

(* Write blocks when it saw no window, and goes on when there is one. *)
LEMMA WriteWakes ==
    ASSUME TypeOK, Handshake, Wakeful, NEW e \in Sides, Write(e) \/ WriteCall(e) \/ WriteTimeout(e)
    PROVE  Wakes(e)'
<1>. USE DEF lifeVars, windowVars, bufVars, notifyVars
<1>1. PICK l : Goto(e, "writer", l)
  BY DEF Write, WriteCheck, WriteSend, WriteSent, WriteFailed, WriteWake, WriteCall, WriteTimeout
<1>2. /\ pc'[e]["writer"] = l /\ pc'[e]["setup"] = pc[e]["setup"] /\ pc'[e]["closer"] = pc[e]["closer"]
      /\ \A r \in Readers[e] : pc'[e][r] = pc[e][r]
  BY <1>1, Moved, TaskFacts, ReaderAssumption
<1>3. /\ UNCHANGED <<recvBuf, recvNotify, shutdownErr>>
      /\ state' = state \/ state' = [state EXCEPT ![e] = Flagged(@)]
  BY DEF Write, WriteCheck, WriteSend, WriteSent, WriteFailed, WriteWake, WriteCall, WriteTimeout
<1>4. \A x \in {"RemoteClose", "LocalClose", "Closed", "Reset"} : state'[e] = x <=> state[e] = x
  <2>1. state'[e] = state[e] \/ state'[e] = Flagged(state[e])
    BY <1>3 DEF TypeOK
  <2>. QED  BY <2>1, FlaggedFacts
<1>5. Wakes(e) /\ (Shut(e)' <=> Shut(e))
  BY <1>3 DEF Wakeful, Shut
<1>6. ReadersWake(e)'
  <2>1. Calm(e) => Calm(e)'
    BY <1>3, <1>4 DEF Calm
  <2>. QED  BY <1>2, <1>3, <1>5, <2>1, ReadersKept
<1>7. WriterWakes(e)'
  <2>1. CASE WriteCheck(e)
    <3>1. pc'[e]["writer"] = "wait" => Blind(e)'
      <4>1. SUFFICES ASSUME pc'[e]["writer"] = "wait" PROVE Blind(e)'
        OBVIOUS
      <4>2. \A x : Goto(e, "writer", x) => x = "wait"
        BY <4>1, Moved, TaskFacts
      <4>3. /\ state[e] \notin {"LocalClose", "Closed", "Reset"} /\ sendWindow[e] = 0
            /\ state' = state /\ sendWindow' = sendWindow
        BY <2>1, <4>2 DEF WriteCheck
      <4>. QED  BY <4>3 DEF Blind
    <3>. QED  BY <3>1 DEF WriterWakes
  <2>2. CASE ~WriteCheck(e)
    <3>1. pc'[e]["writer"] # "wait"
      <4>1. \A x : Goto(e, "writer", x) => pc'[e]["writer"] = x
        BY Moved, TaskFacts
      <4>2. \E x : Goto(e, "writer", x) /\ x # "wait"
        BY <2>2 DEF Write, WriteSend, WriteSent, WriteFailed, WriteWake, WriteCall, WriteTimeout
      <4>. QED  BY <4>1, <4>2
    <3>. QED  BY <1>5, <3>1, WriterKept
  <2>. QED  BY <2>1, <2>2
<1>8. Over(e)'
  <2>1. pc[e]["setup"] = "ready" \/ state' = state
    <3>1. UsersWait
      BY DEF Handshake
    <3>2. CASE WriteSend(e)
      BY <3>1, <3>2, TaskFacts DEF WriteSend, UsersWait, Ready
    <3>3. CASE ~WriteSend(e)
      BY <3>3 DEF Write, WriteCheck, WriteSent, WriteFailed, WriteWake, WriteCall, WriteTimeout
    <3>. QED  BY <3>2, <3>3
  <2>. QED  BY <1>2, <1>4, <1>5, <2>1, OverKept
<1>. QED  BY <1>6, <1>7, <1>8 DEF Wakes

(* Close will wake whoever waits when it is done. *)
LEMMA CloseWakes ==
    ASSUME TypeOK, Handshake, Wakeful, NEW e \in Sides, CloseCall(e) \/ LoadClose(e)
    PROVE  Wakes(e)'
<1>. USE DEF lifeVars, windowVars, bufVars, notifyVars
<1>1. /\ UNCHANGED <<recvBuf, recvNotify, sendNotify, sendWindow, shutdownErr>>
      /\ \/ state' = state
         \/ state[e] \in Unclosed /\ state'[e] = "LocalClose"
         \/ state[e] = "RemoteClose" /\ state'[e] = "Closed"
      /\ \/ \E l : Goto(e, "closer", l) /\ l \in {"fin", "send"}
         \/ state' = state /\ pc[e]["closer"] = "idle" /\ \E l : Goto(e, "closer", l)
  BY DEF CloseCall, LoadClose, TypeOK
<1>2. /\ pc'[e]["writer"] = pc[e]["writer"] /\ pc'[e]["setup"] = pc[e]["setup"]
      /\ \A r \in Readers[e] : pc'[e][r] = pc[e][r]
      /\ pc'[e]["closer"] \in {"fin", "send"} \/ (state' = state /\ pc[e]["closer"] = "idle")
  BY <1>1, Moved, TaskFacts, ReaderAssumption
<1>3. Wakes(e) /\ (Shut(e)' <=> Shut(e)) /\ pc[e]["setup"] = "ready"
  <2>1. pc[e]["setup"] = "ready"
    BY TaskFacts DEF CloseCall, LoadClose, Handshake, UsersWait, Ready
  <2>. QED  BY <1>1, <2>1 DEF Wakeful, Shut
<1>4. ReadersWake(e)'
  <2>1. Calm(e) => Calm(e)'
    BY <1>1 DEF Calm
  <2>. QED  BY <1>1, <1>2, <1>3, <2>1, ReadersKept
<1>5. WriterWakes(e)'
  BY <1>1, <1>2, <1>3, WriterKept DEF Closing
<1>6. Over(e)'
  BY <1>1, <1>2, <1>3, OverKept DEF Unclosed
<1>. QED  BY <1>4, <1>5, <1>6 DEF Wakes


(* A buffer that something was added to. *)
LEMMA LongerStill ==
    ASSUME NEW s \in Seq(Nat), s # << >>, NEW v \in Seq(Nat)
    PROVE  s \o v # << >>
<1>1. Len(s) \in Nat /\ Len(s) # 0 /\ Len(v) \in Nat
  BY LenProperties, EmptySeq
<1>2. Len(s \o v) = Len(s) + Len(v)
  BY <1>1, ConcatProperties
<1>. QED  BY <1>1, <1>2, EmptySeq


(* The end of a session leaves a token to both, if it has the stream. *)
LEMMA ShutdownWakes ==
    ASSUME TypeOK, Handshake, Wakeful, NEW e \in Sides, NEW err, err # "nil",
           NEW w, w = wire \/ w = [wire EXCEPT ![Peer(e)] = << >>], Shutdown(e, err, w), pc' = pc, sendWindow' = sendWindow,
           recvBuf'[e] = recvBuf[e] \/ registered[e]
    PROVE  Wakes(e)'
<1>1. Wakes(e)
  BY DEF Wakeful
<1>2. state'[e] = IF registered[e] THEN "Closed" ELSE state[e]
  BY ShutdownParts
<1>3. /\ registered[e] => recvNotify'[e] /\ sendNotify'[e]
      /\ ~registered[e] => recvNotify'[e] = recvNotify[e] /\ sendNotify'[e] = sendNotify[e]
  BY DEF Shutdown, TypeOK
<1>4. CASE registered[e]
  <2>1. ReadersWake(e)' /\ WriterWakes(e)'
    BY <1>3, <1>4 DEF ReadersWake, WriterWakes
  <2>2. Over(e)'
    BY <1>2, <1>4 DEF Over
  <2>. QED  BY <2>1, <2>2 DEF Wakes
<1>5. CASE ~registered[e]
  <2>1. state'[e] = state[e] /\ recvBuf'[e] = recvBuf[e]
    BY <1>2, <1>5
  <2>2. ReadersWake(e)'
    <3>1. Calm(e) => Calm(e)'
      BY <2>1 DEF Calm
    <3>. QED  BY <1>1, <1>3, <1>5, <2>1, <3>1, ReadersKept
  <2>3. WriterWakes(e)'
    BY <1>1, <1>3, <1>5, <2>1, WriterKept DEF Closing
  <2>4. pc[e]["setup"] \in {"flush", "ready"} => state[e] \in {"Closed", "Reset"}
    BY <1>5, Ends DEF Handshake, Registered, Opening, Unborn
  <2>5. Over(e)'
    BY <1>1, <2>1, <2>4 DEF Wakes, Over
  <2>. QED  BY <2>2, <2>3, <2>5 DEF Wakes
<1>. QED  BY <1>4, <1>5

(* recv leaves a token with what it brings. *)
LEMMA RecvWakes ==
    ASSUME TypeOK, FlowAccounts, Handshake, Wakeful, NEW e \in Sides, Recv(e)
    PROVE  Wakes(e)'
<1>. USE DEF lifeVars, windowVars, bufVars, notifyVars
<1>. DEFINE p == Peer(e)
            frame == Head(wire[p])
<1>1. Wakes(e)
  BY DEF Wakeful
<1>2. CASE Still(e)
  BY <1>1, <1>2, StillWakes
<1>3. CASE RecvSYN(e)
  <2>1. /\ frame.flag = "SYN" /\ wire[p] # << >> /\ state' = [state EXCEPT ![e] = "SYNReceived"]
        /\ sendNotify' = [sendNotify EXCEPT ![e] = TRUE]
        /\ UNCHANGED <<recvBuf, recvNotify, shutdownErr, pc>>
    BY <1>3 DEF RecvSYN
  <2>2. Has(wire[p], "SYN")
    BY <2>1, HandledFacts
  <2>3. e = "acceptor" /\ state[e] = "none"
    BY <2>2, Ends DEF Handshake, SynOnce
  <2>4. pc[e]["setup"] \in {"idle", "failed"}
    BY <2>3 DEF Handshake, Unborn
  <2>5. state'[e] = "SYNReceived" /\ sendNotify'[e]
    BY <2>1 DEF TypeOK
  <2>6. ReadersWake(e)'
    <3>1. Calm(e) => Calm(e)'
      BY <2>1, <2>5 DEF Calm
    <3>. QED  BY <1>1, <2>1, <3>1, ReadersKept
  <2>7. WriterWakes(e)' /\ Over(e)'
    BY <2>1, <2>4, <2>5 DEF WriterWakes, Over
  <2>. QED  BY <2>6, <2>7 DEF Wakes
<1>4. CASE RecvReject(e) \/ RecvMissing(e)
  BY <1>2, <1>4 DEF RecvReject, RecvMissing, Still
<1>5. CASE RecvWindow(e) \/ RecvData(e)
  <2>1. /\ wire[p] # << >> /\ registered[e] /\ ~Refused(e, frame) /\ ProcessFlags(e, frame.flag)
        /\ UNCHANGED <<shutdownErr, pc>>
    BY <1>5 DEF RecvWindow, RecvData
  <2>2. /\ state[e] \notin {"none", "Init"}
        /\ \/ /\ frame.flag \in {"none", "ACK"}
              /\ state'[e] = state[e] \/ (state[e] = "SYNSent" /\ state'[e] = "Established")
           \/ frame.flag = "FIN" /\ state[e] \in Unclosed /\ state'[e] = "RemoteClose"
           \/ frame.flag = "FIN" /\ state[e] = "LocalClose" /\ state'[e] = "Closed"
           \/ frame.flag = "RST" /\ state'[e] = "Reset"
    BY <2>1, ProcessedFacts
  <2>3. Over(e)'
    BY <1>1, <2>1, <2>2, OverKept DEF Wakes, Over, Shut, Unclosed
  <2>4. /\ \/ recvNotify'[e]
           \/ ~recvNotify[e] /\ recvBuf' = recvBuf /\ frame.flag \notin {"FIN", "RST"}
        /\ \/ sendNotify'[e]
           \/ ~sendNotify[e] /\ sendWindow' = sendWindow /\ frame.flag \notin {"FIN", "RST"}
    BY <1>5 DEF RecvWindow, RecvData, Notifying, TypeOK
  <2>5. frame.flag \notin {"FIN", "RST"} =>
           \A x \in {"RemoteClose", "LocalClose", "Closed", "Reset"} : state'[e] = x => state[e] = x
    BY <2>2
  <2>6. ReadersWake(e)'
    <3>1. CASE recvNotify'[e]
      BY <1>1, <3>1, ReadersKept
    <3>2. CASE ~recvNotify'[e]
      <4>1. Calm(e) => Calm(e)'
        BY <2>4, <2>5, <3>2 DEF Calm
      <4>. QED  BY <1>1, <2>1, <2>4, <3>2, <4>1, ReadersKept
    <3>. QED  BY <3>1, <3>2
  <2>7. WriterWakes(e)'
    BY <1>1, <2>1, <2>4, <2>5, WriterKept DEF Closing
  <2>. QED  BY <2>3, <2>6, <2>7 DEF Wakes
<1>6. CASE RecvRefuse(e)
  <2>1. UNCHANGED <<pc, recvBuf, sendWindow>>
    BY <1>6 DEF RecvRefuse, streamRest
  <2>2. \/ \E err : err # "nil" /\ Shutdown(e, err, [wire EXCEPT ![p] = << >>])
        \/ UNCHANGED <<state, lifeVars, notifyVars>>
    <3>1. \/ \E err : /\ err \in {"ErrDuplicateStream", "ErrUnexpectedFlag", "ErrRecvWindowExceeded"}
                      /\ Shutdown(e, err, [wire EXCEPT ![p] = << >>])
          \/ UNCHANGED <<state, lifeVars, notifyVars>>
      BY <1>6 DEF RecvRefuse
    <3>. QED  BY <3>1
  <2>3. CASE UNCHANGED <<state, lifeVars, notifyVars>>
    BY <1>2, <2>1, <2>3 DEF Still
  <2>. QED  BY <2>1, <2>2, <2>3, ShutdownWakes
<1>7. CASE RecvShort(e)
  <2>1. registered[e] /\ wire[p] # << >> /\ UNCHANGED <<pc, sendWindow>>
    BY <1>7 DEF RecvShort
  <2>2. CASE Shutdown(e, "ErrRead", [wire EXCEPT ![p] = << >>])
    BY <2>1, <2>2, ShutdownWakes
  <2>3. CASE recvNotify' = [recvNotify EXCEPT ![e] = TRUE] /\ UNCHANGED <<state, lifeVars, sendNotify>>
    <3>1. recvNotify'[e]
      BY <2>3 DEF TypeOK
    <3>2. ReadersWake(e)'
      BY <1>1, <3>1, ReadersKept
    <3>3. WriterWakes(e)'
      BY <1>1, <2>1, <2>3, WriterKept DEF Closing
    <3>4. Over(e)'
      BY <1>1, <2>1, <2>3, OverKept DEF Shut
    <3>. QED  BY <3>2, <3>3, <3>4 DEF Wakes
  <2>4. CASE Shut(e) /\ UNCHANGED <<state, lifeVars, notifyVars>>
    <3>1. recvBuf[e] # << >> => recvBuf'[e] # << >>
      <4>1. PICK n \in 0..(frame.len - 1) : recvBuf' = [recvBuf EXCEPT ![e] = @ \o Payload(frame, n)]
        BY <1>7 DEF RecvShort
      <4>2. frame \in Frames /\ frame.len \in Nat
        BY <2>1, RecvType
      <4>3. n \in Nat
        BY <4>1, <4>2
      <4>4. Payload(frame, n) \in Seq(Nat)
        BY <4>2, <4>3, PayloadType
      <4>5. recvBuf[e] \in Seq(Nat) /\ recvBuf'[e] = recvBuf[e] \o Payload(frame, n)
        BY <4>1 DEF TypeOK
      <4>. QED  BY <4>4, <4>5, LongerStill
    <3>2. CASE Ready(e)
      <4>1. ~Calm(e)
        BY <1>1, <2>4, <3>2 DEF Wakes, Over, Ready, Calm
      <4>2. ReadersWake(e)'
        BY <1>1, <2>1, <2>4, <3>1, <4>1, ReadersKept
      <4>3. WriterWakes(e)' /\ Over(e)'
        BY <1>1, <2>1, <2>4, WriterKept, OverKept DEF Closing, Shut
      <4>. QED  BY <4>2, <4>3 DEF Wakes
    <3>3. CASE ~Ready(e)
      <4>1. \A t \in Tasks \ {"setup"} : pc'[e][t] = "idle"
        BY <2>1, <3>3 DEF Handshake, UsersWait
      <4>2. \A r \in Readers[e] : pc'[e][r] = "idle"
        BY <4>1, TaskFacts, ReaderAssumption
      <4>3. ReadersWake(e)'
        BY <4>2 DEF ReadersWake, Looking
      <4>4. WriterWakes(e)' /\ Over(e)'
        BY <1>1, <2>1, <2>4, WriterKept, OverKept DEF Closing, Shut
      <4>. QED  BY <4>3, <4>4 DEF Wakes
    <3>. QED  BY <3>2, <3>3
  <2>. QED  BY <1>7, <2>2, <2>3, <2>4 DEF RecvShort
<1>8. CASE RecvEOF(e)
  <2>1. UNCHANGED <<pc, recvBuf, sendWindow>> /\ Shutdown(e, "EOF", wire)
    BY <1>8 DEF RecvEOF, streamRest
  <2>. QED  BY <2>1, ShutdownWakes
<1>. QED  BY <1>3, <1>4, <1>5, <1>6, <1>7, <1>8 DEF Recv

(* Close and send end the session as recv does. *)
LEMMA EndWakes ==
    ASSUME TypeOK, Handshake, Wakeful, NEW e \in Sides, SessionClose(e) \/ SendFail(e)
    PROVE  Wakes(e)'
<1>1. UNCHANGED <<pc, recvBuf, sendWindow>> /\ \E err : err # "nil" /\ Shutdown(e, err, wire)
  BY DEF SessionClose, SendFail, streamRest, windowVars, bufVars
<1>. QED  BY <1>1, ShutdownWakes

(* The flags sent with a frame end nothing and undo no end. *)
LEMMA FlaggedEnds ==
    ASSUME TypeOK, NEW e \in Sides, state' = state \/ state' = [state EXCEPT ![e] = Flagged(@)]
    PROVE  \A x \in {"RemoteClose", "LocalClose", "Closed", "Reset"} : state'[e] = x <=> state[e] = x
<1>1. state'[e] = state[e] \/ state'[e] = Flagged(state[e])
  BY DEF TypeOK
<1>. QED  BY <1>1, FlaggedFacts

(* A control frame: a Read leaves a token when it returns, Close leaves both, and
   OpenStream and AcceptStream send theirs before anybody looks. *)
LEMMA ControlWakes ==
    ASSUME TypeOK, Handshake, Wakeful, NEW e \in Sides, NEW t \in CtlTasks(e), Control(e, t)
    PROVE  Wakes(e)'
<1>. USE DEF lifeVars, windowVars, bufVars, notifyVars
<1>1. PICK l : Goto(e, t, l)
  BY DEF Control, LoadUpdate, SendControl, ControlSent, ControlFailed
<1>2. /\ t \in Tasks /\ pc'[e][t] = l /\ pc'[e]["writer"] = pc[e]["writer"]
      /\ \A u \in Tasks : u # t => pc'[e][u] = pc[e][u]
  <2>1. t \in Tasks /\ t # "writer"
    BY TaskFacts, ReaderAssumption DEF CtlTasks
  <2>. QED  BY <1>1, <2>1, Moved, TaskFacts
<1>3. /\ UNCHANGED <<recvBuf, sendWindow, shutdownErr>>
      /\ state' = state \/ state' = [state EXCEPT ![e] = Flagged(@)]
      /\ recvNotify[e] => recvNotify'[e]
      /\ sendNotify[e] => sendNotify'[e]
  BY DEF Control, LoadUpdate, SendControl, ControlSent, ControlFailed, ReturnNotify, TypeOK
<1>4. \A x \in {"RemoteClose", "LocalClose", "Closed", "Reset"} : state'[e] = x <=> state[e] = x
  BY <1>3, FlaggedEnds
<1>5. Wakes(e) /\ (Shut(e)' <=> Shut(e)) /\ (Calm(e) => Calm(e)')
  BY <1>3, <1>4 DEF Wakeful, Shut, Calm
<1>6. \A x : Goto(e, t, x) => x = l
  BY <1>1, <1>2, Moved
<1>7. \/ l = "send" /\ LoadUpdate(e, t)
      \/ l = "flush" /\ SendControl(e, t) /\ ~Shut(e)
      \/ l \in {After(t), Failed(t)} /\ ReturnNotify(e, t)
  BY <1>6 DEF Control, LoadUpdate, SendControl, ControlSent, ControlFailed
<1>8. CASE t = "closer"
  <2>1. \A r \in Readers[e] : pc'[e][r] = pc[e][r]
    BY <1>2, <1>8, TaskFacts, ReaderAssumption
  <2>2. ReadersWake(e)'
    BY <1>3, <1>5, <2>1, ReadersKept
  <2>3. ~LoadUpdate(e, t)
    BY <1>8 DEF Handshake, FinOnce, LoadUpdate
  <2>4. Closing(e)' \/ sendNotify'[e]
    <3>1. CASE l = "flush"
      BY <1>2, <1>8, <3>1 DEF Closing
    <3>2. CASE ReturnNotify(e, t)
      BY <1>8, <3>2 DEF ReturnNotify, TypeOK
    <3>. QED  BY <1>7, <2>3, <3>1, <3>2
  <2>5. WriterWakes(e)'
    BY <1>5, <2>4, WriterKept
  <2>6. pc'[e]["setup"] = pc[e]["setup"] /\ pc[e]["setup"] = "ready"
    <3>1. pc[e]["closer"] # "idle"
      BY <1>8, <2>3 DEF Control, SendControl, ControlSent, ControlFailed
    <3>. QED  BY <1>2, <1>8, <3>1, TaskFacts DEF Handshake, UsersWait, Ready
  <2>7. Over(e)'
    BY <1>4, <1>5, <2>6, OverKept
  <2>. QED  BY <2>2, <2>5, <2>7 DEF Wakes
<1>9. CASE t = "setup"
  <2>1. pc'[e]["closer"] = pc[e]["closer"] /\ \A r \in Readers[e] : pc'[e][r] = pc[e][r]
    BY <1>2, <1>9, TaskFacts, ReaderAssumption
  <2>2. ReadersWake(e)'
    BY <1>3, <1>5, <2>1, ReadersKept
  <2>3. WriterWakes(e)'
    BY <1>2, <1>3, <1>4, <1>5, <2>1, WriterKept DEF Closing
  <2>4. Over(e)'
    <3>1. After(t) = "ready" /\ Failed(t) = "failed"
      BY <1>9 DEF After, Failed
    <3>2. CASE l \in {"send", "failed"}
      BY <1>2, <1>9, <3>2 DEF Over
    <3>3. CASE l = "flush" /\ ~Shut(e)
      BY <1>2, <1>5, <1>9, <3>3 DEF Over
    <3>4. CASE l = "ready"
      <4>1. CASE LoadUpdate(e, t)
        <5>1. pc[e]["setup"] = "update" /\ SendFlag(state[e]) = "none"
          <6>1. pc[e]["setup"] = "update" /\ (Goto(e, t, "send") \/ SendFlag(state[e]) = "none")
            BY <1>9, <4>1 DEF LoadUpdate
          <6>. QED  BY <1>6, <3>4, <6>1
        <5>2. state[e] # "none"
          BY <5>1, Ends DEF Handshake, Opening, Unborn
        <5>3. state[e] \in {"RemoteClose", "Closed", "Reset"}
          BY <1>5, <5>1, <5>2 DEF Wakes, Over, SendFlag
        <5>. QED  BY <1>2, <1>4, <1>9, <3>4, <5>3 DEF Over
      <4>2. CASE ~LoadUpdate(e, t)
        <5>1. pc[e]["setup"] = "flush" \/ ~Shut(e)
          <6>1. ControlSent(e, t) \/ SendControl(e, t) \/ Goto(e, t, "failed")
            BY <3>1, <4>2 DEF Control, ControlFailed
          <6>2. ~Goto(e, t, "failed")
            BY <1>6, <3>4
          <6>. QED  BY <1>9, <6>1, <6>2 DEF ControlSent, SendControl
        <5>. QED  BY <1>2, <1>4, <1>5, <1>9, <3>4, <5>1 DEF Wakes, Over
      <4>. QED  BY <4>1, <4>2
    <3>. QED  BY <1>7, <3>1, <3>2, <3>3, <3>4
  <2>. QED  BY <2>2, <2>3, <2>4 DEF Wakes
<1>10. CASE t \in Readers[e]
  <2>1. /\ t # "setup" /\ pc'[e]["setup"] = pc[e]["setup"] /\ pc'[e]["closer"] = pc[e]["closer"]
    BY <1>2, <1>10, TaskFacts, ReaderAssumption
  <2>2. recvNotify'[e] \/ Busy(e)'
    <3>1. CASE l \in {"send", "flush"}
      BY <1>2, <1>10, <3>1 DEF Busy
    <3>2. CASE ReturnNotify(e, t)
      BY <2>1, <3>2 DEF ReturnNotify, TypeOK
    <3>. QED  BY <1>7, <3>1, <3>2
  <2>3. ReadersWake(e)'
    BY <1>5, <2>2, ReadersKept
  <2>4. WriterWakes(e)'
    BY <1>2, <1>3, <1>4, <1>5, <2>1, WriterKept DEF Closing
  <2>5. pc[e]["setup"] = "ready"
    <3>1. pc[e][t] # "idle"
      BY DEF Control, LoadUpdate, SendControl, ControlSent, ControlFailed
    <3>. QED  BY <1>2, <2>1, <3>1 DEF Handshake, UsersWait, Ready
  <2>6. Over(e)'
    BY <1>4, <1>5, <2>1, <2>5, OverKept
  <2>. QED  BY <2>3, <2>4, <2>6 DEF Wakes
<1>. QED  BY <1>8, <1>9, <1>10 DEF CtlTasks

(* Read blocks when it found nothing, and leaves the token to the next when it goes. *)
LEMMA ReadWakes ==
    ASSUME TypeOK, Wakeful, NEW e \in Sides, NEW r \in Readers[e],
           Read(e, r) \/ ReadCall(e, r) \/ ReadTimeout(e, r)
    PROVE  Wakes(e)'
<1>. USE DEF lifeVars, windowVars, bufVars, notifyVars
<1>1. PICK l : Goto(e, r, l)
  BY DEF Read, ReadCheck, ReadTake, ReadWake, ReadCall, ReadTimeout
<1>2. /\ pc'[e][r] = l /\ pc'[e]["writer"] = pc[e]["writer"] /\ pc'[e]["setup"] = pc[e]["setup"]
      /\ pc'[e]["closer"] = pc[e]["closer"]
      /\ \A q \in Readers[e] : q # r => pc'[e][q] = pc[e][q]
  <2>1. r \in Tasks /\ r \notin {"writer", "setup", "closer"}
    BY TaskFacts, ReaderAssumption
  <2>. QED  BY <1>1, <2>1, Moved, TaskFacts
<1>3. \A x : Goto(e, r, x) => x = l
  <2>1. r \in Tasks
    BY TaskFacts
  <2>. QED  BY <1>2, <2>1, Moved
<1>4. UNCHANGED <<state, shutdownErr, sendWindow, sendNotify>>
  BY DEF Read, ReadCheck, ReadTake, ReadWake, ReadCall, ReadTimeout
<1>5. Wakes(e)
  BY DEF Wakeful
<1>6. WriterWakes(e)'
  BY <1>2, <1>4, <1>5, WriterKept DEF Closing
<1>7. Over(e)'
  BY <1>2, <1>4, <1>5, OverKept DEF Shut
<1>8. CASE l \in {"start", "update"}
  <2>1. Busy(e)'
    BY <1>2, <1>8 DEF Busy
  <2>. QED  BY <1>5, <1>6, <1>7, <2>1, ReadersKept DEF Wakes
<1>9. CASE ReadTimeout(e, r)
  <2>1. recvNotify'[e]
    BY <1>9 DEF ReadTimeout, TypeOK
  <2>. QED  BY <1>5, <1>6, <1>7, <2>1, ReadersKept DEF Wakes
<1>10. CASE ReadCheck(e, r)
  <2>1. recvBuf' = recvBuf
    BY <1>10 DEF ReadCheck
  <2>2. \/ recvNotify'[e]
        \/ /\ l = "take" /\ state[e] # "Reset"
           /\ state[e] \in {"RemoteClose", "Closed"} => recvBuf[e] # << >>
    <3>1. CASE (state[e] \in {"RemoteClose", "Closed"} /\ recvBuf[e] = << >>) \/ state[e] = "Reset"
      BY <1>10, <3>1 DEF ReadCheck, TypeOK
    <3>2. CASE ~((state[e] \in {"RemoteClose", "Closed"} /\ recvBuf[e] = << >>) \/ state[e] = "Reset")
      <4>1. Goto(e, r, "take")
        BY <1>10, <3>2 DEF ReadCheck
      <4>. QED  BY <1>3, <3>2, <4>1
    <3>. QED  BY <3>1, <3>2
  <2>3. recvNotify'[e] \/ Calm(e)' \/ Taking(e)'
    BY <1>2, <1>4, <2>1, <2>2 DEF Calm, Taking
  <2>. QED  BY <1>6, <1>7, <2>3 DEF Wakes, ReadersWake
<1>11. CASE ReadTake(e, r) /\ l # "update"
  <2>1. recvBuf[e] = << >> /\ UNCHANGED <<recvBuf, recvNotify>> /\ pc[e][r] = "take"
    BY <1>3, <1>11 DEF ReadTake
  <2>2. recvNotify[e] \/ Calm(e) \/ Busy(e)
    BY <1>5, <2>1 DEF Wakes, ReadersWake, Looking, Taking
  <2>3. Busy(e) => Busy(e)'
    BY <1>2, <2>1 DEF Busy
  <2>4. Calm(e) => Calm(e)'
    BY <1>4, <2>1 DEF Calm
  <2>. QED  BY <1>6, <1>7, <2>1, <2>2, <2>3, <2>4 DEF Wakes, ReadersWake
<1>12. CASE ReadWake(e, r) \/ ReadCall(e, r)
  <2>1. Goto(e, r, "start")
    BY <1>12 DEF ReadWake, ReadCall
  <2>. QED  BY <1>3, <1>8, <2>1
<1>. QED  BY <1>8, <1>9, <1>10, <1>11, <1>12 DEF Read

(* What one end does leaves nobody asleep, there or at the other end. *)
LEMMA WakeStep ==
    ASSUME TypeOK, FlowAccounts, Handshake, Wakeful, Next
    PROVE  Wakeful'
<1>1. PICK e \in Sides :
           \/ e = "opener" /\ (OpenCheck \/ OpenRegister)
           \/ e = "acceptor" /\ (AcceptStream \/ AcceptShutdown)
           \/ Write(e) \/ WriteCall(e) \/ WriteTimeout(e) \/ CloseCall(e) \/ LoadClose(e)
           \/ Recv(e) \/ SessionClose(e) \/ SendFail(e)
           \/ \E t \in CtlTasks(e) : Control(e, t)
           \/ \E r \in Readers[e] : Read(e, r) \/ ReadCall(e, r) \/ ReadTimeout(e, r)
  BY Ends DEF Next, Setup
<1>2. Wakes(e)'
  BY <1>1, SetupWakes, WriteWakes, CloseWakes, RecvWakes, EndWakes, ControlWakes, ReadWakes
<1>3. ASSUME NEW d \in Sides, d # e PROVE Wakes(d)'
  BY <1>1, <1>3, OthersStill, StillWakes DEF Wakeful
<1>. QED  BY <1>2, <1>3 DEF Wakeful

(* The invariant of the wakeups. *)
WakeInv == HandshakeInv /\ Wakeful

(* Nobody looks at a stream before it exists. *)
LEMMA WakeInvInit == Init => WakeInv
<1>1. SUFFICES ASSUME Init PROVE Wakeful
  BY HandshakeInvInit DEF WakeInv
<1>2. \A e \in Sides : \A t \in Tasks : pc[e][t] = "idle" /\ state[e] = "none" /\ ~Shut(e)
  BY <1>1 DEF Init, Shut
<1>3. \A e \in Sides : Readers[e] \subseteq Tasks
  BY TaskFacts
<1>. QED  BY <1>2, <1>3, TaskFacts DEF Wakeful, Wakes, ReadersWake, WriterWakes, Over, Looking

(* No step disturbs it. *)
LEMMA WakeInvNext == WakeInv /\ [Next]_vars => WakeInv'
<1>1. SUFFICES ASSUME WakeInv, [Next]_vars PROVE WakeInv'
  OBVIOUS
<1>2. HandshakeInv' /\ HandshakeInv
  BY <1>1, HandshakeInvNext DEF WakeInv
<1>3. CASE Next
  BY <1>1, <1>2, <1>3, WakeStep DEF WakeInv, HandshakeInv, FlowInv
<1>4. CASE UNCHANGED vars
  <2>1. \A e \in Sides : Still(e)
    BY <1>4 DEF vars, Still, lifeVars, windowVars, bufVars, notifyVars
  <2>. QED  BY <1>1, <1>2, <2>1, StillWakes DEF WakeInv, Wakeful
<1>. QED  BY <1>1, <1>3, <1>4

(* stream.go, Read and Write: a task blocked in its select without a token has
   nothing to do, or a call that will leave a token is under way at its end. *)
THEOREM NeverLostWakeup == Spec => []NoLostWakeup
<1>1. WakeInv => NoLostWakeup
  <2>1. ASSUME WakeInv, NEW e \in Sides, NEW r \in Readers[e], pc[e][r] = "wait", ~recvNotify[e]
        PROVE  \/ recvBuf[e] = << >> /\ state[e] \notin {"RemoteClose", "Closed", "Reset"}
               \/ \E q \in Readers[e] : pc[e][q] \in {"start", "take", "update", "send", "flush"}
    <3>1. Calm(e) \/ Busy(e) \/ Taking(e)
      BY <2>1 DEF WakeInv, Wakeful, Wakes, ReadersWake, Looking
    <3>. QED  BY <3>1 DEF Calm, Busy, Taking
  <2>2. ASSUME WakeInv, NEW e \in Sides, pc[e]["writer"] = "wait", ~sendNotify[e]
        PROVE  \/ sendWindow[e] = 0 /\ state[e] \notin {"LocalClose", "Closed", "Reset"}
               \/ pc[e]["closer"] \in {"fin", "send", "flush"}
    BY <2>2 DEF WakeInv, Wakeful, Wakes, WriterWakes, Blind, Closing
  <2>. QED  BY <2>1, <2>2 DEF NoLostWakeup
<1>. QED  BY <1>1, WakeInvInit, WakeInvNext, PTL DEF Spec
=============================================================================
