-------------------------- MODULE YamuxStreamProofs --------------------------
EXTENDS YamuxStream, SequenceTheorems, TLAPS

(* The two ends are each other's peers. *)
LEMMA PeerOf ==
    ASSUME NEW e \in Sides
    PROVE  /\ Peer(e) \in Sides /\ Peer(e) # e /\ Peer(Peer(e)) = e
           /\ \A d \in Sides : d = e \/ d = Peer(e)
  BY DEF Sides, Peer

(* Whatever is on the wire is a frame, with natural bounds. *)
LEMMA FrameOf ==
    ASSUME NEW w \in Seq(Frames), NEW i \in 1..Len(w)
    PROVE  w[i] \in Frames /\ w[i].from \in Nat /\ w[i].len \in Nat
<1>1. w[i] \in Frames
  BY ElementOfSeq
<1>. QED  BY <1>1 DEF Frames

(* recv takes the first frame: the rest stays ordered, above what it covered. *)
LEMMA OrderedTail ==
    ASSUME NEW w \in Seq(Frames), w # <<>>, NEW type, NEW lo \in Int, NEW hi \in Int,
           Ordered(w, type, lo, hi)
    PROVE  /\ Tail(w) \in Seq(Frames)
           /\ Head(w) \in Frames
           /\ Ordered(Tail(w), type, lo, hi)
           /\ Head(w).type = type =>
                 /\ lo <= Head(w).from
                 /\ Head(w).from + Head(w).len <= hi
                 /\ Ordered(Tail(w), type, Head(w).from + Head(w).len, hi)
<1>1. /\ Tail(w) \in Seq(Frames) /\ Head(w) \in Frames
      /\ Len(Tail(w)) = Len(w) - 1
      /\ Head(w) = w[1] /\ Len(w) \in Nat /\ Len(w) >= 1
      /\ \A i \in 1..Len(Tail(w)) : Tail(w)[i] = w[i + 1]
  BY HeadTailProperties, EmptySeq
<1>2. \A i \in 1..Len(w) : w[i] \in Frames /\ w[i].from \in Nat /\ w[i].len \in Nat
  BY FrameOf
<1>. QED  BY <1>1, <1>2 DEF Ordered

(* A frame that starts at the upper bound may be sent after the others. *)
LEMMA OrderedAppend ==
    ASSUME NEW w \in Seq(Frames), NEW f \in Frames, NEW type,
           NEW lo \in Int, NEW hi \in Int, NEW hi2 \in Int,
           Ordered(w, type, lo, hi), hi <= hi2,
           f.type = type => hi <= f.from /\ f.from + f.len <= hi2
    PROVE  /\ Append(w, f) \in Seq(Frames)
           /\ Ordered(Append(w, f), type, lo, hi2)
<1>1. /\ Append(w, f) \in Seq(Frames) /\ Len(Append(w, f)) = Len(w) + 1 /\ Len(w) \in Nat
      /\ Append(w, f)[Len(w) + 1] = f
      /\ \A i \in 1..Len(w) : Append(w, f)[i] = w[i]
  BY AppendProperties, LenProperties
<1>2. \A i \in 1..Len(w) : w[i] \in Frames /\ w[i].from \in Nat /\ w[i].len \in Nat
  BY FrameOf
<1>3. f.from \in Nat /\ f.len \in Nat
  BY DEF Frames
<1>4. \A i \in 1..Len(w) : w[i].type = type => w[i].from + w[i].len <= hi
  BY DEF Ordered
<1>. DEFINE v == Append(w, f)
<1>5. \A i \in 1..Len(v) : (i \in 1..Len(w) /\ v[i] = w[i]) \/ (i = Len(w) + 1 /\ v[i] = f)
  <2>. SUFFICES ASSUME NEW i \in 1..Len(v)
                PROVE  (i \in 1..Len(w) /\ v[i] = w[i]) \/ (i = Len(w) + 1 /\ v[i] = f)
    OBVIOUS
  <2>1. i \in 1..Len(w) \/ i = Len(w) + 1
    BY <1>1
  <2>. QED  BY <1>1, <2>1
<1>. HIDE DEF v
<1>6. lo <= hi2
  BY DEF Ordered
<1>7. ASSUME NEW i \in 1..Len(v), v[i].type = type
      PROVE  lo <= v[i].from /\ v[i].from + v[i].len <= hi2
  <2>1. CASE i \in 1..Len(w) /\ v[i] = w[i]
    BY <1>7, <1>2, <2>1 DEF Ordered
  <2>2. CASE v[i] = f
    BY <1>7, <1>3, <2>2 DEF Ordered
  <2>. QED  BY <1>5, <2>1, <2>2
<1>8. ASSUME NEW i \in 1..Len(v), NEW j \in 1..Len(v), i < j,
             v[i].type = type, v[j].type = type
      PROVE  v[i].from + v[i].len <= v[j].from
  <2>1. i \in 1..Len(w) /\ v[i] = w[i]
    <3>1. Len(v) = Len(w) + 1
      BY <1>1 DEF v
    <3>. QED  BY <1>1, <1>5, <1>8, <3>1
  <2>2. CASE j \in 1..Len(w) /\ v[j] = w[j]
    BY <1>8, <2>1, <2>2 DEF Ordered
  <2>3. CASE v[j] = f
    <3>1. w[i].type = type /\ f.type = type
      BY <1>8, <2>1, <2>3
    <3>2. w[i].from + w[i].len <= hi /\ hi <= f.from
      BY <1>4, <2>1, <3>1
    <3>. QED  BY <1>2, <1>3, <2>1, <2>3, <3>2
  <2>. QED  BY <1>5, <2>2, <2>3
<1>9. Ordered(v, type, lo, hi2)
  BY <1>6, <1>7, <1>8 DEF Ordered
<1>. QED  BY <1>1, <1>9 DEF v

(* A closing connection cuts the frames under way: a prefix stays ordered. *)
LEMMA OrderedPrefix ==
    ASSUME NEW w \in Seq(Frames), NEW type, NEW lo \in Int, NEW hi \in Int,
           Ordered(w, type, lo, hi), NEW n \in 0..Len(w)
    PROVE  SubSeq(w, 1, n) \in Seq(Frames) /\ Ordered(SubSeq(w, 1, n), type, lo, hi)
<1>1. /\ SubSeq(w, 1, n) \in Seq(Frames) /\ Len(SubSeq(w, 1, n)) = n /\ n \in Nat
      /\ \A i \in 1..n : SubSeq(w, 1, n)[i] = w[i] /\ i \in 1..Len(w)
  BY SubSeqProperties, LenProperties
<1>. QED  BY <1>1 DEF Ordered

(* No frames under way are ordered between any bounds. *)
LEMMA OrderedEmpty ==
    ASSUME NEW type, NEW lo \in Int, NEW hi \in Int, lo <= hi
    PROVE  << >> \in Seq(Frames) /\ Ordered(<< >>, type, lo, hi)
  BY DEF Ordered

(* The readers are none of the named tasks, and no task is called "free". *)
LEMMA TaskFacts ==
    /\ "setup" \in Tasks /\ "writer" \in Tasks /\ "closer" \in Tasks
    /\ \A e \in Sides : CtlTasks(e) \subseteq Tasks /\ Readers[e] \subseteq CtlTasks(e)
    /\ \A e \in Sides : "setup" \in CtlTasks(e) /\ "closer" \in CtlTasks(e)
    /\ "opener" \in Sides /\ "acceptor" \in Sides
<1>1. ASSUME NEW e \in Sides PROVE Readers[e] \subseteq AllReaders
  BY DEF AllReaders
<1>2. AllReaders \subseteq Tasks /\ "setup" \in Tasks /\ "writer" \in Tasks /\ "closer" \in Tasks
  BY DEF Tasks
<1>. QED  BY <1>1, <1>2 DEF CtlTasks, Sides

(* Windows and histories grow within the naturals. *)
LEMMA AddType ==
    ASSUME NEW f \in [Sides -> Nat], NEW e \in Sides, NEW n \in Nat
    PROVE  /\ [f EXCEPT ![e] = @ + n] \in [Sides -> Nat]
           /\ n <= f[e] => [f EXCEPT ![e] = @ - n] \in [Sides -> Nat]
  OBVIOUS

(* A task that moves to a location leaves pc well-typed. *)
LEMMA GotoType ==
    ASSUME TypeOK, NEW e \in Sides, NEW t \in Tasks, NEW l \in Locations, Goto(e, t, l)
    PROVE  pc' \in [Sides -> [Tasks -> Locations]]
  BY DEF TypeOK, Goto

(* Sending a frame leaves the wire well-typed. *)
LEMMA SentType ==
    ASSUME NEW w \in [Sides -> Seq(Frames)], NEW e \in Sides, NEW f \in Frames
    PROVE  Sent(w, e, f) \in [Sides -> Seq(Frames)]
<1>1. Append(w[e], f) \in Seq(Frames)
  BY AppendProperties
<1>. QED  BY <1>1 DEF Sent

(* Sending either appends one frame or, to a broken connection, none. *)
LEMMA SentWire ==
    ASSUME NEW w \in [Sides -> Seq(Frames)], NEW e \in Sides, NEW f, NEW d \in Sides
    PROVE  \/ Sent(w, e, f)[d] = w[d]
           \/ d = e /\ Sent(w, e, f)[d] = Append(w[d], f)
<1>1. Sent(w, e, f) = w \/ Sent(w, e, f) = [w EXCEPT ![e] = Append(w[e], f)]
  BY DEF Sent
<1>. QED  BY <1>1

(* What recv sees at the head of the wire is a frame, and the rest are frames. *)
LEMMA RecvType ==
    ASSUME TypeOK, NEW e \in Sides, wire[Peer(e)] # << >>
    PROVE  /\ Head(wire[Peer(e)]) \in Frames
           /\ Head(wire[Peer(e)]).len \in Nat /\ Head(wire[Peer(e)]).from \in Nat
           /\ Head(wire[Peer(e)]).flag \in Flags
           /\ Handled(e) \in [Sides -> Seq(Frames)]
           /\ [wire EXCEPT ![Peer(e)] = << >>] \in [Sides -> Seq(Frames)]
<1>1. wire[Peer(e)] \in Seq(Frames) /\ wire \in [Sides -> Seq(Frames)]
  BY PeerOf DEF TypeOK
<1>2. Head(wire[Peer(e)]) \in Frames /\ Tail(wire[Peer(e)]) \in Seq(Frames)
  BY <1>1, HeadTailProperties
<1>3. << >> \in Seq(Frames)
  BY EmptySeq
<1>. QED  BY <1>1, <1>2, <1>3 DEF Handled, Frames

(* A payload is a sequence of positions. *)
LEMMA PayloadType ==
    ASSUME NEW f \in Frames, NEW n \in Nat
    PROVE  Payload(f, n) \in Seq(Nat) /\ Len(Payload(f, n)) = n
<1>1. f.from \in Nat
  BY DEF Frames
<1>. QED  BY <1>1 DEF Payload

ErrorNames == {"nil", "ErrSessionShutdown", "EOF", "EPIPE", "ErrRead",
           "ErrDuplicateStream", "ErrUnexpectedFlag", "ErrRecvWindowExceeded"}
(* The end of a session leaves every variable well-typed. *)
LEMMA ShutdownType ==
    ASSUME TypeOK, NEW e \in Sides, NEW err \in ErrorNames,
           NEW w \in [Sides -> Seq(Frames)], Shutdown(e, err, w)
    PROVE  /\ state' \in [Sides -> StreamStates \cup {"none"}]
           /\ registered' \in [Sides -> BOOLEAN] /\ queued' \in BOOLEAN
           /\ shutdownErr' \in [Sides -> ErrorNames]
           /\ wire' \in [Sides -> Seq(Frames)]
           /\ recvNotify' \in [Sides -> BOOLEAN] /\ sendNotify' \in [Sides -> BOOLEAN]
<1>1. PICK own \in 0..Len(w[e]), held \in 0..Len(w[Peer(e)]) :
         wire' = [w EXCEPT ![e] = SubSeq(@, 1, own), ![Peer(e)] = SubSeq(@, 1, held)]
  BY DEF Shutdown
<1>2. ASSUME NEW d \in Sides, NEW n \in 0..Len(w[d])
      PROVE  SubSeq(w[d], 1, n) \in Seq(Frames)
  <2>1. w[d] \in Seq(Frames) /\ Len(w[d]) \in Nat /\ n \in Int
    BY LenProperties
  <2>2. \A i \in 1..n : w[d][i] \in Frames
    BY <2>1, ElementOfSeq
  <2>. QED  BY <2>1, <2>2, SubSeqProperties
<1>3. SubSeq(w[e], 1, own) \in Seq(Frames) /\ SubSeq(w[Peer(e)], 1, held) \in Seq(Frames)
  BY <1>2, PeerOf
<1>4. wire' \in [Sides -> Seq(Frames)]
  BY <1>1, <1>3, PeerOf
<1>5. state' \in [Sides -> StreamStates \cup {"none"}]
  BY DEF Shutdown, TypeOK, StreamStates
<1>. QED  BY <1>4, <1>5 DEF Shutdown, TypeOK, ErrorNames

(* The credit announced is a natural: a header never holds back more than was granted. *)
LEMMA AnnouncedType ==
    ASSUME TypeOK, FlowAccounts, NEW e \in Sides
    PROVE  Announced(e) \in Nat
  BY PeerOf DEF TypeOK, FlowAccounts, ReceiverAccount, Announced, Unsent

(* processFlags leaves a state of stream.go. *)
LEMMA ProcessedType ==
    ASSUME NEW s \in StreamStates \cup {"none"}, NEW flag
    PROVE  Processed(s, flag) \in StreamStates \cup {"none"}
  BY DEF Processed, StreamStates

(* Every action keeps the types. *)
LEMMA TypeStep ==
    ASSUME TypeOK, OpenedFirst, FlowAccounts, Next
    PROVE  TypeOK'
<1>1. CASE OpenCheck
  BY <1>1, TaskFacts DEF OpenCheck, TypeOK, vars, lifeVars, windowVars, bufVars, writeVars, notifyVars, streamRest, Goto, StreamStates, Locations, Unclosed, Flags
<1>2. CASE OpenRegister
  BY <1>2, TaskFacts DEF OpenRegister, TypeOK, vars, lifeVars, windowVars, bufVars, writeVars, notifyVars, streamRest, Goto, StreamStates, Locations, Unclosed, Flags
<1>3. CASE AcceptStream
  BY <1>3, TaskFacts DEF AcceptStream, TypeOK, vars, lifeVars, windowVars, bufVars, writeVars, notifyVars, streamRest, Goto, StreamStates, Locations, Unclosed, Flags
<1>4. CASE AcceptShutdown
  BY <1>4, TaskFacts DEF AcceptShutdown, TypeOK, vars, lifeVars, windowVars, bufVars, writeVars, notifyVars, streamRest, Goto, StreamStates, Locations, Unclosed, Flags
<1>5. ASSUME NEW e \in Sides, WriteCheck(e) PROVE TypeOK'
  <2>1. todo' \in [Sides -> Nat]
    <3>1. todo' = todo \/ todo' = [todo EXCEPT ![e] = 0]
      BY <1>5 DEF WriteCheck, writeVars
    <3>2. todo \in [Sides -> Nat]
      BY DEF TypeOK
    <3>. QED  BY <3>1, <3>2
  <2>2. wlen' \in [Sides -> Nat]
    <3>1. wlen \in [Sides -> Nat] /\ sendWindow[e] \in Nat /\ todo[e] \in Nat
      BY DEF TypeOK
    <3>2. MinOf(sendWindow[e], todo[e]) \in Nat
      BY <3>1 DEF MinOf
    <3>3. wlen' = wlen \/ wlen' = [wlen EXCEPT ![e] = MinOf(sendWindow[e], todo[e])]
      BY <1>5 DEF WriteCheck, writeVars
    <3>. QED  BY <3>1, <3>2, <3>3
  <2>3. pc' \in [Sides -> [Tasks -> Locations]]
    <3>1. \E l \in {"stopped", "wait", "send"} : Goto(e, "writer", l)
      BY <1>5 DEF WriteCheck
    <3>. QED  BY <3>1, TaskFacts, GotoType DEF Locations
  <2>. QED  BY <1>5, <2>1, <2>2, <2>3 DEF WriteCheck, TypeOK, lifeVars, windowVars, bufVars, writeVars, notifyVars
<1>6. ASSUME NEW e \in Sides, WriteSend(e) PROVE TypeOK'
  <2>1. wire' \in [Sides -> Seq(Frames)]
    <3>1. SendFlag(state[e]) \in Flags \ {"SYN"}
      BY <1>6 DEF WriteSend, SendFlag, Flags, OpenedFirst, Ready
    <3>2. [type |-> "data", flag |-> SendFlag(state[e]), from |-> sent[e], len |-> wlen[e]] \in Frames
      BY <3>1 DEF TypeOK, Frames
    <3>. QED  BY <1>6, <3>2, SentType DEF WriteSend, TypeOK
  <2>2. state' \in [Sides -> StreamStates \cup {"none"}] /\ sent' \in [Sides -> Nat]
    BY <1>6 DEF WriteSend, TypeOK, Flagged, StreamStates
  <2>3. pc' \in [Sides -> [Tasks -> Locations]]
    BY <1>6, TaskFacts DEF WriteSend, TypeOK, Goto, Locations
  <2>. QED  BY <1>6, <2>1, <2>2, <2>3 DEF WriteSend, TypeOK, lifeVars, windowVars, bufVars, writeVars, notifyVars
<1>7. ASSUME NEW e \in Sides, WriteSent(e) PROVE TypeOK'
  <2>1. wlen[e] \in Nat /\ wlen[e] <= sendWindow[e] /\ wlen[e] <= todo[e]
    BY DEF TypeOK, FlowAccounts, WriterBound
  <2>2. /\ sendWindow' \in [Sides -> Nat] /\ todo' \in [Sides -> Nat] /\ wlen' \in [Sides -> Nat]
    BY SMTT(30), <1>7, <2>1 DEF WriteSent, TypeOK
  <2>3. pc' \in [Sides -> [Tasks -> Locations]]
    BY <1>7, TaskFacts DEF WriteSent, TypeOK, Goto, Locations
  <2>. QED  BY <1>7, <2>2, <2>3 DEF WriteSent, TypeOK, lifeVars, windowVars, bufVars, writeVars, notifyVars
<1>8. ASSUME NEW e \in Sides, WriteFailed(e) PROVE TypeOK'
  BY <1>8, TaskFacts DEF WriteFailed, TypeOK, vars, lifeVars, windowVars, bufVars, writeVars, notifyVars, streamRest, Goto, StreamStates, Locations, Unclosed, Flags
<1>9. ASSUME NEW e \in Sides, WriteWake(e) PROVE TypeOK'
  BY <1>9, TaskFacts DEF WriteWake, TypeOK, vars, lifeVars, windowVars, bufVars, writeVars, notifyVars, streamRest, Goto, StreamStates, Locations, Unclosed, Flags
<1>10. ASSUME NEW e \in Sides, WriteCall(e) PROVE TypeOK'
  <2>1. todo' \in [Sides -> Nat]
    BY <1>10, UserAssumption DEF WriteCall, TypeOK
  <2>2. pc' \in [Sides -> [Tasks -> Locations]]
    BY <1>10, TaskFacts DEF WriteCall, TypeOK, Goto, Locations
  <2>. QED  BY <1>10, <2>1, <2>2 DEF WriteCall, TypeOK, lifeVars, windowVars, bufVars, writeVars, notifyVars
<1>11. ASSUME NEW e \in Sides, WriteTimeout(e) PROVE TypeOK'
  BY <1>11, TaskFacts DEF WriteTimeout, TypeOK, vars, lifeVars, windowVars, bufVars, writeVars, notifyVars, streamRest, Goto, StreamStates, Locations, Unclosed, Flags
<1>12. ASSUME NEW e \in Sides, CloseCall(e) PROVE TypeOK'
  <2>1. /\ state' \in [Sides -> StreamStates \cup {"none"}]
        /\ registered' \in [Sides -> BOOLEAN]
    BY <1>12 DEF CloseCall, TypeOK, StreamStates
  <2>2. pc' \in [Sides -> [Tasks -> Locations]]
    <3>1. \E l \in {"fin", "done"} : Goto(e, "closer", l)
      BY <1>12 DEF CloseCall
    <3>. QED  BY <3>1, TaskFacts, GotoType DEF Locations
  <2>. QED  BY <1>12, <2>1, <2>2 DEF CloseCall, TypeOK, lifeVars, windowVars, bufVars, writeVars, notifyVars
<1>13. ASSUME NEW e \in Sides, LoadClose(e) PROVE TypeOK'
  BY <1>13, TaskFacts DEF LoadClose, TypeOK, vars, lifeVars, windowVars, bufVars, writeVars, notifyVars, streamRest, Goto, StreamStates, Locations, Unclosed, Flags, Free
<1>14. ASSUME NEW e \in Sides, RecvSYN(e) PROVE TypeOK'
  <2>1. wire[Peer(e)] # << >>
    BY <1>14 DEF RecvSYN
  <2>3. Head(wire[Peer(e)]).len \in Nat
    BY <2>1, RecvType
  <2>2. /\ sendWindow' \in [Sides -> Nat] /\ credit' \in [Sides -> Nat]
        /\ state' \in [Sides -> StreamStates \cup {"none"}]
    <3>1. /\ sendWindow' = [sendWindow EXCEPT ![e] = @ + Head(wire[Peer(e)]).len]
          /\ credit' = [credit EXCEPT ![e] = @ + Head(wire[Peer(e)]).len]
          /\ state' = [state EXCEPT ![e] = "SYNReceived"]
      BY <1>14 DEF RecvSYN
    <3>2. sendWindow' \in [Sides -> Nat]
      BY <2>3, <3>1, AddType DEF TypeOK
    <3>3. credit' \in [Sides -> Nat]
      BY <2>3, <3>1, AddType DEF TypeOK
    <3>4. state' \in [Sides -> StreamStates \cup {"none"}]
      BY <3>1 DEF TypeOK, StreamStates
    <3>. QED  BY <3>2, <3>3, <3>4
  <2>. QED  BY <1>14, <2>1, <2>2, RecvType DEF RecvSYN, TypeOK, lifeVars, windowVars, bufVars, writeVars, notifyVars
<1>15. ASSUME NEW e \in Sides, RecvReject(e) PROVE TypeOK'
  <2>. DEFINE reset == [type |-> "window", flag |-> "RST", from |-> Announced(e), len |-> 0]
  <2>1. wire[Peer(e)] # << >> /\ wire' = Sent(Handled(e), e, reset)
    BY <1>15 DEF RecvReject
  <2>2. reset \in Frames
    BY AnnouncedType DEF Frames, Flags
  <2>3. wire' \in [Sides -> Seq(Frames)]
    BY <2>1, <2>2, RecvType, SentType
  <2>. QED  BY <1>15, <2>3 DEF RecvReject, TypeOK, lifeVars, windowVars, bufVars, writeVars, notifyVars
<1>16. ASSUME NEW e \in Sides, RecvMissing(e) PROVE TypeOK'
  BY <1>16, RecvType DEF RecvMissing, TypeOK, lifeVars, windowVars, bufVars, writeVars, notifyVars
<1>17. ASSUME NEW e \in Sides, RecvWindow(e) PROVE TypeOK'
  <2>1. wire[Peer(e)] # << >>
    BY <1>17 DEF RecvWindow
  <2>2. /\ sendWindow' \in [Sides -> Nat] /\ credit' \in [Sides -> Nat]
        /\ wire' \in [Sides -> Seq(Frames)]
    <3>1. Head(wire[Peer(e)]).len \in Nat /\ Handled(e) \in [Sides -> Seq(Frames)]
      BY <2>1, RecvType
    <3>2. /\ sendWindow' = [sendWindow EXCEPT ![e] = @ + Head(wire[Peer(e)]).len]
          /\ credit' = [credit EXCEPT ![e] = @ + Head(wire[Peer(e)]).len]
          /\ wire' = Handled(e)
      BY <1>17 DEF RecvWindow
    <3>3. sendWindow' \in [Sides -> Nat]
      BY <3>1, <3>2, AddType DEF TypeOK
    <3>4. credit' \in [Sides -> Nat]
      BY <3>1, <3>2, AddType DEF TypeOK
    <3>. QED  BY <3>1, <3>2, <3>3, <3>4
  <2>3. /\ state' \in [Sides -> StreamStates \cup {"none"}]
        /\ registered' \in [Sides -> BOOLEAN]
    BY <1>17, ProcessedType DEF RecvWindow, ProcessFlags, TypeOK
  <2>4. recvNotify' \in [Sides -> BOOLEAN] /\ sendNotify' \in [Sides -> BOOLEAN]
    BY <1>17 DEF RecvWindow, TypeOK
  <2>. QED  BY <1>17, <2>2, <2>3, <2>4 DEF RecvWindow, TypeOK, lifeVars, windowVars, bufVars, writeVars, notifyVars
<1>18. ASSUME NEW e \in Sides, RecvData(e) PROVE TypeOK'
  <2>. DEFINE frame == Head(wire[Peer(e)])
  <2>1. wire[Peer(e)] # << >> /\ frame.len \in Nat /\ recvWindow[e] \in Nat
    <3>1. wire[Peer(e)] # << >>
      BY <1>18 DEF RecvData
    <3>. QED  BY <3>1, RecvType DEF TypeOK
  <2>9. frame.len <= recvWindow[e]
    BY <1>18, <2>1 DEF RecvData, Refused
  <2>2. frame \in Frames /\ frame.len \in Nat
    BY <2>1, RecvType
  <2>3. /\ recvWindow' \in [Sides -> Nat] /\ rcvd' \in [Sides -> Nat]
        /\ wire' \in [Sides -> Seq(Frames)]
    <3>1. Handled(e) \in [Sides -> Seq(Frames)]
      BY <2>1, RecvType
    <3>2. /\ recvWindow' = [recvWindow EXCEPT ![e] = @ - frame.len]
          /\ rcvd' = [rcvd EXCEPT ![e] = @ + frame.len]
          /\ wire' = Handled(e)
      BY <1>18 DEF RecvData
    <3>3. recvWindow' \in [Sides -> Nat]
      BY <2>1, <2>9, <3>2, AddType DEF TypeOK
    <3>4. rcvd' \in [Sides -> Nat]
      BY <2>1, <3>2, AddType DEF TypeOK
    <3>. QED  BY <3>1, <3>2, <3>3, <3>4
  <2>4. /\ state' \in [Sides -> StreamStates \cup {"none"}]
        /\ registered' \in [Sides -> BOOLEAN]
    BY <1>18, ProcessedType DEF RecvData, ProcessFlags, TypeOK
  <2>5. recvBuf[e] \o Payload(frame, frame.len) \in Seq(Nat)
    BY <2>2, PayloadType, ConcatProperties DEF TypeOK
  <2>6. recvBuf' \in [Sides -> Seq(Nat)]
    BY <1>18, <2>5 DEF RecvData, TypeOK
  <2>7. recvNotify' \in [Sides -> BOOLEAN] /\ sendNotify' \in [Sides -> BOOLEAN]
    BY <1>18 DEF RecvData, TypeOK
  <2>. QED  BY <1>18, <2>3, <2>4, <2>6, <2>7 DEF RecvData, TypeOK, lifeVars, windowVars, bufVars, writeVars, notifyVars
<1>19. ASSUME NEW e \in Sides, RecvRefuse(e) PROVE TypeOK'
  <2>. DEFINE rest == [wire EXCEPT ![Peer(e)] = << >>]
  <2>1. rest \in [Sides -> Seq(Frames)]
    BY <1>19, RecvType DEF RecvRefuse
  <2>2. CASE \E err \in ErrorNames : Shutdown(e, err, rest)
    BY <1>19, <2>1, <2>2, ShutdownType DEF RecvRefuse, TypeOK, ErrorNames, streamRest, lifeVars, windowVars, bufVars, writeVars, notifyVars
  <2>3. CASE wire' = rest /\ UNCHANGED <<state, lifeVars, notifyVars>>
    BY <1>19, <2>1, <2>3 DEF RecvRefuse, TypeOK, streamRest, lifeVars, windowVars, bufVars, writeVars, notifyVars
  <2>. QED  BY <1>19, <2>2, <2>3 DEF RecvRefuse, ErrorNames
<1>20. ASSUME NEW e \in Sides, RecvShort(e) PROVE TypeOK'
  <2>. DEFINE frame == Head(wire[Peer(e)])
              rest == [wire EXCEPT ![Peer(e)] = << >>]
  <2>1. wire[Peer(e)] # << >> /\ frame.len \in Nat /\ recvWindow[e] \in Nat
    <3>1. wire[Peer(e)] # << >>
      BY <1>20 DEF RecvShort
    <3>. QED  BY <3>1, RecvType DEF TypeOK
  <2>9. frame.len <= recvWindow[e]
    BY <1>20, <2>1 DEF RecvShort, Refused
  <2>2. frame \in Frames /\ frame.len \in Nat /\ rest \in [Sides -> Seq(Frames)]
    BY <2>1, RecvType
  <2>3. PICK n \in 0..(frame.len - 1) : recvBuf' = [recvBuf EXCEPT ![e] = @ \o Payload(frame, n)]
    BY <1>20 DEF RecvShort
  <2>4. recvBuf[e] \o Payload(frame, n) \in Seq(Nat)
    <3>1. Payload(frame, n) \in Seq(Nat) /\ recvBuf[e] \in Seq(Nat)
      <4>1. n \in Nat
        BY <2>1
      <4>. QED  BY <2>2, <4>1, PayloadType DEF TypeOK
    <3>. QED  BY <3>1, ConcatProperties
  <2>5. recvBuf' \in [Sides -> Seq(Nat)]
    BY <2>3, <2>4 DEF TypeOK
  <2>6. CASE /\ recvWindow' = [recvWindow EXCEPT ![e] = @ - frame.len]
             /\ rcvd' = [rcvd EXCEPT ![e] = @ + frame.len]
             /\ recvNotify' = [recvNotify EXCEPT ![e] = TRUE]
             /\ wire' = rest
             /\ UNCHANGED <<state, lifeVars, sendNotify>>
    <3>1. recvWindow' \in [Sides -> Nat] /\ rcvd' \in [Sides -> Nat]
      <4>1. recvWindow' \in [Sides -> Nat]
        BY <2>1, <2>6, <2>9, AddType DEF TypeOK
      <4>2. rcvd' \in [Sides -> Nat]
        BY <2>1, <2>6, AddType DEF TypeOK
      <4>. QED  BY <4>1, <4>2
    <3>. QED  BY <1>20, <2>2, <2>5, <2>6, <3>1 DEF RecvShort, TypeOK, lifeVars, writeVars
  <2>7. CASE Shutdown(e, "ErrRead", rest) /\ UNCHANGED <<recvWindow, rcvd>>
    <3>1. "ErrRead" \in ErrorNames
      BY DEF ErrorNames
    <3>. QED  BY <1>20, <2>2, <2>5, <2>7, <3>1, ShutdownType DEF RecvShort, TypeOK, ErrorNames, lifeVars, windowVars, bufVars, writeVars, notifyVars
  <2>8. CASE wire' = rest /\ UNCHANGED <<state, lifeVars, recvWindow, rcvd, notifyVars>>
    BY <1>20, <2>2, <2>5, <2>8 DEF RecvShort, TypeOK, lifeVars, windowVars, bufVars, writeVars, notifyVars
  <2>. QED  BY <1>20, <2>6, <2>7, <2>8 DEF RecvShort
<1>21. ASSUME NEW e \in Sides, RecvEOF(e) PROVE TypeOK'
  <2>1. "EOF" \in ErrorNames /\ wire \in [Sides -> Seq(Frames)]
    BY DEF ErrorNames, TypeOK
  <2>. QED  BY <1>21, <2>1, ShutdownType DEF RecvEOF, TypeOK, ErrorNames, streamRest, lifeVars, windowVars, bufVars, writeVars, notifyVars
<1>22. ASSUME NEW e \in Sides, SessionClose(e) PROVE TypeOK'
  <2>1. "ErrSessionShutdown" \in ErrorNames /\ wire \in [Sides -> Seq(Frames)]
    BY DEF ErrorNames, TypeOK
  <2>. QED  BY <1>22, <2>1, ShutdownType DEF SessionClose, TypeOK, ErrorNames, streamRest, lifeVars, windowVars, bufVars, writeVars, notifyVars
<1>23. ASSUME NEW e \in Sides, SendFail(e) PROVE TypeOK'
  <2>1. "EPIPE" \in ErrorNames /\ wire \in [Sides -> Seq(Frames)]
    BY DEF ErrorNames, TypeOK
  <2>. QED  BY <1>23, <2>1, ShutdownType DEF SendFail, TypeOK, ErrorNames, streamRest, lifeVars, windowVars, bufVars, writeVars, notifyVars
<1>24. ASSUME NEW e \in Sides, NEW t \in CtlTasks(e), LoadUpdate(e, t) PROVE TypeOK'
  <2>. DEFINE delta == MaxWindow[e] - recvWindow[e]
              flag == SendFlag(state[e])
  <2>1. delta \in Nat /\ flag \in Flags
    <3>1. recvWindow[e] + ctl[e].delta <= MaxWindow[e] /\ MaxWindow[e] \in Nat
      BY WindowAssumption DEF FlowAccounts, ReceiverAccount
    <3>2. recvWindow[e] \in Nat /\ ctl[e].delta \in Nat
      BY DEF TypeOK
    <3>. QED  BY <3>1, <3>2 DEF SendFlag, Flags
  <2>2. state' \in [Sides -> StreamStates \cup {"none"}]
    BY <1>24 DEF LoadUpdate, TypeOK, Flagged, StreamStates
  <2>3. After(t) \in Locations /\ t \in Tasks
    BY TaskFacts DEF After, Locations
  <2>4. CASE Goto(e, t, After(t)) /\ ReturnNotify(e, t) /\ UNCHANGED <<ctl, granted>>
    BY <1>24, <2>2, <2>3, <2>4 DEF LoadUpdate, TypeOK, Goto, ReturnNotify, lifeVars, bufVars, writeVars
  <2>5. CASE /\ Goto(e, t, "send")
             /\ ctl' = [ctl EXCEPT ![e] = [holder |-> t, flag |-> flag, delta |-> delta]]
             /\ granted' = [granted EXCEPT ![e] = @ + delta]
             /\ UNCHANGED notifyVars
    <3>1. ctl' \in [Sides -> [holder : Tasks \cup {"free"}, flag : Flags, delta : Nat]]
      BY <2>1, <2>3, <2>5 DEF TypeOK
    <3>2. granted' \in [Sides -> Nat] /\ pc' \in [Sides -> [Tasks -> Locations]]
      BY SMTT(30), <2>1, <2>3, <2>5 DEF TypeOK, Goto, Locations
    <3>. QED  BY <1>24, <2>2, <2>5, <3>1, <3>2 DEF LoadUpdate, TypeOK, lifeVars, bufVars, writeVars, notifyVars
  <2>. QED  BY <1>24, <2>4, <2>5 DEF LoadUpdate
<1>25. ASSUME NEW e \in Sides, NEW t \in CtlTasks(e), SendControl(e, t) PROVE TypeOK'
  <2>1. [type |-> "window", flag |-> ctl[e].flag, from |-> Announced(e), len |-> ctl[e].delta] \in Frames
    BY AnnouncedType DEF Frames, TypeOK
  <2>2. wire' \in [Sides -> Seq(Frames)]
    BY <1>25, <2>1, SentType DEF SendControl, TypeOK
  <2>3. pc' \in [Sides -> [Tasks -> Locations]]
    BY <1>25, TaskFacts DEF SendControl, TypeOK, Goto, Locations
  <2>. QED  BY <1>25, <2>2, <2>3 DEF SendControl, TypeOK, lifeVars, windowVars, bufVars, writeVars, notifyVars
<1>26. ASSUME NEW e \in Sides, NEW t \in CtlTasks(e), ControlSent(e, t) PROVE TypeOK'
  <2>1. Free \in [holder : Tasks \cup {"free"}, flag : Flags, delta : Nat]
    BY DEF Free, Flags
  <2>2. ctl' \in [Sides -> [holder : Tasks \cup {"free"}, flag : Flags, delta : Nat]]
    BY <1>26, <2>1 DEF ControlSent, TypeOK
  <2>3. recvWindow' \in [Sides -> Nat]
    BY <1>26 DEF ControlSent, TypeOK
  <2>4. After(t) \in Locations /\ t \in Tasks
    BY TaskFacts DEF After, Locations
  <2>5. pc' \in [Sides -> [Tasks -> Locations]]
    BY <1>26, <2>4 DEF ControlSent, TypeOK, Goto
  <2>. QED  BY <1>26, <2>2, <2>3, <2>5 DEF ControlSent, TypeOK, ReturnNotify, lifeVars, bufVars, writeVars
<1>27. ASSUME NEW e \in Sides, NEW t \in CtlTasks(e), ControlFailed(e, t) PROVE TypeOK'
  BY <1>27, TaskFacts DEF ControlFailed, TypeOK, vars, lifeVars, windowVars, bufVars, writeVars, notifyVars, streamRest, Goto, StreamStates, Locations, Unclosed, Flags, Failed, ReturnNotify, Free
<1>28. ASSUME NEW e \in Sides, NEW r \in Readers[e], ReadCheck(e, r) PROVE TypeOK'
  BY <1>28, TaskFacts DEF ReadCheck, TypeOK, vars, lifeVars, windowVars, bufVars, writeVars, notifyVars, streamRest, Goto, StreamStates, Locations, Unclosed, Flags
<1>29. ASSUME NEW e \in Sides, NEW r \in Readers[e], ReadTake(e, r) PROVE TypeOK'
  <2>1. pc' \in [Sides -> [Tasks -> Locations]]
    <3>1. \E l \in {"wait", "update"} : Goto(e, r, l)
      BY <1>29 DEF ReadTake
    <3>2. r \in Tasks
      BY TaskFacts
    <3>. QED  BY <3>1, <3>2, GotoType DEF Locations
  <2>2. recvBuf' \in [Sides -> Seq(Nat)] /\ delivered' \in [Sides -> Seq(Nat)]
    <3>1. CASE UNCHANGED bufVars
      BY <3>1 DEF TypeOK, bufVars
    <3>2. ASSUME NEW n \in 1..Len(recvBuf[e]),
                 delivered' = [delivered EXCEPT ![e] = @ \o SubSeq(recvBuf[e], 1, n)],
                 recvBuf' = [recvBuf EXCEPT ![e] = SubSeq(@, n + 1, Len(@))]
          PROVE  recvBuf' \in [Sides -> Seq(Nat)] /\ delivered' \in [Sides -> Seq(Nat)]
      <4>1. recvBuf[e] \in Seq(Nat) /\ delivered[e] \in Seq(Nat) /\ Len(recvBuf[e]) \in Nat
        BY LenProperties DEF TypeOK
      <4>2. \A i \in 1..Len(recvBuf[e]) : recvBuf[e][i] \in Nat
        BY <4>1, ElementOfSeq
      <4>3. SubSeq(recvBuf[e], 1, n) \in Seq(Nat)
        BY <4>1, <4>2, SubSeqProperties
      <4>4. SubSeq(recvBuf[e], n + 1, Len(recvBuf[e])) \in Seq(Nat)
        BY <4>1, <4>2, SubSeqProperties
      <4>5. delivered[e] \o SubSeq(recvBuf[e], 1, n) \in Seq(Nat)
        BY <4>1, <4>3, ConcatProperties
      <4>. QED  BY <3>2, <4>4, <4>5 DEF TypeOK
    <3>. QED  BY <1>29, <3>1, <3>2 DEF ReadTake
  <2>. QED  BY <1>29, <2>1, <2>2 DEF ReadTake, TypeOK, lifeVars, windowVars, bufVars, writeVars, notifyVars
<1>30. ASSUME NEW e \in Sides, NEW r \in Readers[e], ReadWake(e, r) PROVE TypeOK'
  BY <1>30, TaskFacts DEF ReadWake, TypeOK, vars, lifeVars, windowVars, bufVars, writeVars, notifyVars, streamRest, Goto, StreamStates, Locations, Unclosed, Flags
<1>31. ASSUME NEW e \in Sides, NEW r \in Readers[e], ReadTimeout(e, r) PROVE TypeOK'
  BY <1>31, TaskFacts DEF ReadTimeout, TypeOK, vars, lifeVars, windowVars, bufVars, writeVars, notifyVars, streamRest, Goto, StreamStates, Locations, Unclosed, Flags
<1>32. ASSUME NEW e \in Sides, NEW r \in Readers[e], ReadCall(e, r) PROVE TypeOK'
  BY <1>32, TaskFacts DEF ReadCall, TypeOK, vars, lifeVars, windowVars, bufVars, writeVars, notifyVars, streamRest, Goto, StreamStates, Locations, Unclosed, Flags
<1>. QED  BY <1>1, <1>2, <1>3, <1>4, <1>5, <1>6, <1>7, <1>8, <1>9, <1>10, <1>11, <1>12, <1>13, <1>14, <1>15, <1>16, <1>17, <1>18, <1>19, <1>20, <1>21, <1>22, <1>23, <1>24, <1>25, <1>26, <1>27, <1>28, <1>29, <1>30, <1>31, <1>32 DEF Next, Setup, Write, Recv, Control, Read

-----------------------------------------------------------------------------
(* What the accounts need to know of a step that only moves a task. *)

LEMMA NotWriter ==
    ASSUME NEW e \in Sides, NEW t \in CtlTasks(e)
    PROVE  t # "writer" /\ t # "free" /\ t \in Tasks
  BY ReaderAssumption, TaskFacts DEF CtlTasks

(* pc after a task has moved: that task's location, and nobody else's. *)
LEMMA Moved ==
    ASSUME TypeOK, NEW e \in Sides, NEW t \in Tasks, NEW l, Goto(e, t, l)
    PROVE  /\ pc'[e][t] = l
           /\ \A d \in Sides : \A u \in Tasks : d # e \/ u # t => pc'[d][u] = pc[d][u]
  BY DEF TypeOK, Goto

(* A task that neither takes nor gives up controlHdrLock leaves its account alone. *)
LEMMA LockKept ==
    ASSUME TypeOK, CtlLock, NEW e \in Sides, NEW t \in Tasks, NEW l, Goto(e, t, l), ctl' = ctl,
           \/ t = "writer"
           \/ pc[e][t] \notin {"send", "flush"} /\ l \notin {"send", "flush"}
           \/ pc[e][t] = "send" /\ l = "flush"
    PROVE  CtlLock'
<1>1. ASSUME NEW d \in Sides, NEW u \in CtlTasks(d)
      PROVE  pc'[d][u] \in {"send", "flush"} <=> ctl'[d].holder = u
  <2>1. u \in Tasks /\ u # "writer"
    BY NotWriter
  <2>2. pc[d][u] \in {"send", "flush"} <=> ctl[d].holder = u
    BY DEF CtlLock
  <2>3. CASE d = e /\ u = t
    BY <2>1, <2>2, <2>3, Moved
  <2>4. CASE d # e \/ u # t
    BY <2>1, <2>2, <2>4, Moved
  <2>. QED  BY <2>3, <2>4
<1>. QED  BY <1>1 DEF CtlLock, Free

(* The task that takes a free controlHdrLock is its only holder. *)
LEMMA LockTaken ==
    ASSUME TypeOK, CtlLock, NEW e \in Sides, NEW t \in CtlTasks(e), NEW flag, NEW delta,
           ctl[e] = Free, Goto(e, t, "send"),
           ctl' = [ctl EXCEPT ![e] = [holder |-> t, flag |-> flag, delta |-> delta]]
    PROVE  CtlLock'
<1>1. t \in Tasks /\ t # "free"
  BY NotWriter
<1>2. /\ ctl'[e] = [holder |-> t, flag |-> flag, delta |-> delta]
      /\ \A d \in Sides : d # e => ctl'[d] = ctl[d]
  BY DEF TypeOK
<1>3. ASSUME NEW d \in Sides, NEW u \in CtlTasks(d)
      PROVE  pc'[d][u] \in {"send", "flush"} <=> ctl'[d].holder = u
  <2>1. u \in Tasks /\ u # "free"
    BY NotWriter
  <2>2. pc[d][u] \in {"send", "flush"} <=> ctl[d].holder = u
    BY DEF CtlLock
  <2>3. CASE d # e
    BY <1>1, <1>2, <2>1, <2>2, <2>3, Moved
  <2>4. CASE d = e /\ u = t
    BY <1>1, <1>2, <2>4, Moved
  <2>5. CASE d = e /\ u # t
    BY <1>1, <1>2, <2>1, <2>2, <2>5, Moved DEF Free
  <2>. QED  BY <2>3, <2>4, <2>5
<1>4. \A d \in Sides : /\ ctl'[d].holder \in CtlTasks(d) \cup {"free"}
                       /\ ctl'[d].holder = "free" => ctl'[d] = Free
  BY <1>1, <1>2 DEF CtlLock
<1>. QED  BY <1>3, <1>4 DEF CtlLock, Free

(* The holder gives controlHdrLock up and sends no longer. *)
LEMMA LockReleased ==
    ASSUME TypeOK, CtlLock, NEW e \in Sides, NEW t \in CtlTasks(e), NEW l,
           pc[e][t] \in {"send", "flush"}, l \notin {"send", "flush"}, Goto(e, t, l),
           ctl'[e] = Free, \A d \in Sides : d # e => ctl'[d] = ctl[d]
    PROVE  CtlLock'
<1>1. t \in Tasks /\ t # "free" /\ ctl[e].holder = t
  BY NotWriter DEF CtlLock
<1>2. ctl'[e] = Free /\ \A d \in Sides : d # e => ctl'[d] = ctl[d]
  OBVIOUS
<1>3. ASSUME NEW d \in Sides, NEW u \in CtlTasks(d)
      PROVE  pc'[d][u] \in {"send", "flush"} <=> ctl'[d].holder = u
  <2>1. u \in Tasks /\ u # "free"
    BY NotWriter
  <2>2. pc[d][u] \in {"send", "flush"} <=> ctl[d].holder = u
    BY DEF CtlLock
  <2>3. CASE d # e
    BY <1>1, <1>2, <2>1, <2>2, <2>3, Moved
  <2>4. CASE d = e /\ u = t
    BY <1>1, <1>2, <2>1, <2>4, Moved DEF Free
  <2>5. CASE d = e /\ u # t
    BY <1>1, <1>2, <2>1, <2>2, <2>5, Moved DEF Free
  <2>. QED  BY <2>3, <2>4, <2>5
<1>4. \A d \in Sides : /\ ctl'[d].holder \in CtlTasks(d) \cup {"free"}
                       /\ ctl'[d].holder = "free" => ctl'[d] = Free
  BY <1>2 DEF CtlLock, Free
<1>. QED  BY <1>3, <1>4 DEF CtlLock, Free

(* Tasks that do not hold the header do not change what is announced. *)
LEMMA AnnouncedKept ==
    ASSUME TypeOK, CtlLock, NEW e \in Sides, NEW t \in Tasks, NEW l, Goto(e, t, l),
           ctl' = ctl, granted' = granted,
           t = "writer" \/ pc[e][t] \notin {"send", "flush"}
    PROVE  \A d \in Sides : Announced(d)' = Announced(d)
<1>. SUFFICES ASSUME NEW d \in Sides PROVE Announced(d)' = Announced(d)
  OBVIOUS
<1>1. CASE ctl[d].holder = "free"
  BY <1>1 DEF Announced, Unsent, Sending
<1>2. CASE ctl[d].holder # "free"
  <2>. DEFINE h == ctl[d].holder
  <2>1. h \in CtlTasks(d) /\ pc[d][h] \in {"send", "flush"}
    BY <1>2 DEF CtlLock
  <2>2. h \in Tasks /\ h # "writer"
    BY <2>1, NotWriter
  <2>3. pc'[d][h] = pc[d][h]
    BY <2>1, <2>2, Moved
  <2>. QED  BY <2>3 DEF Announced, Unsent, Sending
<1>. QED  BY <1>1, <1>2

(* Ordered frames stay ordered under wider bounds. *)
LEMMA OrderedWeaken ==
    ASSUME NEW w \in Seq(Frames), NEW type, NEW lo \in Int, NEW hi \in Int,
           NEW lo2 \in Int, NEW hi2 \in Int, lo2 <= lo, hi <= hi2, Ordered(w, type, lo, hi)
    PROVE  Ordered(w, type, lo2, hi2)
<1>1. lo2 <= hi2
  <2>1. lo <= hi
    BY DEF Ordered
  <2>. QED  BY <2>1
<1>2. ASSUME NEW i \in 1..Len(w), w[i].type = type
      PROVE  lo2 <= w[i].from /\ w[i].from + w[i].len <= hi2
  <2>1. w[i].from \in Nat /\ w[i].len \in Nat
    BY FrameOf
  <2>2. lo <= w[i].from /\ w[i].from + w[i].len <= hi
    BY <1>2 DEF Ordered
  <2>. QED  BY <2>1, <2>2
<1>3. \A i, j \in 1..Len(w) :
         i < j /\ w[i].type = type /\ w[j].type = type => w[i].from + w[i].len <= w[j].from
  BY DEF Ordered
<1>. QED  BY <1>1, <1>2, <1>3 DEF Ordered

(* The numbers the accounts are about. *)
LEMMA Numbers ==
    ASSUME TypeOK, FlowAccounts, NEW e \in Sides
    PROVE  /\ sent[e] \in Nat /\ rcvd[e] \in Nat /\ granted[e] \in Nat /\ credit[e] \in Nat
           /\ sendWindow[e] \in Nat /\ recvWindow[e] \in Nat /\ wlen[e] \in Nat /\ todo[e] \in Nat
           /\ ctl[e].delta \in Nat /\ Announced(e) \in Nat
           /\ MaxWindow[e] \in Nat /\ Window \in Nat
           /\ wire[e] \in Seq(Frames)
  BY AnnouncedType, WindowAssumption DEF TypeOK

(* A control task that is not sending moves. *)
LEMMA QuietStep ==
    ASSUME TypeOK, FlowAccounts, NEW e \in Sides, NEW t \in CtlTasks(e), NEW l, Goto(e, t, l),
           pc[e][t] \notin {"send", "flush"}, l \notin {"send", "flush"},
           UNCHANGED <<ctl, wire, windowVars, writeVars, shutdownErr>>
    PROVE  FlowAccounts'
<1>1. t \in Tasks /\ t # "writer"
  BY NotWriter
<1>2. \A d \in Sides : pc'[d]["writer"] = pc[d]["writer"]
  BY <1>1, Moved, TaskFacts
<1>3. CtlLock'
  BY <1>1, LockKept DEF FlowAccounts
<1>4. WriterBound' /\ SenderAccount'
  BY <1>2 DEF FlowAccounts, WriterBound, SenderAccount, Shut, windowVars, writeVars
<1>5. ReceiverAccount' /\ DataOrder'
  BY DEF FlowAccounts, ReceiverAccount, DataOrder, Shut, windowVars
<1>6. \A d \in Sides : Announced(d)' = Announced(d)
  BY <1>1, AnnouncedKept DEF FlowAccounts, windowVars
<1>7. CreditOrder'
  BY <1>6 DEF FlowAccounts, CreditOrder, windowVars
<1>. QED  BY <1>3, <1>4, <1>5, <1>7 DEF FlowAccounts

(* The writer moves, but neither sends nor returns from a send that worked. *)
LEMMA WriterStep ==
    ASSUME TypeOK, FlowAccounts, NEW e \in Sides, NEW l, Goto(e, "writer", l),
           pc[e]["writer"] # "flush" \/ Shut(e), l # "flush",
           UNCHANGED <<ctl, wire, windowVars, shutdownErr>>,
           \A d \in Sides : d # e => wlen'[d] = wlen[d] /\ todo'[d] = todo[d],
           wlen'[e] <= sendWindow[e], wlen'[e] <= todo'[e],
           l # "send" => wlen'[e] = 0
    PROVE  FlowAccounts'
<1>1. /\ pc'[e]["writer"] = l
      /\ \A d \in Sides : d # e => pc'[d]["writer"] = pc[d]["writer"]
  BY Moved, TaskFacts
<1>2. CtlLock'
  BY TaskFacts, LockKept DEF FlowAccounts
<1>3. WriterBound'
  BY <1>1 DEF FlowAccounts, WriterBound, windowVars
<1>4. SenderAccount'
  <2>1. ASSUME NEW d \in Sides
        PROVE  /\ ~Shut(d)' => sendWindow'[d] + sent'[d] =
                     Window + credit'[d] + (IF pc'[d]["writer"] = "flush" THEN wlen'[d] ELSE 0)
               /\ sent'[d] <= Window + credit'[d]
    BY <1>1 DEF FlowAccounts, SenderAccount, Shut, windowVars
  <2>. QED  BY <2>1 DEF SenderAccount, Shut
<1>5. ReceiverAccount' /\ DataOrder'
  BY DEF FlowAccounts, ReceiverAccount, DataOrder, Shut, windowVars
<1>6. \A d \in Sides : Announced(d)' = Announced(d)
  BY TaskFacts, AnnouncedKept DEF FlowAccounts, windowVars
<1>7. CreditOrder'
  BY <1>6 DEF FlowAccounts, CreditOrder, windowVars
<1>. QED  BY <1>2, <1>3, <1>4, <1>5, <1>7 DEF FlowAccounts

(* A data frame goes into sendCh: sent grows, the window does not yet shrink. *)
LEMMA WriteSendFlow ==
    ASSUME TypeOK, OpenedFirst, FlowAccounts, NEW e \in Sides, WriteSend(e)
    PROVE  FlowAccounts'
<1>. DEFINE f == [type |-> "data", flag |-> SendFlag(state[e]), from |-> sent[e], len |-> wlen[e]]
<1>1. /\ pc[e]["writer"] = "send" /\ ~Shut(e) /\ Goto(e, "writer", "flush")
      /\ wire' = Sent(wire, e, f)
      /\ sent' = [sent EXCEPT ![e] = @ + wlen[e]]
      /\ UNCHANGED <<lifeVars, sendWindow, recvWindow, rcvd, granted, credit, ctl, writeVars>>
  BY DEF WriteSend
<1>2. /\ pc'[e]["writer"] = "flush"
      /\ \A d \in Sides : d # e => pc'[d]["writer"] = pc[d]["writer"]
  BY <1>1, Moved, TaskFacts
<1>3. /\ sent'[e] = sent[e] + wlen[e]
      /\ \A d \in Sides : d # e => sent'[d] = sent[d]
  BY <1>1 DEF TypeOK
<1>4. CtlLock'
  BY <1>1, TaskFacts, LockKept DEF FlowAccounts
<1>5. WriterBound'
  BY <1>1, <1>2 DEF FlowAccounts, WriterBound, writeVars
<1>6. SenderAccount'
  <2>1. ASSUME NEW d \in Sides
        PROVE  /\ ~Shut(d)' => sendWindow'[d] + sent'[d] =
                     Window + credit'[d] + (IF pc'[d]["writer"] = "flush" THEN wlen'[d] ELSE 0)
               /\ sent'[d] <= Window + credit'[d]
    <3>1. CASE d # e
      BY <1>1, <1>2, <1>3, <3>1 DEF FlowAccounts, SenderAccount, Shut, lifeVars, writeVars
    <3>2. CASE d = e
      <4>1. sendWindow[e] + sent[e] = Window + credit[e] /\ wlen[e] <= sendWindow[e]
        BY SMTT(30), <1>1, Numbers DEF FlowAccounts, SenderAccount, WriterBound
      <4>. QED  BY <1>1, <1>2, <1>3, <3>2, <4>1, Numbers DEF writeVars
    <3>. QED  BY <3>1, <3>2
  <2>. QED  BY <2>1 DEF SenderAccount, Shut
<1>7. ReceiverAccount'
  BY <1>1 DEF FlowAccounts, ReceiverAccount, Shut, lifeVars
<1>8. \A d \in Sides : Announced(d)' = Announced(d)
  BY <1>1, TaskFacts, AnnouncedKept DEF FlowAccounts
<1>9. f \in Frames /\ f.type = "data" /\ f.from = sent[e] /\ f.len = wlen[e]
  <2>1. SendFlag(state[e]) \in Flags \ {"SYN"}
    BY <1>1 DEF SendFlag, Flags, OpenedFirst, Ready
  <2>. QED  BY <2>1, Numbers DEF Frames
<1>10. \A d \in Sides : wire'[d] = wire[d] \/ (d = e /\ wire'[d] = Append(wire[d], f))
  <2>1. wire \in [Sides -> Seq(Frames)]
    BY DEF TypeOK
  <2>. QED  BY <1>1, <2>1, SentWire
<1>11. ASSUME NEW d \in Sides
       PROVE  /\ Ordered(wire'[d], "data", rcvd[Peer(d)], sent'[d])
              /\ Ordered(wire'[d], "window", credit[Peer(d)], Announced(d))
  <2>1. /\ Ordered(wire[d], "data", rcvd[Peer(d)], sent[d])
        /\ Ordered(wire[d], "window", credit[Peer(d)], Announced(d))
    BY DEF FlowAccounts, DataOrder, CreditOrder
  <2>2. /\ wire[d] \in Seq(Frames) /\ rcvd[Peer(d)] \in Int /\ sent[d] \in Int /\ sent'[d] \in Int
        /\ credit[Peer(d)] \in Int /\ Announced(d) \in Int /\ sent[d] <= sent'[d]
    BY <1>3, Numbers, PeerOf
  <2>3. CASE wire'[d] = wire[d]
    BY <2>1, <2>2, <2>3, OrderedWeaken
  <2>4. CASE d = e /\ wire'[d] = Append(wire[d], f)
    <3>1. sent[d] <= f.from /\ f.from + f.len <= sent'[d]
      BY <1>3, <1>9, <2>2, <2>4
    <3>2. Ordered(Append(wire[d], f), "data", rcvd[Peer(d)], sent'[d])
      BY <1>9, <2>1, <2>2, <3>1, OrderedAppend
    <3>3. Ordered(Append(wire[d], f), "window", credit[Peer(d)], Announced(d))
      BY <1>9, <2>1, <2>2, OrderedAppend
    <3>. QED  BY <2>4, <3>2, <3>3
  <2>. QED  BY <1>10, <2>3, <2>4
<1>12. DataOrder' /\ CreditOrder'
  BY <1>1, <1>8, <1>11 DEF DataOrder, CreditOrder
<1>. QED  BY <1>4, <1>5, <1>6, <1>7, <1>12 DEF FlowAccounts

(* The send returned: the window shrinks by the frame's length. *)
LEMMA WriteSentFlow ==
    ASSUME TypeOK, FlowAccounts, NEW e \in Sides, WriteSent(e)
    PROVE  FlowAccounts'
<1>. DEFINE l == IF todo[e] = wlen[e] THEN "idle" ELSE "start"
<1>1. /\ pc[e]["writer"] = "flush" /\ Goto(e, "writer", l)
      /\ UNCHANGED <<lifeVars, wire, recvWindow, sent, rcvd, granted, credit, ctl>>
  BY DEF WriteSent
<1>2. /\ sendWindow'[e] = sendWindow[e] - wlen[e]
      /\ todo'[e] = todo[e] - wlen[e] /\ wlen'[e] = 0
      /\ \A d \in Sides : d # e => /\ sendWindow'[d] = sendWindow[d]
                                   /\ todo'[d] = todo[d] /\ wlen'[d] = wlen[d]
  BY DEF WriteSent, TypeOK
<1>3. /\ pc'[e]["writer"] \in {"idle", "start"}
      /\ \A d \in Sides : d # e => pc'[d]["writer"] = pc[d]["writer"]
  BY <1>1, Moved, TaskFacts
<1>4. CtlLock'
  BY <1>1, TaskFacts, LockKept DEF FlowAccounts
<1>5. WriterBound'
  <2>1. wlen[e] <= sendWindow[e] /\ wlen[e] <= todo[e]
    BY DEF FlowAccounts, WriterBound
  <2>2. wlen[e] \in Nat /\ sendWindow[e] \in Nat /\ todo[e] \in Nat
    BY Numbers
  <2>. QED  BY <1>2, <1>3, <2>1, <2>2 DEF FlowAccounts, WriterBound
<1>6. SenderAccount'
  <2>1. ASSUME NEW d \in Sides
        PROVE  /\ ~Shut(d)' => sendWindow'[d] + sent'[d] =
                     Window + credit'[d] + (IF pc'[d]["writer"] = "flush" THEN wlen'[d] ELSE 0)
               /\ sent'[d] <= Window + credit'[d]
    <3>1. CASE d # e
      BY <1>1, <1>2, <1>3, <3>1 DEF FlowAccounts, SenderAccount, Shut, lifeVars
    <3>2. CASE d = e
      <4>1. /\ ~Shut(e) => sendWindow[e] + sent[e] = Window + credit[e] + wlen[e]
            /\ sent[e] <= Window + credit[e]
        BY <1>1 DEF FlowAccounts, SenderAccount
      <4>2. shutdownErr' = shutdownErr /\ sent' = sent /\ credit' = credit
        BY <1>1 DEF lifeVars
      <4>3. pc'[e]["writer"] # "flush"
        BY <1>3
      <4>4. sendWindow'[e] + sent'[e] = sendWindow[e] + sent[e] - wlen[e]
        BY <1>1, <1>2, Numbers
      <4>5. /\ sendWindow[e] \in Nat /\ sent[e] \in Nat /\ wlen[e] \in Nat /\ credit[e] \in Nat
            /\ Window \in Nat
        BY Numbers
      <4>6. ~Shut(e) => sendWindow'[e] + sent'[e] = Window + credit[e]
        BY <4>1, <4>4, <4>5
      <4>. QED  BY <3>2, <4>1, <4>2, <4>3, <4>5, <4>6 DEF Shut
    <3>. QED  BY <3>1, <3>2
  <2>. QED  BY <2>1 DEF SenderAccount, Shut
<1>7. ReceiverAccount' /\ DataOrder'
  BY <1>1 DEF FlowAccounts, ReceiverAccount, DataOrder, Shut, lifeVars
<1>8. \A d \in Sides : Announced(d)' = Announced(d)
  BY <1>1, TaskFacts, AnnouncedKept DEF FlowAccounts
<1>9. CreditOrder'
  BY <1>1, <1>8 DEF FlowAccounts, CreditOrder
<1>. QED  BY <1>4, <1>5, <1>6, <1>7, <1>9 DEF FlowAccounts

-----------------------------------------------------------------------------
(* Control frames *)

(* sendWindowUpdate has its header: the credit is granted, not announced. *)
LEMMA UpdateLoadedFlow ==
    ASSUME TypeOK, FlowAccounts, NEW e \in Sides, NEW t \in CtlTasks(e), NEW flag, NEW delta \in Nat,
           delta = 0 \/ delta = MaxWindow[e] - recvWindow[e],
           pc[e][t] \notin {"send", "flush"}, ctl[e] = Free, Goto(e, t, "send"),
           ctl' = [ctl EXCEPT ![e] = [holder |-> t, flag |-> flag, delta |-> delta]],
           granted' = [granted EXCEPT ![e] = @ + delta],
           UNCHANGED <<shutdownErr, wire, sendWindow, recvWindow, sent, rcvd, credit, writeVars>>
    PROVE  FlowAccounts'
<1>1. t \in Tasks /\ t # "writer" /\ t # "free"
  BY NotWriter
<1>2. \A d \in Sides : pc'[d]["writer"] = pc[d]["writer"]
  BY <1>1, Moved, TaskFacts
<1>3. /\ ctl'[e].delta = delta /\ ctl'[e].holder = t
      /\ granted'[e] = granted[e] + delta
      /\ pc'[e][t] = "send"
      /\ \A d \in Sides : d # e => ctl'[d] = ctl[d] /\ granted'[d] = granted[d]
  BY ZenonT(30), <1>1, Moved DEF TypeOK
<1>4. ctl[e].delta = 0 /\ ctl[e].holder = "free"
  BY DEF Free
<1>5. CtlLock'
  BY LockTaken DEF FlowAccounts
<1>6. WriterBound' /\ SenderAccount' /\ DataOrder'
  BY <1>2 DEF FlowAccounts, WriterBound, SenderAccount, DataOrder, Shut, writeVars
<1>7. ReceiverAccount'
  <2>1. ASSUME NEW d \in Sides
        PROVE  /\ ~Shut(d)' => recvWindow'[d] + ctl'[d].delta + rcvd'[d] = Window + granted'[d]
               /\ recvWindow'[d] + ctl'[d].delta <= MaxWindow[d]
               /\ ctl'[d].delta <= granted'[d]
    <3>1. /\ ~Shut(d) => recvWindow[d] + ctl[d].delta + rcvd[d] = Window + granted[d]
          /\ recvWindow[d] + ctl[d].delta <= MaxWindow[d]
          /\ ctl[d].delta <= granted[d]
      BY DEF FlowAccounts, ReceiverAccount
    <3>2. CASE d # e
      BY <1>3, <3>1, <3>2 DEF Shut
    <3>3. CASE d = e
      <4>1. /\ recvWindow[e] \in Nat /\ rcvd[e] \in Nat /\ granted[e] \in Nat
            /\ MaxWindow[e] \in Nat /\ Window \in Nat
        BY Numbers
      <4>2. recvWindow[e] + delta <= MaxWindow[e] /\ delta <= granted'[e]
        BY <1>3, <1>4, <3>1, <3>3, <4>1
      <4>3. ~Shut(e) => recvWindow[e] + delta + rcvd[e] = Window + granted'[e]
        BY <1>3, <1>4, <3>1, <3>3, <4>1
      <4>. QED  BY <1>3, <3>3, <4>2, <4>3 DEF Shut
    <3>. QED  BY <3>2, <3>3
  <2>. QED  BY <2>1 DEF ReceiverAccount, Shut
<1>8. ASSUME NEW d \in Sides PROVE Announced(d)' = Announced(d)
  <2>1. CASE d = e
    <3>1. Announced(e) = granted[e]
      BY <1>4, Numbers DEF Announced, Unsent, Sending
    <3>2. Announced(e)' = granted'[e] - delta
      BY <1>1, <1>3 DEF Announced, Unsent, Sending
    <3>. QED  BY <1>3, <2>1, <3>1, <3>2, Numbers
  <2>2. CASE d # e
    <3>1. \A u \in Tasks : pc'[d][u] = pc[d][u]
      BY <1>1, <2>2, Moved
    <3>2. ctl[d].holder = "free" \/ ctl[d].holder \in Tasks
      BY DEF TypeOK
    <3>. QED  BY <1>3, <2>2, <3>1, <3>2 DEF Announced, Unsent, Sending
  <2>. QED  BY <2>1, <2>2
<1>9. CreditOrder'
  BY <1>8 DEF FlowAccounts, CreditOrder
<1>. QED  BY <1>5, <1>6, <1>7, <1>9 DEF FlowAccounts

(* sendWindowUpdate up to its header keeps the accounts, update or none. *)
LEMMA LoadUpdateFlow ==
    ASSUME TypeOK, FlowAccounts, NEW e \in Sides, NEW t \in CtlTasks(e), LoadUpdate(e, t)
    PROVE  FlowAccounts'
<1>. DEFINE delta == MaxWindow[e] - recvWindow[e]
            flag == SendFlag(state[e])
<1>1. /\ pc[e][t] = "update" /\ ctl[e] = Free
      /\ UNCHANGED <<lifeVars, wire, sendWindow, recvWindow, sent, rcvd, credit, writeVars>>
  BY DEF LoadUpdate
<1>2. delta \in Nat
  <2>1. recvWindow[e] + ctl[e].delta <= MaxWindow[e]
    BY DEF FlowAccounts, ReceiverAccount
  <2>. QED  BY <2>1, Numbers
<1>3. CASE Goto(e, t, After(t)) /\ UNCHANGED <<ctl, granted>>
  <2>1. After(t) \notin {"send", "flush"}
    BY DEF After
  <2>. QED  BY <1>1, <1>3, <2>1, QuietStep DEF windowVars, lifeVars
<1>4. CASE /\ Goto(e, t, "send")
           /\ ctl' = [ctl EXCEPT ![e] = [holder |-> t, flag |-> flag, delta |-> delta]]
           /\ granted' = [granted EXCEPT ![e] = @ + delta]
  BY <1>1, <1>2, <1>4, UpdateLoadedFlow DEF lifeVars
<1>. QED  BY <1>3, <1>4 DEF LoadUpdate

(* sendClose takes the header for a FIN, which grants nothing. *)
LEMMA LoadCloseFlow ==
    ASSUME TypeOK, FlowAccounts, NEW e \in Sides, LoadClose(e)
    PROVE  FlowAccounts'
<1>1. /\ pc[e]["closer"] = "fin" /\ ctl[e] = Free /\ Goto(e, "closer", "send")
      /\ ctl' = [ctl EXCEPT ![e] = [holder |-> "closer", flag |-> "FIN", delta |-> 0]]
      /\ UNCHANGED <<lifeVars, wire, windowVars, writeVars>>
  BY DEF LoadClose
<1>2. granted' = [granted EXCEPT ![e] = @ + 0]
  BY <1>1 DEF TypeOK, windowVars
<1>. QED  BY <1>1, <1>2, TaskFacts, UpdateLoadedFlow DEF lifeVars, windowVars

(* The header goes into sendCh: the credit it carries is announced. *)
LEMMA SendControlFlow ==
    ASSUME TypeOK, FlowAccounts, NEW e \in Sides, NEW t \in CtlTasks(e), SendControl(e, t)
    PROVE  FlowAccounts'
<1>. DEFINE f == [type |-> "window", flag |-> ctl[e].flag, from |-> Announced(e), len |-> ctl[e].delta]
<1>1. /\ pc[e][t] = "send" /\ Goto(e, t, "flush")
      /\ wire' = Sent(wire, e, f)
      /\ UNCHANGED <<lifeVars, windowVars, ctl, writeVars>>
  BY DEF SendControl
<1>2. t \in Tasks /\ t # "writer" /\ t # "free" /\ ctl[e].holder = t
  BY <1>1, NotWriter DEF FlowAccounts, CtlLock
<1>3. \A d \in Sides : pc'[d]["writer"] = pc[d]["writer"]
  BY <1>1, <1>2, Moved, TaskFacts
<1>4. CtlLock'
  BY <1>1, <1>2, LockKept DEF FlowAccounts
<1>5. WriterBound' /\ SenderAccount' /\ ReceiverAccount'
  BY <1>1, <1>3 DEF FlowAccounts, WriterBound, SenderAccount, ReceiverAccount, Shut,
                    windowVars, writeVars, lifeVars
<1>6. Announced(e)' = Announced(e) + ctl[e].delta
  <2>1. Announced(e) = granted[e] - ctl[e].delta
    BY <1>1, <1>2 DEF Announced, Unsent, Sending
  <2>2. pc'[e][t] = "flush" /\ ctl' = ctl /\ granted' = granted
    BY <1>1, <1>2, Moved DEF windowVars
  <2>3. Announced(e)' = granted[e]
    BY <1>2, <2>2, Numbers DEF Announced, Unsent, Sending
  <2>. QED  BY <2>1, <2>3, Numbers
<1>7. ASSUME NEW d \in Sides, d # e PROVE Announced(d)' = Announced(d)
  <2>1. \A u \in Tasks : pc'[d][u] = pc[d][u]
    BY <1>1, <1>2, <1>7, Moved
  <2>2. ctl[d].holder = "free" \/ ctl[d].holder \in Tasks
    BY DEF TypeOK
  <2>3. ctl' = ctl /\ granted' = granted
    BY <1>1 DEF windowVars
  <2>. QED  BY <2>1, <2>2, <2>3 DEF Announced, Unsent, Sending
<1>8. f \in Frames /\ f.type = "window" /\ f.from = Announced(e) /\ f.len = ctl[e].delta
  BY Numbers DEF Frames, TypeOK
<1>9. \A d \in Sides : wire'[d] = wire[d] \/ (d = e /\ wire'[d] = Append(wire[d], f))
  <2>1. wire \in [Sides -> Seq(Frames)]
    BY DEF TypeOK
  <2>. QED  BY <1>1, <2>1, SentWire
<1>10. ASSUME NEW d \in Sides
       PROVE  /\ Ordered(wire'[d], "data", rcvd[Peer(d)], sent[d])
              /\ Ordered(wire'[d], "window", credit[Peer(d)], Announced(d)')
  <2>1. /\ Ordered(wire[d], "data", rcvd[Peer(d)], sent[d])
        /\ Ordered(wire[d], "window", credit[Peer(d)], Announced(d))
    BY DEF FlowAccounts, DataOrder, CreditOrder
  <2>2. /\ wire[d] \in Seq(Frames) /\ rcvd[Peer(d)] \in Int /\ sent[d] \in Int
        /\ credit[Peer(d)] \in Int /\ Announced(d) \in Int /\ ctl[e].delta \in Nat
    BY Numbers, PeerOf
  <2>3. Announced(d)' \in Int /\ Announced(d) <= Announced(d)'
    BY <1>6, <1>7, <2>2
  <2>4. CASE wire'[d] = wire[d]
    BY <2>1, <2>2, <2>3, <2>4, OrderedWeaken
  <2>5. CASE d = e /\ wire'[d] = Append(wire[d], f)
    <3>1. Announced(d) <= f.from /\ f.from + f.len <= Announced(d)'
      BY <1>6, <1>8, <2>2, <2>5
    <3>2. Ordered(Append(wire[d], f), "window", credit[Peer(d)], Announced(d)')
      BY <1>8, <2>1, <2>2, <2>3, <3>1, OrderedAppend
    <3>3. Ordered(Append(wire[d], f), "data", rcvd[Peer(d)], sent[d])
      BY <1>8, <2>1, <2>2, OrderedAppend
    <3>. QED  BY <2>5, <3>2, <3>3
  <2>. QED  BY <1>9, <2>4, <2>5
<1>11. DataOrder' /\ CreditOrder'
  BY <1>1, <1>10 DEF DataOrder, CreditOrder, windowVars
<1>. QED  BY <1>4, <1>5, <1>11 DEF FlowAccounts

(* The lock is released, with the credit added to recvWindow or, after the
   session's end, dropped. *)
LEMMA ReleasedFlow ==
    ASSUME TypeOK, FlowAccounts, NEW e \in Sides, NEW t \in CtlTasks(e), NEW l,
           pc[e][t] \in {"send", "flush"}, l \notin {"send", "flush"}, Goto(e, t, l),
           ctl'[e] = Free,
           \A d \in Sides : d # e => ctl'[d] = ctl[d] /\ recvWindow'[d] = recvWindow[d],
           \/ recvWindow'[e] = recvWindow[e] + ctl[e].delta
           \/ Shut(e) /\ recvWindow'[e] = recvWindow[e],
           UNCHANGED <<lifeVars, wire, sendWindow, sent, rcvd, granted, credit, writeVars>>
    PROVE  FlowAccounts'
<1>1. t \in Tasks /\ t # "writer" /\ t # "free" /\ ctl[e].holder = t
  BY NotWriter DEF FlowAccounts, CtlLock
<1>2. \A d \in Sides : pc'[d]["writer"] = pc[d]["writer"]
  BY <1>1, Moved, TaskFacts
<1>3. /\ ctl'[e] = Free /\ \A d \in Sides : d # e => ctl'[d] = ctl[d] /\ recvWindow'[d] = recvWindow[d]
      /\ \/ recvWindow'[e] = recvWindow[e] + ctl[e].delta
         \/ Shut(e) /\ recvWindow'[e] = recvWindow[e]
  OBVIOUS
<1>4. CtlLock'
  <2>1. CtlLock /\ ctl'[e] = Free /\ \A d \in Sides : d # e => ctl'[d] = ctl[d]
    BY <1>3 DEF FlowAccounts
  <2>. QED  BY <2>1, LockReleased
<1>5. WriterBound' /\ SenderAccount' /\ DataOrder'
  BY <1>2 DEF FlowAccounts, WriterBound, SenderAccount, DataOrder, Shut, writeVars, lifeVars
<1>6. ReceiverAccount'
  <2>1. ASSUME NEW d \in Sides
        PROVE  /\ ~Shut(d)' => recvWindow'[d] + ctl'[d].delta + rcvd'[d] = Window + granted'[d]
               /\ recvWindow'[d] + ctl'[d].delta <= MaxWindow[d]
               /\ ctl'[d].delta <= granted'[d]
    <3>1. /\ ~Shut(d) => recvWindow[d] + ctl[d].delta + rcvd[d] = Window + granted[d]
          /\ recvWindow[d] + ctl[d].delta <= MaxWindow[d]
          /\ ctl[d].delta <= granted[d]
      BY DEF FlowAccounts, ReceiverAccount
    <3>2. shutdownErr' = shutdownErr
      BY DEF lifeVars
    <3>3. CASE d # e
      BY <1>3, <3>1, <3>2, <3>3 DEF Shut
    <3>4. CASE d = e
      <4>1. /\ recvWindow[e] \in Nat /\ rcvd[e] \in Nat /\ granted[e] \in Nat /\ ctl[e].delta \in Nat
            /\ MaxWindow[e] \in Nat /\ Window \in Nat
        BY Numbers
      <4>2. ctl'[e].delta = 0
        BY <1>3 DEF Free
      <4>3. recvWindow'[e] <= MaxWindow[e] /\ 0 <= granted[e]
        BY <1>3, <3>1, <3>4, <4>1
      <4>4. ~Shut(e) => recvWindow'[e] + rcvd[e] = Window + granted[e]
        BY <1>3, <3>1, <3>4, <4>1
      <4>5. recvWindow'[e] \in Nat
        BY <1>3, <4>1
      <4>. QED  BY <3>2, <3>4, <4>1, <4>2, <4>3, <4>4, <4>5 DEF Shut
    <3>. QED  BY <3>3, <3>4
  <2>. QED  BY <2>1 DEF ReceiverAccount, Shut
<1>7. Announced(e)' \in Nat /\ Announced(e) <= Announced(e)'
  <2>1. Announced(e)' = granted[e]
    BY <1>3, Numbers DEF Announced, Unsent, Sending, Free
  <2>2. Announced(e) <= granted[e]
    BY Numbers DEF Announced, Unsent
  <2>. QED  BY <2>1, <2>2, Numbers
<1>8. ASSUME NEW d \in Sides, d # e PROVE Announced(d)' = Announced(d)
  <2>1. \A u \in Tasks : pc'[d][u] = pc[d][u]
    BY <1>1, <1>8, Moved
  <2>2. ctl[d].holder = "free" \/ ctl[d].holder \in Tasks
    BY DEF TypeOK
  <2>. QED  BY <1>3, <1>8, <2>1, <2>2 DEF Announced, Unsent, Sending
<1>9. ASSUME NEW d \in Sides
      PROVE  Ordered(wire[d], "window", credit[Peer(d)], Announced(d)')
  <2>1. Ordered(wire[d], "window", credit[Peer(d)], Announced(d))
    BY DEF FlowAccounts, CreditOrder
  <2>2. wire[d] \in Seq(Frames) /\ credit[Peer(d)] \in Int /\ Announced(d) \in Int
    BY Numbers, PeerOf
  <2>3. Announced(d)' \in Int /\ Announced(d) <= Announced(d)'
    BY <1>7, <1>8, <2>2
  <2>. QED  BY <2>1, <2>2, <2>3, OrderedWeaken
<1>10. CreditOrder'
  BY <1>9 DEF CreditOrder
<1>. QED  BY <1>4, <1>5, <1>6, <1>10 DEF FlowAccounts

-----------------------------------------------------------------------------
(* recv *)

(* What a frame taken off the wire says of the accounts, and what the frames
   behind it say once it is counted. *)
LEMMA HeadOrder ==
    ASSUME TypeOK, FlowAccounts, NEW e \in Sides, wire[Peer(e)] # << >>
    PROVE  LET p == Peer(e)
               frame == Head(wire[p])
               rest == Tail(wire[p])
           IN  /\ frame \in Frames /\ frame.from \in Nat /\ frame.len \in Nat
               /\ rest \in Seq(Frames)
               /\ Ordered(rest, "data", rcvd[e], sent[p])
               /\ Ordered(rest, "window", credit[e], Announced(p))
               /\ frame.type = "data" =>
                     /\ frame.len <= sent[p] - rcvd[e]
                     /\ Ordered(rest, "data", rcvd[e] + frame.len, sent[p])
               /\ frame.type = "window" =>
                     Ordered(rest, "window", credit[e] + frame.len, Announced(p))
<1>. DEFINE p == Peer(e)
            frame == Head(wire[p])
            rest == Tail(wire[p])
<1>1. p \in Sides /\ Peer(p) = e
  BY PeerOf
<1>2. /\ wire[p] \in Seq(Frames) /\ rcvd[e] \in Nat /\ sent[p] \in Nat /\ credit[e] \in Nat
      /\ Announced(p) \in Nat
  BY <1>1, Numbers
<1>3. Ordered(wire[p], "data", rcvd[e], sent[p]) /\ Ordered(wire[p], "window", credit[e], Announced(p))
  BY <1>1 DEF FlowAccounts, DataOrder, CreditOrder
<1>4. /\ rest \in Seq(Frames) /\ frame \in Frames
      /\ Ordered(rest, "data", rcvd[e], sent[p])
      /\ frame.type = "data" => /\ rcvd[e] <= frame.from /\ frame.from + frame.len <= sent[p]
                                /\ Ordered(rest, "data", frame.from + frame.len, sent[p])
  BY <1>2, <1>3, OrderedTail
<1>5. /\ Ordered(rest, "window", credit[e], Announced(p))
      /\ frame.type = "window" => /\ credit[e] <= frame.from
                                  /\ frame.from + frame.len <= Announced(p)
                                  /\ Ordered(rest, "window", frame.from + frame.len, Announced(p))
  BY <1>2, <1>3, OrderedTail
<1>6. frame.from \in Nat /\ frame.len \in Nat
  BY <1>4 DEF Frames
<1>7. ASSUME frame.type = "data"
      PROVE  /\ frame.len <= sent[p] - rcvd[e]
             /\ Ordered(rest, "data", rcvd[e] + frame.len, sent[p])
  <2>1. rcvd[e] + frame.len <= frame.from + frame.len /\ frame.from + frame.len <= sent[p]
    BY <1>2, <1>4, <1>6, <1>7
  <2>2. Ordered(rest, "data", frame.from + frame.len, sent[p])
    BY <1>4, <1>7
  <2>3. Ordered(rest, "data", rcvd[e] + frame.len, sent[p])
    <3>. DEFINE lo == frame.from + frame.len
                lo2 == rcvd[e] + frame.len
                hi == sent[p]
    <3>1. lo \in Int /\ lo2 \in Int /\ hi \in Int /\ lo2 <= lo /\ hi <= hi
      BY <1>2, <1>6, <2>1
    <3>2. rest \in Seq(Frames) /\ Ordered(rest, "data", lo, hi)
      BY <1>4, <2>2
    <3>. HIDE DEF lo, lo2, hi, rest
    <3>3. Ordered(rest, "data", lo2, hi)
      BY <3>1, <3>2, OrderedWeaken
    <3>. QED  BY <3>3 DEF lo2, hi
  <2>4. frame.len <= sent[p] - rcvd[e]
    BY <1>2, <1>6, <2>1
  <2>. QED  BY <2>3, <2>4
<1>8. ASSUME frame.type = "window"
      PROVE  Ordered(rest, "window", credit[e] + frame.len, Announced(p))
  <2>1. credit[e] + frame.len <= frame.from + frame.len
    BY <1>2, <1>5, <1>6, <1>8
  <2>2. Ordered(rest, "window", frame.from + frame.len, Announced(p))
    BY <1>5, <1>8
  <2>. DEFINE lo == frame.from + frame.len
              lo2 == credit[e] + frame.len
              hi == Announced(p)
  <2>3. lo \in Int /\ lo2 \in Int /\ hi \in Int /\ lo2 <= lo /\ hi <= hi
    BY <1>2, <1>6, <2>1
  <2>4. rest \in Seq(Frames) /\ Ordered(rest, "window", lo, hi)
    BY <1>4, <2>2
  <2>. HIDE DEF lo, lo2, hi, rest
  <2>5. Ordered(rest, "window", lo2, hi)
    BY <2>3, <2>4, OrderedWeaken
  <2>. QED  BY <2>5 DEF lo2, hi
<1>. QED  BY <1>4, <1>5, <1>6, <1>7, <1>8

(* A step of recv: it leaves the tasks and the lock alone, takes the frames of
   its end's peer down to w, and counts data and credit. *)
LEMMA RecvStep ==
    ASSUME TypeOK, FlowAccounts, NEW e \in Sides, NEW w, NEW data \in Nat, NEW cred \in Nat,
           UNCHANGED <<pc, ctl, granted, sent, writeVars>>,
           \A d \in Sides : shutdownErr[d] # "nil" => shutdownErr'[d] # "nil",
           data <= recvWindow[e],
           recvWindow' = [recvWindow EXCEPT ![e] = @ - data],
           rcvd' = [rcvd EXCEPT ![e] = @ + data],
           sendWindow' = [sendWindow EXCEPT ![e] = @ + cred],
           credit' = [credit EXCEPT ![e] = @ + cred],
           wire'[Peer(e)] = w,
           Ordered(w, "data", rcvd[e] + data, sent[Peer(e)]),
           Ordered(w, "window", credit[e] + cred, Announced(Peer(e))),
           Ordered(wire'[e], "data", rcvd[Peer(e)], sent[e]),
           Ordered(wire'[e], "window", credit[Peer(e)], Announced(e))
    PROVE  FlowAccounts'
<1>1. /\ recvWindow'[e] = recvWindow[e] - data /\ rcvd'[e] = rcvd[e] + data
      /\ \A d \in Sides : d # e => recvWindow'[d] = recvWindow[d] /\ rcvd'[d] = rcvd[d]
  BY DEF TypeOK
<1>2. /\ sendWindow'[e] = sendWindow[e] + cred /\ credit'[e] = credit[e] + cred
      /\ \A d \in Sides : d # e => sendWindow'[d] = sendWindow[d] /\ credit'[d] = credit[d]
  BY DEF TypeOK
<1>3. CtlLock'
  BY DEF FlowAccounts, CtlLock, Free
<1>4. WriterBound'
  <2>1. ASSUME NEW d \in Sides PROVE sendWindow[d] <= sendWindow'[d]
    BY <1>2, Numbers
  <2>2. ASSUME NEW d \in Sides PROVE wlen[d] <= sendWindow'[d]
    <3>1. sendWindow[d] \in Nat /\ wlen[d] \in Nat /\ sendWindow'[d] \in Nat /\ wlen[d] <= sendWindow[d]
      BY <1>2, Numbers DEF FlowAccounts, WriterBound
    <3>. QED  BY <2>1, <3>1
  <2>. QED  BY <2>2 DEF FlowAccounts, WriterBound, writeVars
<1>5. SenderAccount'
  <2>1. ASSUME NEW d \in Sides
        PROVE  /\ ~Shut(d)' => sendWindow'[d] + sent'[d] =
                     Window + credit'[d] + (IF pc'[d]["writer"] = "flush" THEN wlen'[d] ELSE 0)
               /\ sent'[d] <= Window + credit'[d]
    <3>. DEFINE late == IF pc[d]["writer"] = "flush" THEN wlen[d] ELSE 0
    <3>1. /\ ~Shut(d) => sendWindow[d] + sent[d] = Window + credit[d] + late
          /\ sent[d] <= Window + credit[d]
      BY DEF FlowAccounts, SenderAccount
    <3>2. /\ sendWindow[d] \in Nat /\ sent[d] \in Nat /\ credit[d] \in Nat /\ late \in Nat /\ Window \in Nat
      BY Numbers
    <3>3. \/ sendWindow'[d] = sendWindow[d] /\ credit'[d] = credit[d]
          \/ sendWindow'[d] = sendWindow[d] + cred /\ credit'[d] = credit[d] + cred
      BY <1>2
    <3>4. /\ ~Shut(d) => sendWindow'[d] + sent[d] = Window + credit'[d] + late
          /\ sent[d] <= Window + credit'[d]
      BY <3>1, <3>2, <3>3
    <3>. QED  BY <3>4 DEF Shut, writeVars
  <2>. QED  BY <2>1 DEF SenderAccount, Shut
<1>6. ReceiverAccount'
  <2>1. ASSUME NEW d \in Sides
        PROVE  /\ ~Shut(d)' => recvWindow'[d] + ctl'[d].delta + rcvd'[d] = Window + granted'[d]
               /\ recvWindow'[d] + ctl'[d].delta <= MaxWindow[d]
               /\ ctl'[d].delta <= granted'[d]
    <3>1. /\ ~Shut(d) => recvWindow[d] + ctl[d].delta + rcvd[d] = Window + granted[d]
          /\ recvWindow[d] + ctl[d].delta <= MaxWindow[d]
          /\ ctl[d].delta <= granted[d]
      BY DEF FlowAccounts, ReceiverAccount
    <3>2. /\ recvWindow[d] \in Nat /\ rcvd[d] \in Nat /\ granted[d] \in Nat /\ ctl[d].delta \in Nat
          /\ MaxWindow[d] \in Nat /\ Window \in Nat
      BY Numbers
    <3>3. \/ recvWindow'[d] = recvWindow[d] /\ rcvd'[d] = rcvd[d]
          \/ recvWindow'[d] = recvWindow[d] - data /\ rcvd'[d] = rcvd[d] + data
      BY <1>1
    <3>4. /\ ~Shut(d) => recvWindow'[d] + ctl[d].delta + rcvd'[d] = Window + granted[d]
          /\ recvWindow'[d] + ctl[d].delta <= MaxWindow[d]
      BY <3>1, <3>2, <3>3
    <3>. QED  BY <3>1, <3>4 DEF Shut
  <2>. QED  BY <2>1 DEF ReceiverAccount, Shut
<1>7. \A d \in Sides : Announced(d)' = Announced(d)
  BY DEF Announced, Unsent, Sending
<1>8. Peer(e) \in Sides /\ Peer(e) # e /\ Peer(Peer(e)) = e
  BY PeerOf
<1>9. DataOrder'
  <2>1. ASSUME NEW d \in Sides PROVE Ordered(wire'[d], "data", rcvd'[Peer(d)], sent[d])
    <3>1. CASE d = e
      BY <1>1, <1>8, <3>1
    <3>2. CASE d = Peer(e)
      BY <1>1, <1>8, <3>2
    <3>. QED  BY <3>1, <3>2, PeerOf
  <2>. QED  BY <2>1 DEF DataOrder
<1>10. CreditOrder'
  <2>1. ASSUME NEW d \in Sides PROVE Ordered(wire'[d], "window", credit'[Peer(d)], Announced(d))
    <3>1. CASE d = e
      BY <1>2, <1>8, <3>1
    <3>2. CASE d = Peer(e)
      BY <1>2, <1>8, <3>2
    <3>. QED  BY <3>1, <3>2, PeerOf
  <2>. QED  BY <1>7, <2>1 DEF CreditOrder
<1>. QED  BY <1>3, <1>4, <1>5, <1>6, <1>9, <1>10 DEF FlowAccounts

(* What the accounts say of the frames on their way to e and from e. *)
LEMMA OrderNow ==
    ASSUME TypeOK, FlowAccounts, NEW e \in Sides
    PROVE  /\ Ordered(wire[e], "data", rcvd[Peer(e)], sent[e])
           /\ Ordered(wire[e], "window", credit[Peer(e)], Announced(e))
           /\ Ordered(wire[Peer(e)], "data", rcvd[e], sent[Peer(e)])
           /\ Ordered(wire[Peer(e)], "window", credit[e], Announced(Peer(e)))
  BY PeerOf DEF FlowAccounts, DataOrder, CreditOrder

(* A frame that carries nothing moves no bound. *)
LEMMA AddZero ==
    ASSUME NEW f \in [Sides -> Nat], NEW e \in Sides
    PROVE  f = [f EXCEPT ![e] = @ - 0] /\ f = [f EXCEPT ![e] = @ + 0]
<1>1. f[e] \in Nat
  OBVIOUS
<1>2. f[e] - 0 = f[e] /\ f[e] + 0 = f[e]
  BY <1>1
<1>. QED  BY <1>2

(* A step of recv that counts nothing. *)
LEMMA RecvQuiet ==
    ASSUME TypeOK, FlowAccounts, NEW e \in Sides,
           UNCHANGED <<pc, ctl, windowVars, writeVars>>,
           \A d \in Sides : shutdownErr[d] # "nil" => shutdownErr'[d] # "nil",
           Ordered(wire'[Peer(e)], "data", rcvd[e], sent[Peer(e)]),
           Ordered(wire'[Peer(e)], "window", credit[e], Announced(Peer(e))),
           Ordered(wire'[e], "data", rcvd[Peer(e)], sent[e]),
           Ordered(wire'[e], "window", credit[Peer(e)], Announced(e))
    PROVE  FlowAccounts'
<1>1. /\ recvWindow' = [recvWindow EXCEPT ![e] = @ - 0] /\ rcvd' = [rcvd EXCEPT ![e] = @ + 0]
      /\ sendWindow' = [sendWindow EXCEPT ![e] = @ + 0] /\ credit' = [credit EXCEPT ![e] = @ + 0]
  <2>1. /\ recvWindow \in [Sides -> Nat] /\ rcvd \in [Sides -> Nat]
        /\ sendWindow \in [Sides -> Nat] /\ credit \in [Sides -> Nat]
    BY DEF TypeOK
  <2>2. /\ recvWindow' = recvWindow /\ rcvd' = rcvd
        /\ sendWindow' = sendWindow /\ credit' = credit
    BY DEF windowVars
  <2>. QED  BY <2>1, <2>2, AddZero
<1>2. 0 <= recvWindow[e] /\ rcvd[e] + 0 = rcvd[e] /\ credit[e] + 0 = credit[e] /\ 0 \in Nat
  BY Numbers
<1>3. UNCHANGED <<pc, ctl, granted, sent, writeVars>>
  BY DEF windowVars
<1>4. /\ Ordered(wire'[Peer(e)], "data", rcvd[e] + 0, sent[Peer(e)])
      /\ Ordered(wire'[Peer(e)], "window", credit[e] + 0, Announced(Peer(e)))
  BY <1>2
<1>. QED  BY <1>1, <1>2, <1>3, <1>4, RecvStep

(* A session ends: the frames under way are cut. *)
LEMMA ShutdownFlow ==
    ASSUME TypeOK, FlowAccounts, NEW e \in Sides, NEW err, err # "nil",
           NEW w, w = wire \/ w = [wire EXCEPT ![Peer(e)] = << >>],
           Shutdown(e, err, w), UNCHANGED <<pc, ctl, windowVars, writeVars>>
    PROVE  FlowAccounts'
<1>. DEFINE p == Peer(e)
<1>1. p \in Sides /\ p # e /\ Peer(p) = e
  BY PeerOf
<1>2. wire \in [Sides -> Seq(Frames)]
  BY DEF TypeOK
<1>3. w \in [Sides -> Seq(Frames)] /\ w[e] = wire[e] /\ (w[p] = wire[p] \/ w[p] = << >>)
  <2>1. << >> \in Seq(Frames)
    BY EmptySeq
  <2>. QED  BY <1>1, <1>2, <2>1
<1>4. PICK own \in 0..Len(w[e]), held \in 0..Len(w[p]) :
         wire' = [w EXCEPT ![e] = SubSeq(@, 1, own), ![p] = SubSeq(@, 1, held)]
  BY DEF Shutdown
<1>5. wire'[e] = SubSeq(w[e], 1, own) /\ wire'[p] = SubSeq(w[p], 1, held)
  BY <1>1, <1>3, <1>4
<1>6. \A d \in Sides : shutdownErr[d] # "nil" => shutdownErr'[d] # "nil"
  BY DEF Shutdown, TypeOK
<1>7. /\ rcvd[e] \in Int /\ credit[e] \in Int /\ sent[e] \in Int /\ Announced(e) \in Int
      /\ rcvd[p] \in Int /\ credit[p] \in Int /\ sent[p] \in Int /\ Announced(p) \in Int
  BY <1>1, Numbers
<1>8. /\ Ordered(wire[e], "data", rcvd[p], sent[e])
      /\ Ordered(wire[e], "window", credit[p], Announced(e))
      /\ Ordered(wire[p], "data", rcvd[e], sent[p])
      /\ Ordered(wire[p], "window", credit[e], Announced(p))
  BY OrderNow
<1>9. /\ Ordered(w[p], "data", rcvd[e], sent[p])
      /\ Ordered(w[p], "window", credit[e], Announced(p))
  <2>1. CASE w[p] = wire[p]
    BY <1>8, <2>1
  <2>2. CASE w[p] = << >>
    <3>1. rcvd[e] <= sent[p] /\ credit[e] <= Announced(p)
      BY <1>8 DEF Ordered
    <3>. QED  BY <1>7, <2>2, <3>1, OrderedEmpty
  <2>. QED  BY <1>3, <2>1, <2>2
<1>10. w[e] \in Seq(Frames) /\ w[p] \in Seq(Frames)
  BY <1>1, <1>3
<1>11. /\ Ordered(wire'[e], "data", rcvd[p], sent[e])
       /\ Ordered(wire'[e], "window", credit[p], Announced(e))
  BY <1>3, <1>5, <1>7, <1>8, <1>10, OrderedPrefix
<1>12. /\ Ordered(wire'[p], "data", rcvd[e], sent[p])
       /\ Ordered(wire'[p], "window", credit[e], Announced(p))
  BY <1>5, <1>7, <1>9, <1>10, OrderedPrefix
<1>. QED  BY <1>6, <1>11, <1>12, RecvQuiet

(* A frame is taken off the wire, and its data or its credit is counted. *)
LEMMA RecvCounted ==
    ASSUME TypeOK, FlowAccounts, NEW e \in Sides, wire[Peer(e)] # << >>, wire' = Handled(e),
           NEW data \in Nat, NEW cred \in Nat,
           data = 0 \/ (Head(wire[Peer(e)]).type = "data" /\ data = Head(wire[Peer(e)]).len),
           cred = 0 \/ (Head(wire[Peer(e)]).type = "window" /\ cred = Head(wire[Peer(e)]).len),
           UNCHANGED <<pc, ctl, granted, sent, writeVars, shutdownErr>>,
           data <= recvWindow[e],
           recvWindow' = [recvWindow EXCEPT ![e] = @ - data],
           rcvd' = [rcvd EXCEPT ![e] = @ + data],
           sendWindow' = [sendWindow EXCEPT ![e] = @ + cred],
           credit' = [credit EXCEPT ![e] = @ + cred]
    PROVE  FlowAccounts'
<1>. DEFINE p == Peer(e)
            rest == Tail(wire[p])
<1>1. p \in Sides /\ p # e
  BY PeerOf
<1>2. wire'[p] = rest /\ wire'[e] = wire[e]
  BY <1>1 DEF Handled, TypeOK
<1>3. /\ rest \in Seq(Frames)
      /\ Ordered(rest, "data", rcvd[e], sent[p])
      /\ Ordered(rest, "window", credit[e], Announced(p))
      /\ Head(wire[p]).type = "data" => Ordered(rest, "data", rcvd[e] + Head(wire[p]).len, sent[p])
      /\ Head(wire[p]).type = "window" =>
            Ordered(rest, "window", credit[e] + Head(wire[p]).len, Announced(p))
  BY HeadOrder
<1>4. rcvd[e] + 0 = rcvd[e] /\ credit[e] + 0 = credit[e]
  BY Numbers
<1>5. Ordered(rest, "data", rcvd[e] + data, sent[p])
  BY <1>3, <1>4
<1>6. Ordered(rest, "window", credit[e] + cred, Announced(p))
  BY <1>3, <1>4
<1>7. /\ Ordered(wire'[e], "data", rcvd[p], sent[e])
      /\ Ordered(wire'[e], "window", credit[p], Announced(e))
  BY <1>2, OrderNow
<1>8. \A d \in Sides : shutdownErr[d] # "nil" => shutdownErr'[d] # "nil"
  OBVIOUS
<1>. QED  BY <1>2, <1>5, <1>6, <1>7, <1>8, RecvStep

(* incrSendWindow counts the credit of the update it handles. *)
LEMMA RecvWindowFlow ==
    ASSUME TypeOK, FlowAccounts, NEW e \in Sides, RecvSYN(e) \/ RecvWindow(e),
           Head(wire[Peer(e)]).type = "window"
    PROVE  FlowAccounts'
<1>1. /\ wire[Peer(e)] # << >> /\ wire' = Handled(e)
      /\ sendWindow' = [sendWindow EXCEPT ![e] = @ + Head(wire[Peer(e)]).len]
      /\ credit' = [credit EXCEPT ![e] = @ + Head(wire[Peer(e)]).len]
      /\ UNCHANGED <<shutdownErr, recvWindow, rcvd, pc, ctl, granted, sent, writeVars>>
  BY DEF RecvSYN, RecvWindow
<1>2. Head(wire[Peer(e)]).len \in Nat
  BY <1>1, RecvType
<1>3. recvWindow' = [recvWindow EXCEPT ![e] = @ - 0] /\ rcvd' = [rcvd EXCEPT ![e] = @ + 0]
  <2>1. recvWindow \in [Sides -> Nat] /\ rcvd \in [Sides -> Nat]
    BY DEF TypeOK
  <2>. QED  BY <1>1, <2>1, AddZero
<1>4. 0 \in Nat /\ 0 <= recvWindow[e]
  BY Numbers
<1>. QED  BY <1>1, <1>2, <1>3, <1>4, RecvCounted

(* readData counts the bytes of the frame it handles. *)
LEMMA RecvDataFlow ==
    ASSUME TypeOK, FlowAccounts, NEW e \in Sides, RecvData(e)
    PROVE  FlowAccounts'
<1>1. /\ wire[Peer(e)] # << >> /\ wire' = Handled(e) /\ Head(wire[Peer(e)]).type = "data"
      /\ ~Refused(e, Head(wire[Peer(e)]))
      /\ recvWindow' = [recvWindow EXCEPT ![e] = @ - Head(wire[Peer(e)]).len]
      /\ rcvd' = [rcvd EXCEPT ![e] = @ + Head(wire[Peer(e)]).len]
      /\ UNCHANGED <<shutdownErr, sendWindow, credit, pc, ctl, granted, sent, writeVars>>
  BY DEF RecvData
<1>2. Head(wire[Peer(e)]).len \in Nat
  BY <1>1, RecvType
<1>3. sendWindow' = [sendWindow EXCEPT ![e] = @ + 0] /\ credit' = [credit EXCEPT ![e] = @ + 0]
  <2>1. sendWindow \in [Sides -> Nat] /\ credit \in [Sides -> Nat]
    BY DEF TypeOK
  <2>. QED  BY <1>1, <2>1, AddZero
<1>4. 0 \in Nat /\ Head(wire[Peer(e)]).len <= recvWindow[e]
  BY <1>1, <1>2, Numbers DEF Refused
<1>. QED  BY <1>1, <1>2, <1>3, <1>4, RecvCounted

(* No step lets a user write before the first frame of its end is sent. *)
LEMMA OpenedFirstStep ==
    ASSUME TypeOK, OpenedFirst, Next
    PROVE  OpenedFirst'
<1>. USE DEF OpenedFirst, Ready
<1>1. ASSUME NEW e \in Sides, Write(e) \/ WriteCall(e) \/ WriteTimeout(e) PROVE OpenedFirst'
  <2>1. PICK l : Goto(e, "writer", l)
    BY <1>1 DEF Write, WriteCheck, WriteSend, WriteSent, WriteFailed, WriteWake, WriteCall, WriteTimeout
  <2>2. pc[e]["setup"] = "ready"
    BY <1>1 DEF Write, WriteCheck, WriteSend, WriteSent, WriteFailed, WriteWake, WriteCall, WriteTimeout
  <2>3. \A d \in Sides : /\ pc'[d]["setup"] = pc[d]["setup"]
                         /\ d # e => pc'[d]["writer"] = pc[d]["writer"]
    BY <2>1, Moved, TaskFacts
  <2>4. state' = state \/ state' = [state EXCEPT ![e] = Flagged(@)]
    BY <1>1 DEF Write, WriteCheck, WriteSend, WriteSent, WriteFailed, WriteWake, WriteCall, WriteTimeout
  <2>5. \A d \in Sides : state'[d] = "Init" => state[d] = "Init"
    BY <2>4 DEF TypeOK, Flagged
  <2>. QED  BY <2>2, <2>3, <2>5
<1>2. ASSUME NEW e \in Sides, NEW t \in Readers[e] \cup {"closer"}, NEW l, Goto(e, t, l),
             \A d \in Sides : state'[d] = "Init" => state[d] = "Init"
      PROVE  OpenedFirst'
  <2>1. t \in Tasks /\ t # "writer" /\ t # "setup"
    BY ReaderAssumption, TaskFacts
  <2>2. \A d \in Sides : pc'[d]["setup"] = pc[d]["setup"] /\ pc'[d]["writer"] = pc[d]["writer"]
    BY <1>2, <2>1, Moved, TaskFacts
  <2>. QED  BY <1>2, <2>2
<1>3. ASSUME NEW e \in Sides, NEW l, Goto(e, "setup", l), pc[e]["setup"] # "ready",
             \A d \in Sides : state'[d] = "Init" => state[d] = "Init" \/ d = e,
             l \in {"send", "flush", "ready"} => state'[e] # "Init"
      PROVE  OpenedFirst'
  <2>1. /\ pc'[e]["setup"] = l
        /\ \A d \in Sides : /\ pc'[d]["writer"] = pc[d]["writer"]
                            /\ d # e => pc'[d]["setup"] = pc[d]["setup"]
    BY <1>3, Moved, TaskFacts
  <2>. QED  BY <1>3, <2>1
<1>4. CASE Setup
  <2>1. CASE OpenCheck \/ AcceptStream \/ AcceptShutdown
    <3>1. PICK e \in Sides : /\ pc[e]["setup"] = "idle" /\ state' = state
                             /\ \E l : l \notin {"send", "flush", "ready"} /\ Goto(e, "setup", l)
      BY <2>1, TaskFacts DEF OpenCheck, AcceptStream, AcceptShutdown
    <3>. QED  BY <1>3, <3>1
  <2>2. CASE OpenRegister
    <3>1. /\ pc["opener"]["setup"] = "register" /\ Goto("opener", "setup", "update")
          /\ \A d \in Sides : d # "opener" => state'[d] = state[d]
      BY <2>2 DEF OpenRegister, TypeOK
    <3>. QED  BY <1>3, <3>1, TaskFacts
  <2>. QED  BY <1>4, <2>1, <2>2 DEF Setup
<1>5. ASSUME NEW e \in Sides, NEW t \in CtlTasks(e), Control(e, t) PROVE OpenedFirst'
  <2>1. /\ pc[e][t] \in {"update", "send", "flush"}
        /\ state' = state \/ state' = [state EXCEPT ![e] = Flagged(@)]
        /\ pc[e][t] = "update" => state' = [state EXCEPT ![e] = Flagged(@)]
    BY <1>5 DEF Control, LoadUpdate, SendControl, ControlSent, ControlFailed
  <2>2. /\ \A d \in Sides : state'[d] = "Init" => state[d] = "Init"
        /\ pc[e][t] = "update" => state'[e] # "Init"
    BY <2>1 DEF TypeOK, Flagged
  <2>3. PICK l : Goto(e, t, l)
    BY <1>5 DEF Control, LoadUpdate, SendControl, ControlSent, ControlFailed
  <2>4. CASE t = "setup"
    <3>1. pc[e]["setup"] # "ready" /\ state'[e] # "Init"
      BY <2>1, <2>2, <2>4
    <3>. QED  BY <1>3, <2>2, <2>3, <2>4, <3>1
  <2>5. CASE t # "setup"
    <3>1. t \in Readers[e] \cup {"closer"}
      BY <2>5 DEF CtlTasks
    <3>. QED  BY <1>2, <2>2, <2>3, <3>1
  <2>. QED  BY <2>4, <2>5
<1>6. ASSUME NEW e \in Sides, CloseCall(e) \/ LoadClose(e) PROVE OpenedFirst'
  <2>1. \A d \in Sides : state'[d] = "Init" => state[d] = "Init"
    BY <1>6 DEF CloseCall, LoadClose, TypeOK
  <2>2. \E l : Goto(e, "closer", l)
    BY <1>6 DEF CloseCall, LoadClose
  <2>. QED  BY <1>2, <2>1, <2>2
<1>7. ASSUME NEW e \in Sides, NEW r \in Readers[e], Read(e, r) \/ ReadCall(e, r) \/ ReadTimeout(e, r)
      PROVE  OpenedFirst'
  <2>1. state' = state
    BY <1>7 DEF Read, ReadCheck, ReadTake, ReadWake, ReadCall, ReadTimeout
  <2>2. \E l : Goto(e, r, l)
    BY <1>7 DEF Read, ReadCheck, ReadTake, ReadWake, ReadCall, ReadTimeout
  <2>. QED  BY <1>2, <2>1, <2>2
<1>8. ASSUME NEW e \in Sides, Recv(e) \/ SessionClose(e) \/ SendFail(e) PROVE OpenedFirst'
  <2>1. pc' = pc
    BY <1>8 DEF Recv, RecvSYN, RecvReject, RecvMissing, RecvWindow, RecvData, RecvRefuse, RecvShort,
                RecvEOF, SessionClose, SendFail, streamRest
  <2>2. \/ state' = state
        \/ \E s : state' = [state EXCEPT ![e] = s] /\ (s = "Init" => state[e] = "Init")
    <3>1. ASSUME NEW flag, ProcessFlags(e, flag)
          PROVE  \E s : state' = [state EXCEPT ![e] = s] /\ (s = "Init" => state[e] = "Init")
      <4>1. state' = [state EXCEPT ![e] = Processed(state[e], flag)]
        BY <3>1 DEF ProcessFlags
      <4>2. Processed(state[e], flag) = "Init" => state[e] = "Init"
        BY DEF Processed
      <4>. QED  BY <4>1, <4>2
    <3>2. ASSUME NEW err, NEW w, Shutdown(e, err, w)
          PROVE  \E s : state' = [state EXCEPT ![e] = s] /\ (s = "Init" => state[e] = "Init")
      <4>1. state' = [state EXCEPT ![e] = IF registered[e] THEN "Closed" ELSE state[e]]
        BY <3>2 DEF Shutdown
      <4>2. ("Closed" = "Init" => state[e] = "Init") /\ (state[e] = "Init" => state[e] = "Init")
        OBVIOUS
      <4>3. \E s : s = (IF registered[e] THEN "Closed" ELSE state[e]) /\ (s = "Init" => state[e] = "Init")
        BY <4>2
      <4>. QED  BY <4>1, <4>3
    <3>3. CASE RecvSYN(e)
      <4>1. state' = [state EXCEPT ![e] = "SYNReceived"]
        BY <3>3 DEF RecvSYN
      <4>2. "SYNReceived" # "Init"
        OBVIOUS
      <4>. QED  BY <4>1, <4>2
    <3>4. CASE RecvReject(e) \/ RecvMissing(e)
      BY <3>4 DEF RecvReject, RecvMissing
    <3>5. CASE RecvWindow(e) \/ RecvData(e)
      BY <3>1, <3>5 DEF RecvWindow, RecvData
    <3>6. CASE RecvRefuse(e) \/ RecvShort(e)
      BY <3>2, <3>6 DEF RecvRefuse, RecvShort
    <3>7. CASE RecvEOF(e) \/ SessionClose(e) \/ SendFail(e)
      BY <3>2, <3>7 DEF RecvEOF, SessionClose, SendFail
    <3>. QED  BY <1>8, <3>3, <3>4, <3>5, <3>6, <3>7 DEF Recv
  <2>3. \A d \in Sides : state'[d] = "Init" => state[d] = "Init"
    BY <2>2 DEF TypeOK
  <2>. QED  BY <2>1, <2>3
<1>. QED  BY <1>1, <1>4, <1>5, <1>6, <1>7, <1>8 DEF Next

(* The other steps of recv, and the ends of a session, keep the accounts. *)
LEMMA RecvOtherFlow ==
    ASSUME TypeOK, FlowAccounts, NEW e \in Sides,
           RecvReject(e) \/ RecvMissing(e) \/ RecvRefuse(e) \/ RecvShort(e) \/ RecvEOF(e)
             \/ SessionClose(e) \/ SendFail(e)
    PROVE  FlowAccounts'
<1>. DEFINE p == Peer(e)
            cut == [wire EXCEPT ![p] = << >>]
<1>1. p \in Sides /\ p # e /\ Peer(p) = e
  BY PeerOf
<1>2. wire \in [Sides -> Seq(Frames)]
  BY DEF TypeOK
<1>3. /\ rcvd[e] \in Int /\ credit[e] \in Int /\ sent[e] \in Int /\ Announced(e) \in Int
      /\ rcvd[p] \in Int /\ credit[p] \in Int /\ sent[p] \in Int /\ Announced(p) \in Int
      /\ rcvd[e] \in Nat /\ rcvd[p] \in Nat /\ recvWindow[e] \in Nat /\ Announced(e) \in Nat
  BY <1>1, Numbers
<1>4. /\ Ordered(wire[e], "data", rcvd[p], sent[e])
      /\ Ordered(wire[e], "window", credit[p], Announced(e))
      /\ Ordered(wire[p], "data", rcvd[e], sent[p])
      /\ Ordered(wire[p], "window", credit[e], Announced(p))
  BY OrderNow
<1>5. CASE RecvMissing(e) \/ RecvReject(e)
  <2>1. /\ wire[p] # << >> /\ UNCHANGED <<pc, ctl, windowVars, writeVars, shutdownErr>>
    BY <1>5 DEF RecvMissing, RecvReject, lifeVars
  <2>2. /\ Handled(e)[p] = Tail(wire[p]) /\ Handled(e)[e] = wire[e]
        /\ Handled(e) \in [Sides -> Seq(Frames)]
    BY <1>1, <1>2, <2>1, RecvType DEF Handled
  <2>3. /\ Ordered(Tail(wire[p]), "data", rcvd[e], sent[p])
        /\ Ordered(Tail(wire[p]), "window", credit[e], Announced(p))
    BY <2>1, HeadOrder
  <2>4. PICK f \in Frames : /\ f.type = "window" /\ f.from = Announced(e) /\ f.len = 0
                            /\ wire' = Handled(e) \/ wire' = Sent(Handled(e), e, f)
    <3>. DEFINE f == [type |-> "window", flag |-> "RST", from |-> Announced(e), len |-> 0]
    <3>1. f \in Frames /\ f.type = "window" /\ f.from = Announced(e) /\ f.len = 0
      BY <1>3 DEF Frames, Flags
    <3>2. wire' = Handled(e) \/ wire' = Sent(Handled(e), e, f)
      BY <1>5 DEF RecvMissing, RecvReject
    <3>. QED  BY <3>1, <3>2
  <2>5. wire'[p] = Tail(wire[p]) /\ (wire'[e] = wire[e] \/ wire'[e] = Append(wire[e], f))
    <3>1. \A d \in Sides : \/ Sent(Handled(e), e, f)[d] = Handled(e)[d]
                           \/ d = e /\ Sent(Handled(e), e, f)[d] = Append(Handled(e)[d], f)
      BY <2>2, SentWire
    <3>2. \/ Sent(Handled(e), e, f)[e] = wire[e]
          \/ Sent(Handled(e), e, f)[e] = Append(wire[e], f)
      BY <2>2, <3>1
    <3>3. Sent(Handled(e), e, f)[p] = Tail(wire[p])
      BY <1>1, <2>2, <3>1
    <3>4. CASE wire' = Handled(e)
      BY <2>2, <3>4
    <3>5. CASE wire' = Sent(Handled(e), e, f)
      BY <3>2, <3>3, <3>5
    <3>. QED  BY <2>4, <3>4, <3>5
  <2>6. /\ Ordered(Append(wire[e], f), "data", rcvd[p], sent[e])
        /\ Ordered(Append(wire[e], f), "window", credit[p], Announced(e))
    <3>1. Announced(e) <= f.from /\ f.from + f.len <= Announced(e)
      BY <1>3, <2>4
    <3>2. wire[e] \in Seq(Frames) /\ f.type # "data"
      BY <1>2, <2>4
    <3>3. Ordered(Append(wire[e], f), "data", rcvd[p], sent[e])
      BY <1>3, <1>4, <3>2, OrderedAppend
    <3>4. Ordered(Append(wire[e], f), "window", credit[p], Announced(e))
      BY <1>3, <1>4, <3>1, <3>2, OrderedAppend
    <3>. QED  BY <3>3, <3>4
  <2>7. \A d \in Sides : shutdownErr[d] # "nil" => shutdownErr'[d] # "nil"
    BY <2>1
  <2>. QED  BY <1>4, <2>1, <2>3, <2>5, <2>6, <2>7, RecvQuiet
<1>6. ASSUME NEW err, err # "nil", NEW w, w = wire \/ w = cut, Shutdown(e, err, w),
             UNCHANGED <<pc, ctl, windowVars, writeVars>>
      PROVE  FlowAccounts'
  BY <1>6, ShutdownFlow
<1>7. CASE RecvEOF(e) \/ SessionClose(e) \/ SendFail(e)
  BY <1>6, <1>7 DEF RecvEOF, SessionClose, SendFail, streamRest
<1>8. ASSUME wire' = cut, UNCHANGED <<pc, ctl, windowVars, writeVars, shutdownErr>>
      PROVE  FlowAccounts'
  <2>1. wire'[p] = << >> /\ wire'[e] = wire[e]
    BY <1>1, <1>2, <1>8
  <2>2. rcvd[e] <= sent[p] /\ credit[e] <= Announced(p)
    BY <1>4 DEF Ordered
  <2>3. Ordered(wire'[p], "data", rcvd[e], sent[p]) /\ Ordered(wire'[p], "window", credit[e], Announced(p))
    BY <1>3, <2>1, <2>2, OrderedEmpty
  <2>. QED  BY <1>4, <1>8, <2>1, <2>3, RecvQuiet
<1>9. CASE RecvRefuse(e)
  <2>1. PICK err : /\ err # "nil"
                   /\ \/ Shutdown(e, err, cut)
                      \/ wire' = cut /\ UNCHANGED shutdownErr
    BY <1>9 DEF RecvRefuse, lifeVars
  <2>2. UNCHANGED <<pc, ctl, windowVars, writeVars>>
    BY <1>9 DEF RecvRefuse, streamRest
  <2>. QED  BY <1>6, <1>8, <2>1, <2>2
<1>10. CASE RecvShort(e)
  <2>. DEFINE frame == Head(wire[p])
  <2>1. /\ wire[p] # << >> /\ frame.type = "data" /\ ~Refused(e, frame)
        /\ UNCHANGED <<sendWindow, sent, granted, credit, ctl, writeVars, pc>>
    BY <1>10 DEF RecvShort
  <2>2. CASE UNCHANGED <<recvWindow, rcvd>> /\ (Shutdown(e, "ErrRead", cut) \/ (wire' = cut /\ UNCHANGED shutdownErr))
    <3>1. UNCHANGED <<pc, ctl, windowVars, writeVars>>
      BY <2>1, <2>2 DEF windowVars
    <3>. QED  BY <1>6, <1>8, <2>2, <3>1
  <2>3. CASE /\ recvWindow' = [recvWindow EXCEPT ![e] = @ - frame.len]
             /\ rcvd' = [rcvd EXCEPT ![e] = @ + frame.len]
             /\ wire' = cut /\ UNCHANGED shutdownErr
    <3>1. frame.len \in Nat /\ frame.len <= sent[p] - rcvd[e]
      BY <2>1, HeadOrder
    <3>2. frame.len <= recvWindow[e]
      BY <1>3, <2>1, <3>1 DEF Refused
    <3>3. wire'[p] = << >> /\ wire'[e] = wire[e]
      BY <1>1, <1>2, <2>3
    <3>4. rcvd[e] + frame.len \in Int /\ rcvd[e] + frame.len <= sent[p]
      BY <1>3, <3>1
    <3>5. credit[e] + 0 = credit[e] /\ credit[e] <= Announced(p) /\ 0 \in Nat
      BY <1>3, <1>4 DEF Ordered
    <3>6. Ordered(<< >>, "data", rcvd[e] + frame.len, sent[p])
      BY <1>3, <3>4, OrderedEmpty
    <3>7. Ordered(<< >>, "window", credit[e] + 0, Announced(p))
      BY <1>3, <3>5, OrderedEmpty
    <3>8. sendWindow' = [sendWindow EXCEPT ![e] = @ + 0] /\ credit' = [credit EXCEPT ![e] = @ + 0]
      <4>1. sendWindow \in [Sides -> Nat] /\ credit \in [Sides -> Nat]
        BY DEF TypeOK
      <4>. QED  BY <2>1, <4>1, AddZero
    <3>9. \A d \in Sides : shutdownErr[d] # "nil" => shutdownErr'[d] # "nil"
      BY <2>3
    <3>10. UNCHANGED <<pc, ctl, granted, sent, writeVars>>
      BY <2>1
    <3>. QED  BY <1>4, <2>3, <3>1, <3>2, <3>3, <3>5, <3>6, <3>7, <3>8, <3>9, <3>10, RecvStep
  <2>. QED  BY <1>10, <2>2, <2>3 DEF RecvShort, lifeVars
<1>. QED  BY <1>5, <1>7, <1>9, <1>10

(* Every action keeps the accounts. *)
LEMMA FlowStep ==
    ASSUME TypeOK, OpenedFirst, FlowAccounts, TypeOK', Next
    PROVE  FlowAccounts'
<1>. USE DEF windowVars, writeVars, lifeVars
<1>1. CASE Setup
  <2>1. PICK e \in Sides : /\ pc[e]["setup"] \notin {"send", "flush"}
                           /\ \E l : l \notin {"send", "flush"} /\ Goto(e, "setup", l)
    BY <1>1, TaskFacts DEF Setup, OpenCheck, OpenRegister, AcceptStream, AcceptShutdown
  <2>2. UNCHANGED <<ctl, wire, windowVars, writeVars, shutdownErr>>
    BY <1>1 DEF Setup, OpenCheck, OpenRegister, AcceptStream, AcceptShutdown
  <2>. QED  BY <2>1, <2>2, TaskFacts, QuietStep
<1>2. ASSUME NEW e \in Sides, CloseCall(e) PROVE FlowAccounts'
  <2>1. /\ pc[e]["closer"] = "idle" /\ UNCHANGED <<ctl, wire, windowVars, writeVars, shutdownErr>>
        /\ Goto(e, "closer", "fin") \/ Goto(e, "closer", "done")
    BY <1>2 DEF CloseCall
  <2>. QED  BY <2>1, TaskFacts, QuietStep
<1>3. ASSUME NEW e \in Sides, NEW r \in Readers[e], Read(e, r) \/ ReadCall(e, r) \/ ReadTimeout(e, r)
      PROVE  FlowAccounts'
  <2>1. /\ pc[e][r] \notin {"send", "flush"}
        /\ \E l : l \notin {"send", "flush"} /\ Goto(e, r, l)
        /\ UNCHANGED <<ctl, wire, windowVars, writeVars, shutdownErr>>
    BY <1>3 DEF Read, ReadCheck, ReadTake, ReadWake, ReadCall, ReadTimeout
  <2>. QED  BY <2>1, TaskFacts, QuietStep
<1>4. ASSUME NEW e \in Sides, NEW t \in CtlTasks(e), Control(e, t) PROVE FlowAccounts'
  <2>1. CASE ControlSent(e, t)
    <3>1. /\ pc[e][t] = "flush" /\ Goto(e, t, After(t))
          /\ UNCHANGED <<lifeVars, wire, sendWindow, sent, rcvd, granted, credit, writeVars>>
      BY <2>1 DEF ControlSent
    <3>3. /\ ctl'[e] = Free /\ recvWindow'[e] = recvWindow[e] + ctl[e].delta
          /\ \A d \in Sides : d # e => ctl'[d] = ctl[d] /\ recvWindow'[d] = recvWindow[d]
      BY <2>1 DEF ControlSent, TypeOK
    <3>2. After(t) \notin {"send", "flush"}
      BY DEF After
    <3>. QED  BY <3>1, <3>2, <3>3, ReleasedFlow
  <2>2. CASE ControlFailed(e, t)
    <3>1. /\ pc[e][t] \in {"send", "flush"} /\ Shut(e) /\ Goto(e, t, Failed(t))
          /\ UNCHANGED <<lifeVars, wire, sendWindow, sent, rcvd, granted, credit, writeVars>>
      BY <2>2 DEF ControlFailed
    <3>3. /\ ctl'[e] = Free /\ recvWindow' = recvWindow
          /\ \A d \in Sides : d # e => ctl'[d] = ctl[d] /\ recvWindow'[d] = recvWindow[d]
      BY <2>2 DEF ControlFailed, TypeOK
    <3>2. Failed(t) \notin {"send", "flush"}
      BY DEF Failed
    <3>. QED  BY <3>1, <3>2, <3>3, ReleasedFlow
  <2>. QED  BY <1>4, <2>1, <2>2, LoadUpdateFlow, SendControlFlow DEF Control
<1>5. ASSUME NEW e \in Sides, Write(e) \/ WriteCall(e) \/ WriteTimeout(e) PROVE FlowAccounts'
  <2>1. /\ \A d \in Sides : sendWindow[d] \in Nat /\ todo[d] \in Nat /\ wlen[d] \in Nat
        /\ \A d \in Sides : todo'[d] \in Nat /\ wlen'[d] \in Nat
    BY DEF TypeOK
  <2>2. /\ wlen[e] <= sendWindow[e] /\ wlen[e] <= todo[e]
        /\ pc[e]["writer"] \notin {"send", "flush"} => wlen[e] = 0
    BY DEF FlowAccounts, WriterBound
  <2>3. CASE WriteCheck(e)
    <3>1. /\ pc[e]["writer"] = "start" /\ wlen[e] = 0
          /\ UNCHANGED <<ctl, wire, windowVars, shutdownErr>>
          /\ \A d \in Sides : d # e => wlen'[d] = wlen[d] /\ todo'[d] = todo[d]
      BY <2>2, <2>3 DEF WriteCheck, TypeOK
    <3>2. CASE \E l \in {"stopped", "wait"} : Goto(e, "writer", l) /\ wlen' = wlen
      BY <2>1, <3>1, <3>2, WriterStep
    <3>3. CASE /\ Goto(e, "writer", "send") /\ todo' = todo
               /\ wlen' = [wlen EXCEPT ![e] = MinOf(sendWindow[e], todo[e])]
      <4>1. wlen'[e] = MinOf(sendWindow[e], todo[e])
        BY <3>3 DEF TypeOK
      <4>2. wlen'[e] <= sendWindow[e] /\ wlen'[e] <= todo'[e]
        BY <2>1, <3>3, <4>1 DEF MinOf
      <4>. QED  BY <3>1, <3>3, <4>2, WriterStep
    <3>. QED  BY <2>3, <3>2, <3>3 DEF WriteCheck
  <2>4. CASE WriteFailed(e)
    <3>1. /\ Shut(e) /\ Goto(e, "writer", "stopped")
          /\ UNCHANGED <<ctl, wire, windowVars, shutdownErr>>
          /\ wlen'[e] = 0 /\ \A d \in Sides : d # e => wlen'[d] = wlen[d] /\ todo'[d] = todo[d]
      BY <2>4 DEF WriteFailed, TypeOK
    <3>. QED  BY <2>1, <3>1, WriterStep
  <2>5. CASE WriteWake(e) \/ WriteCall(e) \/ WriteTimeout(e)
    <3>1. /\ wlen' = wlen /\ pc[e]["writer"] \in {"idle", "wait"}
          /\ UNCHANGED <<ctl, wire, windowVars, shutdownErr>>
          /\ \A d \in Sides : d # e => todo'[d] = todo[d]
      BY <2>5 DEF WriteWake, WriteCall, WriteTimeout, TypeOK
    <3>2. Goto(e, "writer", "start") \/ Goto(e, "writer", "idle")
      BY <2>5 DEF WriteWake, WriteCall, WriteTimeout
    <3>3. wlen'[e] = 0 /\ wlen'[e] <= sendWindow[e] /\ wlen'[e] <= todo'[e]
      BY <2>1, <2>2, <3>1
    <3>. QED  BY <3>1, <3>2, <3>3, WriterStep
  <2>. QED  BY <1>5, <2>3, <2>4, <2>5, WriteSendFlow, WriteSentFlow DEF Write
<1>6. ASSUME NEW e \in Sides, Recv(e) \/ SessionClose(e) \/ SendFail(e) PROVE FlowAccounts'
  <2>1. ASSUME RecvSYN(e) \/ RecvWindow(e) PROVE FlowAccounts'
    <3>1. wire[Peer(e)] # << >>
      BY <2>1 DEF RecvSYN, RecvWindow
    <3>2. Head(wire[Peer(e)]) \in Frames
      BY <3>1, RecvType
    <3>3. Head(wire[Peer(e)]).type = "window"
      BY <2>1, <3>2 DEF RecvSYN, RecvWindow, Frames
    <3>. QED  BY <2>1, <3>3, RecvWindowFlow
  <2>. QED  BY <1>6, <2>1, RecvDataFlow, RecvOtherFlow DEF Recv
<1>. QED  BY <1>1, <1>2, <1>3, <1>4, <1>5, <1>6, LoadCloseFlow DEF Next

-----------------------------------------------------------------------------
(* The theorems *)

(* The inductive invariant: the types, the handshake, the accounts. *)
FlowInv == TypeOK /\ OpenedFirst /\ FlowAccounts

(* The inductive invariant holds before the stream exists. *)
LEMMA FlowInit == Init => FlowInv
<1>. SUFFICES ASSUME Init PROVE FlowInv
  OBVIOUS
<1>1. << >> \in Seq(Frames) /\ << >> \in Seq(Nat)
  BY EmptySeq
<1>2. TypeOK
  BY <1>1, WindowAssumption DEF Init, TypeOK, Free, Flags, Locations
<1>3. OpenedFirst
  BY TaskFacts DEF Init, OpenedFirst, Ready
<1>4. CtlLock
  BY NotWriter DEF Init, CtlLock, Free
<1>5. WriterBound /\ SenderAccount
  BY TaskFacts, WindowAssumption DEF Init, WriterBound, SenderAccount, Shut
<1>6. ReceiverAccount
  BY WindowAssumption DEF Init, ReceiverAccount, Shut, Free
<1>7. DataOrder /\ CreditOrder
  <2>1. ASSUME NEW e \in Sides
        PROVE  /\ wire[e] = << >> /\ rcvd[Peer(e)] = 0 /\ sent[e] = 0
               /\ credit[Peer(e)] = 0 /\ Announced(e) = 0
    BY PeerOf DEF Init, Announced, Unsent, Sending, Free
  <2>. QED  BY <2>1, OrderedEmpty DEF DataOrder, CreditOrder
<1>. QED  BY <1>2, <1>3, <1>4, <1>5, <1>6, <1>7 DEF FlowInv, FlowAccounts

(* Every step keeps the inductive invariant. *)
LEMMA FlowNext == FlowInv /\ [Next]_vars => FlowInv'
<1>. SUFFICES ASSUME FlowInv, [Next]_vars PROVE FlowInv'
  OBVIOUS
<1>1. TypeOK /\ OpenedFirst /\ FlowAccounts
  BY DEF FlowInv
<1>2. CASE Next
  BY <1>1, <1>2, TypeStep, OpenedFirstStep, FlowStep DEF FlowInv
<1>3. CASE UNCHANGED vars
  <2>. USE <1>1, <1>3 DEF vars, lifeVars, windowVars, bufVars, notifyVars, writeVars
  <2>1. TypeOK'
    BY DEF TypeOK
  <2>2. OpenedFirst'
    BY DEF OpenedFirst, Ready
  <2>3. CtlLock' /\ WriterBound'
    BY DEF FlowAccounts, CtlLock, WriterBound, Free
  <2>4. SenderAccount' /\ ReceiverAccount'
    BY DEF FlowAccounts, SenderAccount, ReceiverAccount, Shut
  <2>5. \A e \in Sides : Announced(e)' = Announced(e)
    BY DEF Announced, Unsent, Sending
  <2>6. DataOrder' /\ CreditOrder'
    BY <2>5 DEF FlowAccounts, DataOrder, CreditOrder
  <2>. QED  BY <2>1, <2>2, <2>3, <2>4, <2>6 DEF FlowInv, FlowAccounts
<1>. QED  BY <1>2, <1>3

(* The flow control of stream.go keeps its books: in every reachable state the
   windows of both ends are the credit given and received less the bytes sent
   and received, whatever the window sizes and the number of readers. *)
THEOREM AccountsHold == Spec => []FlowAccounts
<1>1. FlowInv => FlowAccounts
  BY DEF FlowInv
<1>. QED  BY FlowInit, FlowNext, <1>1, PTL DEF Spec

(* OpenStream and AcceptStream send the first frame of their end before the
   stream is handed to a user. *)
THEOREM OpensFirst == Spec => []OpenedFirst
<1>1. FlowInv => OpenedFirst
  BY DEF FlowInv
<1>. QED  BY <1>1, FlowInit, FlowNext, PTL DEF Spec

(* Type correctness: no window of stream.go is ever negative. *)
THEOREM TypesHold == Spec => []TypeOK
<1>1. FlowInv => TypeOK
  BY DEF FlowInv
<1>. QED  BY FlowInit, FlowNext, <1>1, PTL DEF Spec

(* The grant under way at an end is unsent or pending. *)
LEMMA GrantUnderWay ==
    ASSUME FlowInv, NEW e \in Sides
    PROVE  ctl[e].delta = Unsent(e) + Pending(e)
<1>1. TypeOK /\ FlowAccounts
  BY DEF FlowInv
<1>2. ctl[e].delta \in Nat
  BY <1>1, Numbers
<1>3. CASE ctl[e].holder = "free"
  <2>1. ctl[e].delta = 0
    BY <1>1, <1>3 DEF FlowAccounts, CtlLock, Free
  <2>. QED  BY <1>2, <1>3, <2>1 DEF Unsent, Pending, Sending
<1>4. CASE ctl[e].holder # "free"
  <2>1. pc[e][ctl[e].holder] \in {"send", "flush"}
    BY <1>1, <1>4 DEF FlowAccounts, CtlLock
  <2>. QED  BY <1>2, <1>4, <2>1 DEF Unsent, Pending, Sending
<1>. QED  BY <1>3, <1>4

(* The numbers of an end and of its peer. *)
LEMMA FlowFacts ==
    ASSUME FlowInv, NEW e \in Sides, NEW p, p = Peer(e)
    PROVE  /\ sent[e] \in Nat /\ rcvd[p] \in Nat /\ credit[e] \in Nat /\ granted[p] \in Nat
           /\ sendWindow[e] \in Nat /\ recvWindow[p] \in Nat /\ wlen[e] \in Nat
           /\ Unsent(p) \in Nat /\ Pending(p) \in Nat /\ Window \in Nat /\ MaxWindow[p] \in Nat
           /\ sent[e] <= Window + credit[e] /\ credit[e] <= granted[p] - Unsent(p)
           /\ rcvd[p] <= sent[e]
           /\ ~Shut(p) => recvWindow[p] + Unsent(p) + Pending(p) + rcvd[p] = Window + granted[p]
           /\ recvWindow[p] + Unsent(p) + Pending(p) <= MaxWindow[p]
           /\ ~Shut(e) => sendWindow[e] + sent[e] <= Window + credit[e] + wlen[e]
<1>1. TypeOK /\ FlowAccounts /\ p \in Sides /\ Peer(p) = e
  BY PeerOf DEF FlowInv
<1>2. /\ sent[e] \in Nat /\ rcvd[p] \in Nat /\ credit[e] \in Nat /\ granted[p] \in Nat
      /\ sendWindow[e] \in Nat /\ recvWindow[p] \in Nat /\ wlen[e] \in Nat
      /\ Window \in Nat /\ MaxWindow[p] \in Nat /\ ctl[p].delta \in Nat
  BY <1>1, Numbers
<1>3. Unsent(p) \in Nat /\ Pending(p) \in Nat
  BY <1>2 DEF Unsent, Pending
<1>4. ctl[p].delta = Unsent(p) + Pending(p)
  BY <1>1, GrantUnderWay
<1>5. credit[e] <= granted[p] - Unsent(p)
  <2>1. Ordered(wire[p], "window", credit[e], Announced(p))
    BY <1>1 DEF FlowAccounts, CreditOrder
  <2>. QED  BY <2>1 DEF Ordered, Announced
<1>6. rcvd[p] <= sent[e]
  BY <1>1 DEF FlowAccounts, DataOrder, Ordered
<1>7. /\ sent[e] <= Window + credit[e]
      /\ ~Shut(e) => sendWindow[e] + sent[e] =
                        Window + credit[e] + (IF pc[e]["writer"] = "flush" THEN wlen[e] ELSE 0)
  BY <1>1 DEF FlowAccounts, SenderAccount
<1>8. ~Shut(e) => sendWindow[e] + sent[e] <= Window + credit[e] + wlen[e]
  BY <1>2, <1>7
<1>9. /\ ~Shut(p) => recvWindow[p] + ctl[p].delta + rcvd[p] = Window + granted[p]
      /\ recvWindow[p] + ctl[p].delta <= MaxWindow[p]
  BY <1>1 DEF FlowAccounts, ReceiverAccount
<1>10. /\ ~Shut(p) => recvWindow[p] + Unsent(p) + Pending(p) + rcvd[p] = Window + granted[p]
       /\ recvWindow[p] + Unsent(p) + Pending(p) <= MaxWindow[p]
  BY <1>2, <1>3, <1>4, <1>9
<1>. QED  BY <1>2, <1>3, <1>5, <1>6, <1>7, <1>8, <1>10

(* The accounts bound what is in flight by the receiver's window. *)
LEMMA CoversFlight == FlowInv => WindowCoversFlight
<1>. SUFFICES ASSUME FlowInv, NEW e \in Sides, ~Shut(Peer(e))
              PROVE  sent[e] - rcvd[Peer(e)] <= recvWindow[Peer(e)] + Pending(Peer(e))
  BY DEF WindowCoversFlight
<1>. DEFINE p == Peer(e)
<1>1. /\ sent[e] \in Nat /\ rcvd[p] \in Nat /\ credit[e] \in Nat /\ granted[p] \in Nat
      /\ recvWindow[p] \in Nat /\ Unsent(p) \in Nat /\ Pending(p) \in Nat /\ Window \in Nat
      /\ sent[e] <= Window + credit[e] /\ credit[e] <= granted[p] - Unsent(p)
      /\ recvWindow[p] + Unsent(p) + Pending(p) + rcvd[p] = Window + granted[p]
  BY FlowFacts
<1>. QED  BY <1>1

(* What is in flight towards an end is within the window it checks it against
   and the update it is writing: a sender that obeys stream.go's write never
   runs further ahead. *)
THEOREM WindowCovers == Spec => []WindowCoversFlight
BY FlowInit, FlowNext, CoversFlight, PTL DEF Spec

(* The accounts bound each window by what it may hold. *)
LEMMA WrapFree == FlowInv => NoWindowWrap
<1>. SUFFICES ASSUME FlowInv, NEW e \in Sides
              PROVE  /\ wlen[e] <= sendWindow[e]
                     /\ recvWindow[e] + ctl[e].delta <= MaxWindow[e]
                     /\ ~Broken => sendWindow[e] <= MaxWindow[Peer(e)] + wlen[e]
  BY DEF NoWindowWrap
<1>1. wlen[e] <= sendWindow[e] /\ recvWindow[e] + ctl[e].delta <= MaxWindow[e]
  BY DEF FlowInv, FlowAccounts, WriterBound, ReceiverAccount
<1>2. ASSUME ~Broken PROVE sendWindow[e] <= MaxWindow[Peer(e)] + wlen[e]
  <2>. DEFINE p == Peer(e)
  <2>1. ~Shut(e) /\ ~Shut(p)
    BY <1>2, PeerOf DEF Broken
  <2>2. /\ sent[e] \in Nat /\ rcvd[p] \in Nat /\ credit[e] \in Nat /\ granted[p] \in Nat
        /\ sendWindow[e] \in Nat /\ recvWindow[p] \in Nat /\ wlen[e] \in Nat
        /\ Unsent(p) \in Nat /\ Pending(p) \in Nat /\ Window \in Nat /\ MaxWindow[p] \in Nat
        /\ credit[e] <= granted[p] - Unsent(p) /\ rcvd[p] <= sent[e]
        /\ recvWindow[p] + Unsent(p) + Pending(p) + rcvd[p] = Window + granted[p]
        /\ recvWindow[p] + Unsent(p) + Pending(p) <= MaxWindow[p]
        /\ sendWindow[e] + sent[e] <= Window + credit[e] + wlen[e]
    BY <2>1, FlowFacts
  <2>. QED  BY <2>2
<1>. QED  BY <1>1, <1>2

(* The unsigned arithmetic of the windows stays in range: write, sendWindowUpdate
   and readData never subtract more than there is, and no window outgrows the
   configured maximum. *)
THEOREM NoWrap == Spec => []NoWindowWrap
BY FlowInit, FlowNext, WrapFree, PTL DEF Spec

(* A frame that exceeds the window arrives only while an update is being written. *)
LEMMA GapStep ==
    FlowInv /\ [Next]_vars =>
        [\A e \in Sides : shutdownErr[e] = "nil" /\ shutdownErr'[e] = "ErrRecvWindowExceeded"
             => Pending(e) > 0]_vars
<1>. SUFFICES ASSUME FlowInv, Next, NEW e \in Sides, shutdownErr[e] = "nil",
                     shutdownErr'[e] = "ErrRecvWindowExceeded"
              PROVE  Pending(e) > 0
  OBVIOUS
<1>. DEFINE p == Peer(e)
            frame == Head(wire[p])
<1>1. TypeOK /\ FlowAccounts /\ p \in Sides /\ Peer(p) = e
  BY PeerOf DEF FlowInv
<1>2. /\ wire[p] # << >> /\ frame.type = "data" /\ frame.len > recvWindow[e]
  <2>1. ASSUME NEW d \in Sides, NEW err, err # "ErrRecvWindowExceeded", NEW w, Shutdown(d, err, w)
        PROVE  FALSE
    BY <1>1, <2>1 DEF Shutdown, TypeOK
  <2>2. shutdownErr' # shutdownErr
    OBVIOUS
  <2>3. PICK d \in Sides : RecvRefuse(d) \/ RecvShort(d) \/ RecvEOF(d) \/ SessionClose(d) \/ SendFail(d)
    <3>1. ~Setup
      BY <2>2 DEF Setup, OpenCheck, OpenRegister, AcceptStream, AcceptShutdown, lifeVars
    <3>2. ASSUME NEW d \in Sides PROVE ~(Write(d) \/ WriteCall(d) \/ WriteTimeout(d))
      BY <2>2 DEF Write, WriteCheck, WriteSend, WriteSent, WriteFailed, WriteWake, WriteCall,
                  WriteTimeout, lifeVars
    <3>3. ASSUME NEW d \in Sides, NEW t PROVE ~Control(d, t)
      BY <2>2 DEF Control, LoadUpdate, SendControl, ControlSent, ControlFailed, lifeVars
    <3>4. ASSUME NEW d \in Sides, NEW r PROVE ~(Read(d, r) \/ ReadCall(d, r) \/ ReadTimeout(d, r))
      BY <2>2 DEF Read, ReadCheck, ReadTake, ReadWake, ReadCall, ReadTimeout, lifeVars
    <3>5. ASSUME NEW d \in Sides
          PROVE  ~(CloseCall(d) \/ LoadClose(d) \/ RecvSYN(d) \/ RecvReject(d) \/ RecvMissing(d)
                     \/ RecvWindow(d) \/ RecvData(d))
      BY <2>2 DEF CloseCall, LoadClose, RecvSYN, RecvReject, RecvMissing, RecvWindow, RecvData, lifeVars
    <3>. QED  BY <3>1, <3>2, <3>3, <3>4, <3>5 DEF Next, Recv
  <2>4. ~(RecvShort(d) \/ RecvEOF(d) \/ SessionClose(d) \/ SendFail(d))
    BY <2>1, <2>2 DEF RecvShort, RecvEOF, SessionClose, SendFail, lifeVars
  <2>5. RecvRefuse(d)
    BY <2>3, <2>4
  <2>. DEFINE g == Head(wire[Peer(d)])
              err == CASE g.flag = "SYN" -> "ErrDuplicateStream"
                       [] UnexpectedFlag(state[d], g.flag) -> "ErrUnexpectedFlag"
                       [] OTHER -> "ErrRecvWindowExceeded"
  <2>6. Shutdown(d, err, [wire EXCEPT ![Peer(d)] = << >>]) /\ Refused(d, g) /\ wire[Peer(d)] # << >>
    BY <2>2, <2>5 DEF RecvRefuse, lifeVars
  <2>7. err = "ErrRecvWindowExceeded"
    BY <2>1, <2>6
  <2>8. g.flag # "SYN" /\ ~UnexpectedFlag(state[d], g.flag)
    BY <2>7
  <2>9. d = e
    BY <1>1, <2>2, <2>6 DEF Shutdown, TypeOK
  <2>. QED  BY <2>6, <2>8, <2>9 DEF Refused
<1>3. frame.len \in Nat /\ frame.len <= sent[p] - rcvd[e]
  BY <1>1, <1>2, HeadOrder
<1>4. sent[p] - rcvd[e] <= recvWindow[e] + Pending(e)
  BY <1>1, CoversFlight DEF WindowCoversFlight, Shut
<1>5. recvWindow[e] \in Nat /\ Pending(e) \in Nat /\ sent[p] \in Nat /\ rcvd[e] \in Nat
  BY <1>1, FlowFacts
<1>. QED  BY <1>2, <1>3, <1>4, <1>5

(* Between two correct ends, recv refuses data for the window only while the
   receiver's own window update is written and not yet counted: the race of
   sendWindowUpdate is the one cause of ErrRecvWindowExceeded. *)
THEOREM OnlyInGap == Spec => WindowErrorOnlyInGap
BY FlowInit, FlowNext, GapStep, PTL DEF Spec, WindowErrorOnlyInGap
=============================================================================
