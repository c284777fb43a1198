--------------------------- MODULE WebSocketProofs ---------------------------
(***************************************************************************)
(* Three goroutines of the agent write frames of several parts to one      *)
(* connection; the frames stay whole for every number of frames, every     *)
(* peer and every place where the connection may fail or fill up.  In the  *)
(* other direction Read returns the bytes the peer sent, in order.  And    *)
(* the agent stops only where the peer is to move, has stopped reading, or *)
(* the connection is released.                                             *)
(***************************************************************************)
EXTENDS WebSocket, SequenceTheorems, TLAPS

Part == [kind : {"data", "pong", "close"}, id : Nat, part : Nat, of : Nat]
Frame == [op : {"data", "close", "ping", "pong"}, masked : BOOLEAN, body : Seq(Nat)]

Types ==
    /\ inbound \in Seq(Frame) /\ pings \in Seq(Nat) /\ sent \in Nat
    /\ pong \in Nat /\ writes \in Nat
    /\ wio \in Tasks \cup {free} /\ failed \in BOOLEAN
    /\ left \in Seq(Part) /\ wire \in Seq(Part)

(* What is left of a frame are its last parts, in order. *)
LastParts ==
    /\ \A i \in 1..Len(left) : left[i].part = left[i].of - Len(left) + i /\ left[i].part >= i
    /\ \A i \in 1..(Len(left) - 1) : left[i + 1] = [left[i] EXCEPT !.part = @ + 1]

(* Who holds the lock is the only one with parts to write; a writer that has failed once
   writes no more. *)
LockGuards == (wio = free \/ failed) => left = <<>>

(* How what is left continues what is on the wire: as the next part of the last frame or,
   that one being complete, as a frame of its own.  Only a failure leaves a frame cut. *)
Last == wire[Len(wire)]
Continues ==
    wire # <<>> =>
        /\ left = <<>> => failed \/ Last.part >= Last.of
        /\ left # <<>> => \/ left[1].part = 1 /\ Last.part >= Last.of
                          \/ left[1] = [Last EXCEPT !.part = @ + 1]

WholeInv == Types /\ LastParts /\ LockGuards /\ Continues /\ FramesWhole

LEMMA InitWhole == Init => WholeInv
<1> SUFFICES ASSUME Init PROVE WholeInv
    OBVIOUS
<1>0. /\ inbound = <<>> /\ pings = <<>> /\ sent = 0 /\ pong = 0 /\ writes = 0
      /\ wio = free /\ failed = FALSE /\ left = <<>> /\ wire = <<>>
    BY DEF Init
<1>1. Types
    <2>1. failed \in BOOLEAN
        BY <1>0, Zenon
    <2>2. inbound \in Seq(Frame) /\ pings \in Seq(Nat) /\ left \in Seq(Part) /\ wire \in Seq(Part)
        BY <1>0
    <2>3. sent \in Nat /\ pong \in Nat /\ writes \in Nat /\ wio \in Tasks \cup {free}
        BY <1>0
    <2> QED BY <2>1, <2>2, <2>3 DEF Types
<1>2. left = <<>> /\ wire = <<>> /\ Len(left) = 0 /\ Len(wire) = 0
    BY <1>0
<1> QED BY <1>1, <1>2 DEF WholeInv, LastParts, LockGuards, Continues, FramesWhole

(* Whatever leaves the writing side alone. *)
LEMMA AsideKeeps ==
    ASSUME WholeInv, UNCHANGED <<wio, left, failed, wire>>, Types'
    PROVE  WholeInv'
BY DEF WholeInv, LastParts, LockGuards, Continues, Last, FramesWhole

LEMMA PartsOfFrame ==
    ASSUME NEW kind \in {"data", "pong", "close"}, NEW id \in Nat, NEW n \in Nat
    PROVE  /\ Parts(kind, id, n) \in Seq(Part)
           /\ Len(Parts(kind, id, n)) = n
           /\ \A i \in 1..n : Parts(kind, id, n)[i] = [kind |-> kind, id |-> id, part |-> i, of |-> n]
<1>1. \A i \in 1..n : [kind |-> kind, id |-> id, part |-> i, of |-> n] \in Part
    BY DEF Part
<1> QED BY <1>1 DEF Parts

LEMMA StartKeeps ==
    ASSUME WholeInv, NEW t \in Tasks, StartFrame(t)
    PROVE  WholeInv'
<1> DEFINE kind == Writing[pc[t]]
           id == CASE kind = "data" -> writes [] kind = "pong" -> pong [] OTHER -> 0
<1>1. /\ wio = free /\ wio' = t
      /\ UNCHANGED <<inbound, pings, sent, pong, writes, failed, wire>>
      /\ pc[t] \in DOMAIN Writing
    BY DEF StartFrame, Wants, LockFree, readVars, peerVars
<1>2. kind \in {"data", "pong", "close"}
    BY <1>1 DEF Writing
<1>3. id \in Nat
    BY <1>2 DEF WholeInv, Types
<1>4. PICK n \in 1..2 : left' = IF failed THEN <<>> ELSE Parts(kind, id, n)
    BY DEF StartFrame
<1>5. left = <<>>
    BY <1>1 DEF WholeInv, LockGuards
<1> HIDE DEF kind, id
<1>6. CASE failed
    <2>1. left' = left /\ Types'
        BY <1>1, <1>4, <1>5, <1>6 DEF WholeInv, Types
    <2> QED BY <1>1, <1>5, <1>6, <2>1 DEF WholeInv, LastParts, LockGuards, Continues, Last, FramesWhole
<1>7. CASE ~failed
    <2> DEFINE p == Parts(kind, id, n)
    <2>1. /\ p \in Seq(Part) /\ Len(p) = n
          /\ \A i \in 1..n : p[i] = [kind |-> kind, id |-> id, part |-> i, of |-> n]
        <3>1. n \in Nat
            BY <1>4
        <3> QED BY <1>2, <1>3, <3>1, PartsOfFrame, SMTT(30)
    <2>2. left' = p
        BY <1>4, <1>7
    <2> HIDE DEF p
    <2>3. Types'
        BY <1>1, <2>1, <2>2 DEF WholeInv, Types
    <2>4. LastParts'
        <3>1. \A i \in 1..n : p[i].part = i /\ p[i].of = n
            BY <2>1
        <3>2. \A i \in 1..(n - 1) : p[i + 1] = [p[i] EXCEPT !.part = @ + 1]
            BY <2>1
        <3> QED BY <2>1, <2>2, <3>1, <3>2 DEF LastParts
    <2>5. LockGuards'
        BY <1>1, <1>7 DEF LockGuards, Tasks, free, WholeInv, Types
    <2>6. left'[1].part = 1 /\ left' # <<>>
        BY <2>1, <2>2
    <2>7. Continues'
        BY <1>1, <1>5, <1>7, <2>6 DEF WholeInv, Continues, Last
    <2> QED BY <1>1, <2>3, <2>4, <2>5, <2>7 DEF WholeInv, FramesWhole
<1> QED BY <1>6, <1>7

LEMMA WriteKeeps ==
    ASSUME WholeInv, NEW t \in Tasks, WritePart(t)
    PROVE  WholeInv'
<1>1. /\ left # <<>> /\ wire' = Append(wire, Head(left)) /\ left' = Tail(left)
      /\ UNCHANGED <<inbound, pings, sent, pong, writes, failed, wio>>
    BY DEF WritePart, readVars, peerVars
<1>2. left \in Seq(Part) /\ wire \in Seq(Part) /\ Len(left) \in Nat \ {0} /\ Len(wire) \in Nat
    BY <1>1 DEF WholeInv, Types
<1>3. Types'
    BY <1>1, <1>2 DEF WholeInv, Types
<1>4. \A i \in 1..Len(left') : left'[i] = left[i + 1] /\ i + 1 \in 1..Len(left)
    BY <1>1, <1>2
<1>5. Len(left') = Len(left) - 1
    BY <1>1, <1>2
<1>6. \A i \in 1..Len(left) : left[i] \in Part /\ left[i].part \in Nat /\ left[i].of \in Nat
    <2>1. \A i \in 1..Len(left) : left[i] \in Part
        BY <1>2
    <2> QED BY <2>1 DEF Part
<1>7. LastParts'
    <2>1. ASSUME NEW i \in 1..Len(left')
          PROVE  left'[i].part = left'[i].of - Len(left') + i /\ left'[i].part >= i
        <3>1. i + 1 \in 1..Len(left) /\ left'[i] = left[i + 1]
            BY <1>4
        <3>2. left[i + 1].part = left[i + 1].of - Len(left) + (i + 1) /\ left[i + 1].part >= i + 1
            BY <3>1 DEF WholeInv, LastParts
        <3>3. left[i + 1].part \in Nat /\ left[i + 1].of \in Nat /\ i \in Nat
            BY <1>6, <3>1
        <3>4. Len(left') = Len(left) - 1 /\ Len(left) \in Nat
            BY <1>2, <1>5
        <3> DEFINE part == left[i + 1].part
                   of == left[i + 1].of
                   before == Len(left)
                   after == Len(left')
        <3>5. part \in Nat /\ of \in Nat /\ i \in Nat /\ before \in Nat /\ after = before - 1
            BY <3>3, <3>4
        <3>6. part = of - before + (i + 1) /\ part >= i + 1
            BY <3>2
        <3> HIDE DEF part, of, before, after
        <3>7. part = of - after + i /\ part >= i
            BY <3>5, <3>6
        <3>8. left[i + 1].part = left[i + 1].of - Len(left') + i
            BY <3>7 DEF part, of, after
        <3>9. left[i + 1].part >= i
            BY <3>7 DEF part
        <3> QED BY <3>1, <3>8, <3>9
    <2>2. ASSUME NEW i \in 1..(Len(left') - 1)
          PROVE  left'[i + 1] = [left'[i] EXCEPT !.part = @ + 1]
        <3>1. i + 1 \in 1..(Len(left) - 1)
            BY <1>2, <1>5
        <3>2. left[(i + 1) + 1] = [left[i + 1] EXCEPT !.part = @ + 1]
            BY <3>1 DEF WholeInv, LastParts
        <3>3. left'[i] = left[i + 1] /\ left'[i + 1] = left[(i + 1) + 1]
            BY <1>2, <1>4, <1>5
        <3> QED BY <3>2, <3>3
    <2> QED BY <2>1, <2>2 DEF LastParts
<1>8. LockGuards'
    BY <1>1 DEF WholeInv, LockGuards
<1>9. /\ Len(wire') = Len(wire) + 1
      /\ wire'[Len(wire')] = left[1]
      /\ \A i \in 1..Len(wire) : wire'[i] = wire[i]
    BY <1>1, <1>2
<1>10. Continues'
    <2>1. CASE left' = <<>>
        <3>1. Len(left) = 1
            BY <1>2, <1>5, <2>1
        <3>2. left[1].part = left[1].of
            BY <1>6, <3>1 DEF WholeInv, LastParts
        <3>3. Last'.part >= Last'.of
            BY <1>2, <1>6, <1>9, <3>2 DEF Last
        <3> QED BY <2>1, <3>3 DEF Continues
    <2>2. CASE left' # <<>>
        <3>1. Len(left) > 1
            BY <1>1, <1>2, <1>5, <2>2
        <3>2. left'[1] = left[2] /\ left[2] = [left[1] EXCEPT !.part = @ + 1]
            BY <1>2, <1>4, <1>5, <3>1 DEF WholeInv, LastParts
        <3>3. Last' = left[1]
            BY <1>9 DEF Last
        <3> QED BY <2>2, <3>2, <3>3 DEF Continues
    <2> QED BY <2>1, <2>2
<1>11. FramesWhole'
    <2> SUFFICES ASSUME NEW i \in 1..(Len(wire') - 1), wire'[i].part < wire'[i].of
                 PROVE  wire'[i + 1] = [wire'[i] EXCEPT !.part = @ + 1]
        BY DEF FramesWhole
    <2>1. CASE i < Len(wire)
        <3>1. i \in 1..(Len(wire) - 1) /\ i + 1 \in 1..Len(wire) /\ i \in 1..Len(wire)
            BY <1>2, <1>9, <2>1
        <3> QED BY <1>9, <3>1 DEF WholeInv, FramesWhole
    <2>2. CASE i = Len(wire)
        <3>1. wire # <<>> /\ wire'[i] = Last /\ wire'[i + 1] = left[1]
            BY <1>2, <1>9, <2>2 DEF Last
        <3>2. Last \in Part
            BY <1>2, <2>2, <1>9 DEF Last
        <3>3. ~ (Last.part >= Last.of)
            BY <3>1, <3>2 DEF Part
        <3> QED BY <1>1, <3>1, <3>3 DEF WholeInv, Continues
    <2> QED BY <1>2, <1>9, <2>1, <2>2
<1> QED BY <1>3, <1>7, <1>8, <1>10, <1>11 DEF WholeInv

LEMMA FailKeeps ==
    ASSUME WholeInv, NEW t \in Tasks, WriteFails(t)
    PROVE  WholeInv'
<1>1. /\ left' = <<>> /\ failed' = TRUE
      /\ UNCHANGED <<inbound, pings, sent, pong, writes, wire, wio>>
    BY DEF WriteFails, readVars, peerVars
<1>2. Types'
    BY <1>1 DEF WholeInv, Types
<1> QED BY <1>1, <1>2 DEF WholeInv, LastParts, LockGuards, Continues, FramesWhole

LEMMA EndKeeps ==
    ASSUME WholeInv, NEW t \in Tasks, EndFrame(t)
    PROVE  WholeInv'
<1>1. /\ wio' = free /\ left = <<>>
      /\ UNCHANGED <<inbound, pings, sent, pong, writes, wire, left, failed>>
    BY DEF EndFrame, Unlocked, readVars, peerVars
<1>2. Types'
    BY <1>1 DEF WholeInv, Types
<1> QED BY <1>1, <1>2 DEF WholeInv, LastParts, LockGuards, Continues, Last, FramesWhole

LEMMA PeerSendsKeeps ==
    ASSUME WholeInv, PeerSends
    PROVE  WholeInv'
<1>1. UNCHANGED <<wio, left, failed, wire, pong, writes>>
    BY DEF PeerSends, readVars, writeVars
<1>2. PICK f \in Frames :
         /\ inbound' = Append(inbound,
                [op |-> f.op, masked |-> f.masked,
                 body |-> [i \in 1..f.size |-> IF f.op = "data" THEN sent + i ELSE Len(pings) + 1]])
         /\ sent' = IF f.op = "data" THEN sent + f.size ELSE sent
         /\ pings' = IF f.op = "ping" THEN Append(pings, sent) ELSE pings
    BY DEF PeerSends
<1>3. f.op \in {"data", "close", "ping", "pong"} /\ f.size \in Nat /\ f.masked \in BOOLEAN
    BY FrameAssumption
<1>4. inbound \in Seq(Frame) /\ pings \in Seq(Nat) /\ sent \in Nat /\ Len(pings) \in Nat
    BY DEF WholeInv, Types
<1> DEFINE body == [i \in 1..f.size |-> IF f.op = "data" THEN sent + i ELSE Len(pings) + 1]
<1>5. body \in Seq(Nat)
    <2>1. \A i \in 1..f.size : (IF f.op = "data" THEN sent + i ELSE Len(pings) + 1) \in Nat
        BY <1>3, <1>4
    <2> QED BY <1>3, <2>1
<1> HIDE DEF body
<1>6. [op |-> f.op, masked |-> f.masked, body |-> body] \in Frame
    BY <1>3, <1>5 DEF Frame
<1>7. inbound' \in Seq(Frame)
    BY <1>2, <1>4, <1>6 DEF body
<1>8. sent' \in Nat /\ pings' \in Seq(Nat)
    BY <1>2, <1>3, <1>4
<1>9. Types'
    BY <1>1, <1>7, <1>8 DEF WholeInv, Types
<1> QED BY <1>1, <1>9, AsideKeeps

LEMMA ReadFrameKeeps ==
    ASSUME WholeInv, ReadFrame
    PROVE  WholeInv'
<1>1. UNCHANGED <<wio, left, failed, wire, writes, sent, pings>>
    BY DEF ReadFrame, writeVars
<1>2. inbound \in Seq(Frame) /\ inbound # <<>> /\ inbound' = Tail(inbound)
    BY DEF WholeInv, Types, ReadFrame
<1>3. Head(inbound) \in Frame /\ inbound' \in Seq(Frame)
    BY <1>2
<1>4. pong' \in Nat
    <2>1. pong' = IF HandleFrame(Head(inbound)) = "pong" THEN Head(Head(inbound).body) ELSE 0
        BY DEF ReadFrame
    <2>2. HandleFrame(Head(inbound)) = "pong" => Head(inbound).body # <<>>
        BY <1>3 DEF HandleFrame, Frame
    <2>3. Head(inbound).body \in Seq(Nat)
        BY <1>3 DEF Frame
    <2> QED BY <2>1, <2>2, <2>3
<1>5. Types'
    BY <1>1, <1>3, <1>4 DEF WholeInv, Types
<1> QED BY <1>1, <1>5, AsideKeeps

LEMMA NextWhole ==
    ASSUME WholeInv, [Next]_vars
    PROVE  WholeInv'
<1> USE DEF shakeVars, readVars, writeVars, closeVars, peerVars
<1> DEFINE Same == UNCHANGED <<inbound, pings, sent, pong, wio, left, failed, wire, writes>>
<1>a. ASSUME Same PROVE WholeInv'
    <2>1. Types'
        BY <1>a DEF WholeInv, Types
    <2> QED BY <1>a, <2>1, AsideKeeps
<1>1. ASSUME SendRequest \/ Dialed \/ PeerReads \/ PeerHangsUp PROVE Same
    BY <1>1 DEF SendRequest, Dialed, PeerReads, PeerHangsUp
<1>2. ASSUME ServeWebSocket \/ ReadPayload \/ ReadFails \/ SendStops \/ ServeEnds \/ Return PROVE Same
    BY <1>2 DEF ServeWebSocket, ReadPayload, ReadFails, SendStops, ServeEnds, Return
<1>3. ASSUME NEW t \in Tasks, SessionClose(t) \/ HangUp(t) \/ SessionClosed(t) PROVE Same
    BY <1>3 DEF SessionClose, HangUp, SessionClosed
<1>4. ASSUME SendData PROVE WholeInv'
    <2>1. UNCHANGED <<inbound, pings, sent, pong, wio, left, failed, wire>> /\ writes' = writes + 1
        BY <1>4 DEF SendData
    <2>2. Types'
        BY <2>1 DEF WholeInv, Types
    <2> QED BY <2>1, <2>2, AsideKeeps
<1>5. ASSUME UNCHANGED vars PROVE Same
    BY <1>5 DEF vars
<1> HIDE DEF Same
<1>6. CASE Next
    <2>1. CASE Peer
        BY <2>1, <1>a, <1>1, PeerSendsKeeps DEF Peer
    <2>2. CASE Agent
        BY <2>2, <1>a, <1>2, <1>3, <1>4, ReadFrameKeeps, StartKeeps, WriteKeeps, FailKeeps, EndKeeps DEF Agent
    <2> QED BY <1>6, <2>1, <2>2 DEF Next
<1> QED BY <1>6, <1>5, <1>a

(* FramesWhole for every instance: whatever goroutines write, wherever the connection
   fails or fills up, no frame gets into another. *)
THEOREM FramesStayWhole == Spec => []FramesWhole
<1>1. Init => WholeInv
    BY InitWhole
<1>2. WholeInv /\ [Next]_vars => WholeInv'
    BY NextWhole
<1>3. WholeInv => FramesWhole
    BY DEF WholeInv
<1> QED BY <1>1, <1>2, <1>3, PTL DEF Spec

-----------------------------------------------------------------------------
(* What Read returns *)

(* Before the reader gives up, the bytes behind it, those left of its frame and those on
   their way are the bytes sent: the frame k of inbound begins behind base[k] of them. *)
Bytes(f) == IF f.op = "data" THEN Len(f.body) ELSE 0
Places(base) ==
    /\ base \in [1..(Len(inbound) + 1) -> Nat]
    /\ base[1] = Len(delivered) + Len(rest)
    /\ base[Len(inbound) + 1] = sent
    /\ \A k \in 1..Len(inbound) :
          /\ base[k + 1] = base[k] + Bytes(inbound[k])
          /\ inbound[k].op = "data" =>
                \A i \in 1..Len(inbound[k].body) : inbound[k].body[i] = base[k] + i
RestFollows == \A i \in 1..Len(rest) : rest[i] = Len(delivered) + i
Reading == pc["recv"] \in {"unborn", "read", "pong"}

Labels == {"handshake", "serving", "unborn", "read", "pong", "refuse", "exit", "idle", "data",
           "close", "lastclose", "unlock", "hangup", "return", "done"}
ReadTypes ==
    /\ pc \in [Tasks -> Labels]
    /\ delivered \in Seq(Nat) /\ rest \in Seq(Nat)
Born == pc["serve"] = "handshake" => pc["recv"] = "unborn"
ReadInv ==
    /\ ReadTypes /\ Born /\ ReadsInOrder
    /\ Reading => RestFollows /\ \E base : Places(base)

LEMMA InitRead == Init => ReadInv
<1> SUFFICES ASSUME Init PROVE ReadInv
    OBVIOUS
<1>1. /\ pc = [t \in Tasks |-> IF t = "serve" THEN "handshake" ELSE "unborn"]
      /\ inbound = <<>> /\ sent = 0 /\ rest = <<>> /\ delivered = <<>>
    BY DEF Init
<1>2. ReadTypes /\ Born
    BY <1>1 DEF ReadTypes, Born, Tasks, Labels
<1>3. ReadsInOrder /\ RestFollows
    BY <1>1 DEF ReadsInOrder, RestFollows
<1>4. Places([k \in 1..(Len(inbound) + 1) |-> 0])
    <2>1. Len(inbound) = 0 /\ Len(delivered) = 0 /\ Len(rest) = 0
        BY <1>1
    <2> QED BY <1>1, <2>1 DEF Places
<1> QED BY <1>2, <1>3, <1>4 DEF ReadInv

(* Steps that move no data and do not take the reader back. *)
LEMMA ElsewhereKeeps ==
    ASSUME ReadInv, UNCHANGED <<inbound, sent, delivered, rest>>,
           pc' \in [Tasks -> Labels], Reading' => Reading,
           Born'
    PROVE  ReadInv'
<1>1. ASSUME NEW base, Places(base) PROVE Places(base)'
    BY <1>1 DEF Places
<1>2. RestFollows => RestFollows'
    BY DEF RestFollows
<1>3. ReadTypes' /\ ReadsInOrder'
    BY DEF ReadInv, ReadTypes, ReadsInOrder
<1> QED BY <1>1, <1>2, <1>3 DEF ReadInv

(* The frame sent begins where the bytes sent end. *)
LEMMA SentFollows ==
    ASSUME WholeInv, ReadInv, PeerSends
    PROVE  /\ ReadInv'
           /\ \A base : Places(base) =>
                 \E b : Places(b)' /\ \A k \in 1..(Len(inbound) + 1) : b[k] = base[k]
<1>1. PICK f \in Frames :
         /\ inbound' = Append(inbound,
                [op |-> f.op, masked |-> f.masked,
                 body |-> [i \in 1..f.size |-> IF f.op = "data" THEN sent + i ELSE Len(pings) + 1]])
         /\ sent' = IF f.op = "data" THEN sent + f.size ELSE sent
    BY DEF PeerSends
<1>2. UNCHANGED <<pc, delivered, rest>>
    BY DEF PeerSends, readVars
<1>3. f.size \in Nat /\ sent \in Nat /\ inbound \in Seq(Frame) /\ Len(inbound) \in Nat
    BY FrameAssumption DEF WholeInv, Types
<1>n. PICK n \in Nat : n = Len(inbound)
    BY <1>3
<1> DEFINE body == [i \in 1..f.size |-> IF f.op = "data" THEN sent + i ELSE Len(pings) + 1]
           g == [op |-> f.op, masked |-> f.masked, body |-> body]
<1>4. Bytes(g) = IF f.op = "data" THEN f.size ELSE 0
    <2>1. Len(body) = f.size
        BY <1>3
    <2> QED BY <2>1 DEF Bytes
<1>5. g.op = "data" => \A i \in 1..Len(g.body) : g.body[i] = sent + i
    BY <1>3
<1> HIDE DEF body
<1>6. /\ Len(inbound') = n + 1 /\ inbound'[n + 1] = g
      /\ \A k \in 1..n : inbound'[k] = inbound[k]
    BY <1>1, <1>3, <1>n DEF body
<1> HIDE DEF g
<1>7. sent' = sent + Bytes(g) /\ Bytes(g) \in Nat
    BY <1>1, <1>3, <1>4
<1>8. ASSUME NEW base, Places(base)
      PROVE  \E b : Places(b)' /\ \A k \in 1..(Len(inbound) + 1) : b[k] = base[k]
    <2>1. /\ base \in [1..(n + 1) -> Nat] /\ base[n + 1] = sent
          /\ base[1] = Len(delivered) + Len(rest)
        BY <1>8, <1>n DEF Places
    <2>2. PICK b \in [1..(n + 2) -> Nat] : (\A k \in 1..(n + 1) : b[k] = base[k]) /\ b[n + 2] = sent'
        <3> DEFINE c == [k \in 1..(n + 2) |-> IF k = n + 2 THEN sent' ELSE base[k]]
        <3>1. sent' \in Nat
            BY <1>3, <1>7
        <3>2. c \in [1..(n + 2) -> Nat] /\ (\A k \in 1..(n + 1) : c[k] = base[k]) /\ c[n + 2] = sent'
            BY <2>1, <3>1
        <3> QED BY <3>2
    <2>3. ASSUME NEW k \in 1..(n + 1)
          PROVE  /\ b[k + 1] = b[k] + Bytes(inbound'[k])
                 /\ inbound'[k].op = "data" =>
                       \A i \in 1..Len(inbound'[k].body) : inbound'[k].body[i] = b[k] + i
        <3>1. CASE k \in 1..n
            <4>1. /\ base[k + 1] = base[k] + Bytes(inbound[k])
                  /\ inbound[k].op = "data" =>
                       \A i \in 1..Len(inbound[k].body) : inbound[k].body[i] = base[k] + i
                BY <1>8, <1>n, <3>1 DEF Places
            <4>2. b[k + 1] = base[k + 1] /\ b[k] = base[k] /\ inbound'[k] = inbound[k]
                BY <1>3, <1>6, <2>2, <3>1
            <4> QED BY <4>1, <4>2
        <3>2. CASE k = n + 1
            <4>1. b[k] = sent /\ b[k + 1] = sent + Bytes(g) /\ inbound'[k] = g
                BY <1>3, <1>6, <1>7, <2>1, <2>2, <3>2
            <4> QED BY <1>5, <4>1
        <3> QED BY <1>3, <3>1, <3>2
    <2>4. b[1] = Len(delivered') + Len(rest')
        BY <1>2, <1>3, <2>1, <2>2
    <2>5. Places(b)'
        <3>1. Len(inbound') + 1 = n + 2
            BY <1>6
        <3> QED BY <1>6, <2>2, <2>3, <2>4, <3>1 DEF Places, Bytes
    <2> QED BY <1>n, <2>2, <2>5
<1>9. RestFollows => RestFollows'
    BY <1>2 DEF RestFollows
<1>10. ReadTypes' /\ Born' /\ ReadsInOrder' /\ (Reading' <=> Reading)
    BY <1>2 DEF ReadInv, ReadTypes, Born, ReadsInOrder, Reading
<1> QED BY <1>8, <1>9, <1>10 DEF ReadInv

(* The next frame becomes the reader's. *)
LEMMA FrameFollows ==
    ASSUME WholeInv, ReadInv, ReadFrame
    PROVE  /\ ReadInv'
           /\ Reading' => \A base : Places(base) =>
                 \E b : Places(b)' /\ \A k \in 1..Len(inbound) : b[k] = base[k + 1]
<1> DEFINE f == Head(inbound)
<1>n. PICK n \in Nat : n = Len(inbound)
    BY DEF WholeInv, Types
<1>1. /\ pc["recv"] = "read" /\ rest = <<>> /\ inbound # <<>> /\ inbound' = Tail(inbound)
      /\ pc' = [pc EXCEPT !["recv"] = HandleFrame(f)]
      /\ rest' = IF HandleFrame(f) = "read" THEN f.body ELSE <<>>
      /\ UNCHANGED <<delivered, sent>>
    BY DEF ReadFrame, Goto
<1>2. inbound \in Seq(Frame) /\ n \in Nat \ {0} /\ f \in Frame /\ f = inbound[1]
    BY <1>1, <1>n DEF WholeInv, Types
<1>3. /\ Len(inbound') = n - 1
      /\ \A k \in 1..(n - 1) : inbound'[k] = inbound[k + 1] /\ k + 1 \in 1..n
    BY <1>1, <1>2, <1>n
<1>4. HandleFrame(f) \in {"refuse", "read", "pong", "exit"}
    BY DEF HandleFrame
<1>5. f.body \in Seq(Nat)
    BY <1>2 DEF Frame
<1> HIDE DEF f
<1>6. pc' \in [Tasks -> Labels] /\ pc'["recv"] = HandleFrame(f) /\ pc'["serve"] = pc["serve"]
    BY <1>1, <1>4 DEF ReadInv, ReadTypes, Tasks, Labels
<1>7. ReadTypes' /\ Born' /\ ReadsInOrder'
    BY <1>1, <1>5, <1>6 DEF ReadInv, ReadTypes, Born, ReadsInOrder
<1>8. ASSUME Reading', NEW base, Places(base)
      PROVE  RestFollows' /\ \E b : Places(b)' /\ \A k \in 1..Len(inbound) : b[k] = base[k + 1]
    <2>2. /\ base \in [1..(n + 1) -> Nat] /\ base[1] = Len(delivered) /\ base[n + 1] = sent
          /\ base[1 + 1] = base[1] + Bytes(f)
          /\ f.op = "data" => \A i \in 1..Len(f.body) : f.body[i] = base[1] + i
        <3>1. Len(rest) = 0 /\ 1 \in 1..n
            BY <1>1, <1>2
        <3>2. Len(delivered) \in Nat
            BY DEF ReadInv, ReadTypes
        <3>3. base \in [1..(n + 1) -> Nat] /\ base[1] = Len(delivered) + Len(rest) /\ base[n + 1] = sent
            BY <1>n, <1>8 DEF Places
        <3>4. /\ base[1 + 1] = base[1] + Bytes(inbound[1])
              /\ inbound[1].op = "data" =>
                    \A i \in 1..Len(inbound[1].body) : inbound[1].body[i] = base[1] + i
            BY <1>n, <1>8, <3>1 DEF Places
        <3> QED BY <1>2, <3>1, <3>2, <3>3, <3>4
    <2>3. \/ HandleFrame(f) = "read" /\ f.op = "data" /\ rest' = f.body
          \/ HandleFrame(f) = "pong" /\ f.op # "data" /\ rest' = <<>>
        BY <1>1, <1>4, <1>6, <1>8 DEF Reading, HandleFrame
    <2>4. Len(rest') = Bytes(f)
        BY <2>3 DEF Bytes
    <2>5. RestFollows'
        <3>1. CASE rest' = f.body /\ f.op = "data"
            BY <1>1, <2>2, <3>1 DEF RestFollows
        <3>2. CASE rest' = <<>>
            BY <3>2 DEF RestFollows
        <3> QED BY <2>3, <3>1, <3>2
    <2>6. PICK b \in [1..n -> Nat] : \A k \in 1..n : b[k] = base[k + 1]
        <3> DEFINE c == [k \in 1..n |-> base[k + 1]]
        <3>1. c \in [1..n -> Nat] /\ \A k \in 1..n : c[k] = base[k + 1]
            BY <1>2, <2>2
        <3> QED BY <3>1
    <2>7. b[1] = Len(delivered') + Len(rest') /\ b[n] = sent'
        <3>1. 1 \in 1..n /\ n \in 1..n
            BY <1>2
        <3>2. b[1] = base[1 + 1] /\ b[n] = base[n + 1]
            BY <2>6, <3>1
        <3>3. base[1] = Len(delivered) /\ base[1 + 1] = base[1] + Bytes(f) /\ base[n + 1] = sent
            BY <2>2
        <3>4. Len(delivered') = Len(delivered) /\ sent' = sent
            BY <1>1
        <3> QED BY <2>4, <3>2, <3>3, <3>4
    <2>8. ASSUME NEW k \in 1..(n - 1)
          PROVE  /\ b[k + 1] = b[k] + Bytes(inbound'[k])
                 /\ inbound'[k].op = "data" =>
                       \A i \in 1..Len(inbound'[k].body) : inbound'[k].body[i] = b[k] + i
        <3>1. k + 1 \in 1..n /\ k \in 1..n /\ inbound'[k] = inbound[k + 1]
            BY <1>2, <1>3, SMTT(30)
        <3>2. b[k + 1] = base[(k + 1) + 1] /\ b[k] = base[k + 1]
            BY <2>6, <3>1
        <3>3. /\ base[(k + 1) + 1] = base[k + 1] + Bytes(inbound[k + 1])
              /\ inbound[k + 1].op = "data" =>
                   \A i \in 1..Len(inbound[k + 1].body) : inbound[k + 1].body[i] = base[k + 1] + i
            BY <1>n, <1>8, <3>1 DEF Places
        <3> QED BY <3>1, <3>2, <3>3
    <2>9. Places(b)'
        <3>1. Len(inbound') + 1 = n
            BY <1>2, <1>3
        <3> QED BY <1>3, <2>6, <2>7, <2>8, <3>1 DEF Places, Bytes
    <2> QED BY <1>n, <2>5, <2>6, <2>9
<1>9. Reading' => RestFollows' /\ \E b : Places(b)'
    <2>1. Reading' => \E base : Places(base)
        BY <1>1 DEF ReadInv, Reading
    <2> QED BY <1>8, <2>1
<1> QED BY <1>7, <1>8, <1>9 DEF ReadInv

(* Read returns the next bytes of the frame. *)
LEMMA PayloadFollows ==
    ASSUME WholeInv, ReadInv, ReadPayload
    PROVE  ReadInv'
<1>1. PICK n \in 1..Len(rest) :
         delivered' = delivered \o SubSeq(rest, 1, n) /\ rest' = SubSeq(rest, n + 1, Len(rest))
    BY DEF ReadPayload, KeepsRest
<1>2. pc["recv"] = "read" /\ UNCHANGED <<pc, inbound, sent>>
    BY DEF ReadPayload, peerVars
<1>3. delivered \in Seq(Nat) /\ rest \in Seq(Nat) /\ Len(delivered) \in Nat /\ Len(rest) \in Nat
    BY DEF ReadInv, ReadTypes
<1>4. RestFollows /\ (\E base : Places(base)) /\ ReadsInOrder
    BY <1>2 DEF ReadInv, Reading
<1> DEFINE s == SubSeq(rest, 1, n)
<1>5. s \in Seq(Nat) /\ Len(s) = n /\ \A i \in 1..n : s[i] = rest[i]
    BY <1>1, <1>3
<1>6. /\ rest' \in Seq(Nat) /\ Len(rest') = Len(rest) - n
      /\ \A i \in 1..Len(rest') : rest'[i] = rest[n + i] /\ n + i \in 1..Len(rest)
    BY <1>1, <1>3
<1> HIDE DEF s
<1>7. /\ delivered' \in Seq(Nat) /\ Len(delivered') = Len(delivered) + n
      /\ \A i \in 1..Len(delivered') :
            delivered'[i] = IF i <= Len(delivered) THEN delivered[i] ELSE s[i - Len(delivered)]
    BY <1>1, <1>3, <1>5 DEF s
<1>8. ReadsInOrder'
    <2> SUFFICES ASSUME NEW i \in 1..Len(delivered') PROVE delivered'[i] = i
        BY DEF ReadsInOrder
    <2>1. CASE i <= Len(delivered)
        <3>1. i \in 1..Len(delivered)
            BY <1>3, <2>1
        <3>2. delivered[i] = i
            BY <1>4, <3>1 DEF ReadsInOrder
        <3> QED BY <1>7, <2>1, <3>2
    <2>2. CASE i > Len(delivered)
        <3>1. i - Len(delivered) \in 1..n /\ i - Len(delivered) \in 1..Len(rest)
            BY <1>1, <1>3, <1>7, <2>2
        <3>2. rest[i - Len(delivered)] = Len(delivered) + (i - Len(delivered))
            BY <1>4, <3>1 DEF RestFollows
        <3>3. delivered'[i] = s[i - Len(delivered)] /\ s[i - Len(delivered)] = rest[i - Len(delivered)]
            BY <1>3, <1>5, <1>7, <2>2, <3>1, SMTT(30)
        <3> QED BY <1>3, <3>2, <3>3
    <2> QED BY <1>3, <1>7, <2>1, <2>2
<1>9. RestFollows'
    <2> SUFFICES ASSUME NEW i \in 1..Len(rest') PROVE rest'[i] = Len(delivered') + i
        BY DEF RestFollows
    <2>1. rest'[i] = rest[n + i] /\ rest[n + i] = Len(delivered) + (n + i)
        BY <1>4, <1>6 DEF RestFollows
    <2> QED BY <1>3, <1>7, <2>1
<1>10. ASSUME NEW base, Places(base) PROVE Places(base)'
    <2>1. Len(delivered') + Len(rest') = Len(delivered) + Len(rest)
        BY <1>3, <1>6, <1>7
    <2> QED BY <1>2, <1>10, <2>1 DEF Places
<1>11. ReadTypes' /\ Born'
    BY <1>2, <1>6, <1>7 DEF ReadInv, ReadTypes, Born
<1> QED BY <1>4, <1>8, <1>9, <1>10, <1>11 DEF ReadInv

(* A goroutine goes on elsewhere. *)
LEMMA GotoKeeps ==
    ASSUME ReadInv, NEW t \in Tasks, NEW l \in Labels, Goto(t, l),
           t = "recv" => pc["recv"] \notin {"unborn"} /\ (l \in {"unborn", "read", "pong"} => Reading),
           t = "serve" => l # "handshake",
           UNCHANGED <<inbound, sent, delivered, rest>>
    PROVE  ReadInv'
<1>1. pc \in [Tasks -> Labels] /\ pc' = [pc EXCEPT ![t] = l] /\ "recv" \in Tasks /\ "serve" \in Tasks
    BY DEF ReadInv, ReadTypes, Goto, Tasks
<1>2. pc' \in [Tasks -> Labels]
    BY <1>1
<1>3. pc'["recv"] = (IF t = "recv" THEN l ELSE pc["recv"]) /\ pc'["serve"] = (IF t = "serve" THEN l ELSE pc["serve"])
    BY <1>1
<1>4. Reading' => Reading
    BY <1>3 DEF Reading
<1>5. Born'
    BY <1>3 DEF Born, ReadInv
<1> QED BY <1>2, <1>4, <1>5, ElsewhereKeeps

LEMMA NextRead ==
    ASSUME WholeInv, ReadInv, [Next]_vars
    PROVE  ReadInv'
<1> USE DEF shakeVars, readVars, writeVars, closeVars, peerVars
<1> DEFINE Data == UNCHANGED <<inbound, sent, delivered, rest>>
<1>a. ASSUME Data, pc' = pc PROVE ReadInv'
    BY <1>a, ElsewhereKeeps DEF ReadInv, ReadTypes, Reading, Born
<1>1. ASSUME SendRequest \/ Dialed \/ PeerReads \/ PeerHangsUp PROVE ReadInv'
    BY <1>1, <1>a DEF SendRequest, Dialed, PeerReads, PeerHangsUp
<1>2. ASSUME ServeWebSocket PROVE ReadInv'
    <2>1. Data /\ pc["serve"] = "handshake"
        BY <1>2 DEF ServeWebSocket
    <2>2. Reading
        BY <2>1 DEF ReadInv, Born, Reading
    <2>3. CASE pc' = [recv |-> "read", send |-> "idle", serve |-> "serving"]
        <3>1. pc' \in [Tasks -> Labels]
            BY <2>3 DEF Tasks, Labels
        <3>2. pc'["serve"] = "serving"
            BY <2>3
        <3> QED BY <2>1, <2>2, <3>1, <3>2, ElsewhereKeeps DEF Born
    <2>4. CASE Goto("serve", "return")
        BY <2>1, <2>4, GotoKeeps DEF Tasks, Labels
    <2> QED BY <1>2, <2>3, <2>4 DEF ServeWebSocket, Goto
<1>3. ASSUME ReadFails PROVE ReadInv'
    <2>1. Data /\ Goto("recv", "exit") /\ pc["recv"] = "read"
        BY <1>3 DEF ReadFails
    <2> QED BY <2>1, GotoKeeps DEF Tasks, Labels, Reading
<1>4. ASSUME SendData \/ SendStops \/ ServeEnds \/ Return PROVE ReadInv'
    <2>1. Data /\ (Goto("send", "data") \/ Goto("send", "done") \/ Goto("serve", "exit") \/ Goto("serve", "done"))
        BY <1>4 DEF SendData, SendStops, ServeEnds, Return
    <2> QED BY <2>1, GotoKeeps DEF Tasks, Labels, Reading
<1>5. ASSUME NEW t \in Tasks, StartFrame(t) \/ WritePart(t) \/ WriteFails(t) PROVE ReadInv'
    BY <1>5, <1>a DEF StartFrame, WritePart, WriteFails
<1>6. ASSUME NEW t \in Tasks, EndFrame(t) PROVE ReadInv'
    <2>1. Data /\ Goto(t, After(t)) /\ pc[t] \in {"data", "pong", "refuse", "close", "lastclose"}
        BY <1>6 DEF EndFrame, Writing
    <2>2. /\ After(t) \in {"exit", "idle", "read", "unlock", "hangup", "return"}
          /\ After(t) = "read" => pc[t] = "pong"
        BY <2>1 DEF After
    <2> QED BY <2>1, <2>2, GotoKeeps DEF Reading, Labels
<1>7. ASSUME NEW t \in Tasks, SessionClose(t) \/ HangUp(t) \/ SessionClosed(t) PROVE ReadInv'
    <2>1. PICK l \in {"lastclose", "done", "close", "unlock", "return"} : Goto(t, l)
        BY <1>7 DEF SessionClose, HangUp, SessionClosed, Closed
    <2>2. Data /\ pc[t] \in {"exit", "hangup", "unlock"}
        BY <1>7 DEF SessionClose, HangUp, SessionClosed
    <2> QED BY <2>1, <2>2, GotoKeeps DEF Labels
<1>8. ASSUME UNCHANGED vars PROVE ReadInv'
    BY <1>8, <1>a DEF vars
<1> HIDE DEF Data
<1>9. CASE Next
    <2>1. CASE Peer
        BY <2>1, <1>1, SentFollows DEF Peer
    <2>2. CASE Agent
        BY <2>2, <1>2, <1>3, <1>4, <1>5, <1>6, <1>7, FrameFollows, PayloadFollows DEF Agent
    <2> QED BY <1>9, <2>1, <2>2 DEF Next
<1> QED BY <1>8, <1>9

(* ReadsInOrder for every instance: whatever frames the peer sends and however Read cuts
   them, it returns the bytes sent, in order, until the reader gives up. *)
THEOREM ReadsAreInOrder == Spec => []ReadsInOrder
<1>1. Init => WholeInv /\ ReadInv
    BY InitWhole, InitRead
<1>2. WholeInv /\ ReadInv /\ [Next]_vars => WholeInv' /\ ReadInv'
    BY NextWhole, NextRead
<1>3. ReadInv => ReadsInOrder
    BY DEF ReadInv
<1> QED BY <1>1, <1>2, <1>3, PTL DEF Spec

-----------------------------------------------------------------------------
(* The handshake *)

(* The client has an answer only from newServerConn, and the reader exists exactly if that
   answer is 101. *)
Agrees ==
    /\ request = NoRequest \/ request \in Requests
    /\ request = NoRequest \/ pc["serve"] = "handshake" => reply = NoReply
    /\ reply = NoReply => dialErr = none /\ pc["recv"] = "unborn"
    /\ reply # NoReply =>
          reply = NewServerConn(request) /\ (reply.status = "101" <=> pc["recv"] # "unborn")
    /\ dialErr # none => dialErr = ClientHandshake(request, reply)

(* The client's check of an answer to its own request. *)
LEMMA ClientAccepts ==
    ASSUME NEW r \in Requests
    PROVE  /\ NewServerConn(r) # NoReply
           /\ ClientHandshake(r, NewServerConn(r)) # none
           /\ ClientHandshake(r, NewServerConn(r)) = "nil" <=> NewServerConn(r).status = "101"
<1>1. r.protocols \in Seq({"p", "q"}) /\ r.key \in {"", "k"}
    BY RequestAssumption
<1>2. NewServerConn(r).status \in {"405", "400", "403", "101"}
    BY DEF NewServerConn, Refusal, ReadHandshake
<1>3. ASSUME NewServerConn(r).status = "101"
      PROVE  /\ ~ManyProtocols(r)
             /\ NewServerConn(r) = [status |-> "101", upgrade |-> TRUE, accept |-> r.key, protocol |-> r.protocols]
    BY <1>3 DEF NewServerConn, Refusal, ReadHandshake
<1>4. ASSUME NewServerConn(r).status = "101" PROVE ClientHandshake(r, NewServerConn(r)) = "nil"
    <2>1. r.protocols # <<>> => 1 \in DOMAIN r.protocols /\ <<r.protocols[1]>> = r.protocols
        <3> SUFFICES ASSUME r.protocols # <<>>
                     PROVE  1 \in DOMAIN r.protocols /\ <<r.protocols[1]>> = r.protocols
            OBVIOUS
        <3>1. ~(Len(r.protocols) > 1)
            BY <1>3, <1>4 DEF ManyProtocols
        <3>3. PICK names \in Seq({"p", "q"}) : names = r.protocols
            BY <1>1
        <3>4. names # <<>> /\ ~(Len(names) > 1)
            BY <3>1, <3>3
        <3>5. Len(names) = 1
            <4>1. PICK n \in Nat \ {0} : n = Len(names)
                BY <3>4, EmptySeq
            <4>2. ~(n > 1)
                BY <3>4, <4>1
            <4>3. n = 1
                BY <4>1, <4>2
            <4> QED BY <4>1, <4>3
        <3>6. 1 \in DOMAIN names /\ names[1] \in {"p", "q"}
            <4>1. names \in [1..1 -> {"p", "q"}]
                BY <3>5, LenProperties
            <4> QED BY <4>1
        <3>7. <<names[1]>> \in Seq({"p", "q"}) /\ Len(<<names[1]>>) = 1 /\ <<names[1]>>[1] = names[1]
            BY <3>6
        <3>8. <<names[1]>> = names
            BY <3>5, <3>7, SeqEqual
        <3> QED BY <3>3, <3>6, <3>8
    <2> QED BY <1>3, <1>4, <2>1 DEF ClientHandshake
<1>5. NewServerConn(r).status # "101" => ClientHandshake(r, NewServerConn(r)) = "ErrBadStatus"
    BY DEF ClientHandshake
<1>6. NewServerConn(r) # NoReply
    BY <1>2 DEF NoReply, none
<1> QED BY <1>4, <1>5, <1>6 DEF none

(* Where a goroutine goes, it neither unmakes the reader nor goes back to the handshake. *)
LEMMA Moves ==
    ASSUME ReadInv, [Next]_vars, ~ServeWebSocket
    PROVE  /\ pc["recv"] = "unborn" <=> pc'["recv"] = "unborn"
           /\ pc'["serve"] = "handshake" => pc["serve"] = "handshake"
<1>1. \/ pc' = pc
      \/ \E t \in Tasks, l \in Labels \ {"unborn", "handshake"} : Goto(t, l) /\ pc[t] # "unborn"
    <2>1. ASSUME NEW t \in Tasks, EndFrame(t)
          PROVE  \E l \in Labels \ {"unborn", "handshake"} : Goto(t, l) /\ pc[t] # "unborn"
        BY <2>1 DEF EndFrame, After, Writing, Labels
    <2>2. ASSUME NEW t \in Tasks, SessionClose(t) \/ HangUp(t) \/ SessionClosed(t)
          PROVE  \E l \in Labels \ {"unborn", "handshake"} : Goto(t, l) /\ pc[t] # "unborn"
        <3>1. PICK l \in {"lastclose", "done", "close", "unlock", "return"} : Goto(t, l)
            BY <2>2 DEF SessionClose, HangUp, SessionClosed, Closed
        <3>2. pc[t] \in {"exit", "hangup", "unlock"}
            BY <2>2 DEF SessionClose, HangUp, SessionClosed
        <3> QED BY <3>1, <3>2 DEF Labels
    <2>3. ASSUME NEW t \in Tasks, StartFrame(t) \/ WritePart(t) \/ WriteFails(t) PROVE pc' = pc
        BY <2>3 DEF StartFrame, WritePart, WriteFails
    <2>4. ASSUME SendData \/ SendStops
          PROVE  \E l \in Labels \ {"unborn", "handshake"} : Goto("send", l) /\ pc["send"] # "unborn"
        BY <2>4 DEF SendData, SendStops, Labels
    <2>5. ASSUME ServeEnds \/ Return
          PROVE  \E l \in Labels \ {"unborn", "handshake"} : Goto("serve", l) /\ pc["serve"] # "unborn"
        BY <2>5 DEF ServeEnds, Return, Labels
    <2>6. ASSUME ReadFrame \/ ReadFails
          PROVE  \E l \in Labels \ {"unborn", "handshake"} : Goto("recv", l) /\ pc["recv"] # "unborn"
        <3>1. HandleFrame(Head(inbound)) \in {"refuse", "read", "pong", "exit"}
            BY DEF HandleFrame
        <3>2. PICK l \in {"refuse", "read", "pong", "exit"} : Goto("recv", l) /\ pc["recv"] = "read"
            BY <2>6, <3>1 DEF ReadFrame, ReadFails
        <3> QED BY <3>2 DEF Labels
    <2>7. ASSUME ReadPayload \/ Peer \/ UNCHANGED vars PROVE pc' = pc
        BY <2>7 DEF ReadPayload, Peer, SendRequest, Dialed, PeerSends, PeerReads, PeerHangsUp, vars
    <2> QED BY <2>1, <2>2, <2>3, <2>4, <2>5, <2>6, <2>7 DEF Next, Agent, Tasks
<1>2. pc \in [Tasks -> Labels] /\ "recv" \in Tasks /\ "serve" \in Tasks
    BY DEF ReadInv, ReadTypes, Tasks
<1> QED BY <1>1, <1>2 DEF Goto

(* The answer is given, and looked at, once. *)
LEMMA NextAgrees ==
    ASSUME ReadInv, Agrees, [Next]_vars
    PROVE  Agrees'
<1>1. CASE ServeWebSocket
    <2>1. /\ pc["serve"] = "handshake" /\ request \in Requests /\ request' = request
          /\ reply = NoReply /\ dialErr = none /\ dialErr' = none /\ pc["recv"] = "unborn"
        BY <1>1 DEF ServeWebSocket, Agrees
    <2>2. pc \in [Tasks -> Labels] /\ "recv" \in Tasks /\ "serve" \in Tasks
        BY DEF ReadInv, ReadTypes, Tasks
    <2>3. CASE /\ reply' = NewServerConn(request)
               /\ pc' = IF reply'.status = "101"
                        THEN [recv |-> "read", send |-> "idle", serve |-> "serving"]
                        ELSE [pc EXCEPT !["serve"] = "return"]
        <3>1. NewServerConn(request) # NoReply
            BY <2>1, ClientAccepts
        <3>2. reply'.status = "101" <=> pc'["recv"] # "unborn"
            BY <2>1, <2>2, <2>3
        <3>3. pc'["serve"] # "handshake" /\ request # NoRequest
            BY <1>1, <2>2, <2>3 DEF ServeWebSocket
        <3> QED BY <2>1, <2>3, <3>1, <3>2, <3>3 DEF Agrees
    <2>4. CASE Goto("serve", "return") /\ reply' = reply
        <3>1. pc'["recv"] = "unborn"
            BY <2>1, <2>2, <2>4 DEF Goto
        <3> QED BY <2>1, <2>4, <3>1 DEF Agrees
    <2> QED BY <1>1, <2>3, <2>4 DEF ServeWebSocket
<1>2. CASE SendRequest
    <2>1. /\ request = NoRequest /\ request' \in Requests /\ UNCHANGED <<reply, dialErr, pc>>
          /\ reply = NoReply
        BY <1>2 DEF SendRequest, Agrees
    <2> QED BY <2>1 DEF Agrees
<1>3. CASE Dialed
    <2>1. reply # NoReply /\ dialErr' = ClientHandshake(request, reply) /\ UNCHANGED <<request, reply, pc>>
        BY <1>3 DEF Dialed
    <2> QED BY <2>1 DEF Agrees
<1>4. CASE ~ServeWebSocket /\ ~SendRequest /\ ~Dialed
    <2>1. UNCHANGED <<request, reply, dialErr>>
        BY <1>4 DEF Next, Agent, Peer, vars, shakeVars, ReadFrame, ReadPayload, ReadFails, SendData,
                    SendStops, ServeEnds, Return, StartFrame, WritePart, WriteFails, EndFrame,
                    SessionClose, HangUp, SessionClosed, PeerSends, PeerReads, PeerHangsUp
    <2>2. /\ pc["recv"] = "unborn" <=> pc'["recv"] = "unborn"
          /\ pc'["serve"] = "handshake" => pc["serve"] = "handshake"
        BY <1>4, Moves
    <2> QED BY <2>1, <2>2 DEF Agrees
<1> QED BY <1>1, <1>2, <1>3, <1>4

(* BothAgree for every set of requests, with any number of protocols and any order of the
   answer, its check by the client and the end of the connection. *)
THEOREM HandshakeAgrees == Spec => []BothAgree
<1> DEFINE Inv == WholeInv /\ ReadInv /\ Agrees
<1>1. Init => Inv
    <2>1. Init => Agrees
        BY DEF Init, Agrees, Tasks
    <2> QED BY <2>1, InitWhole, InitRead
<1>2. Inv /\ [Next]_vars => Inv'
    BY NextWhole, NextRead, NextAgrees
<1>3. Inv => BothAgree
    <2> SUFFICES ASSUME Agrees, dialErr # none PROVE (dialErr = "nil") = (pc["recv"] # "unborn")
        BY DEF BothAgree
    <2>1. reply # NoReply /\ request \in Requests /\ reply = NewServerConn(request)
        BY DEF Agrees
    <2>2. dialErr = ClientHandshake(request, reply) /\ (reply.status = "101" <=> pc["recv"] # "unborn")
        BY <2>1 DEF Agrees
    <2>3. dialErr = "nil" <=> pc["recv"] # "unborn"
        BY <2>1, <2>2, ClientAccepts
    <2> QED BY <2>3
<1> QED BY <1>1, <1>2, <1>3, PTL DEF Spec

-----------------------------------------------------------------------------
(* Pings and pongs *)

Answered(p) == \E i \in 1..Len(wire) : wire[i].kind = "pong" /\ wire[i].id = p

(* While recv writes the pong, the frame under wio is that pong. *)
OwnPong ==
    /\ wio = "recv" => pc["recv"] \in DOMAIN Writing
    /\ wio = "recv" /\ pc["recv"] = "pong" =>
          IF left = <<>> THEN failed \/ Answered(pong) ELSE left = Parts("pong", pong, 1)

(* A ping is answered, or on its way behind the bytes sent before it, or recv is about to
   answer it and has read exactly those. *)
OnItsWay(p, k, at) ==
    /\ inbound[k].op = "ping" /\ at = pings[p]
    /\ \A i \in 1..Len(inbound[k].body) : inbound[k].body[i] = p
AtHand(p) == pc["recv"] = "pong" /\ pong = p /\ rest = <<>> /\ Len(delivered) = pings[p]
Pings(base) ==
    \A p \in 1..Len(pings) :
        \/ Answered(p) \/ AtHand(p)
        \/ \E k \in 1..Len(inbound) : OnItsWay(p, k, base[k])
Rising(base) == \A j, k \in 1..(Len(inbound) + 1) : j <= k => base[j] <= base[k]
PongInv ==
    /\ OwnPong
    /\ Reading => \E base : Places(base) /\ Rising(base) /\ Pings(base)
    /\ ~Reading => PongFirst /\ Len(delivered) <= sent

(* Read has not passed a ping that waits. *)
LEMMA WaitsFirst ==
    ASSUME WholeInv, ReadInv, PongInv
    PROVE  PongFirst /\ Len(delivered) <= sent
<1> SUFFICES ASSUME Reading PROVE PongFirst /\ Len(delivered) <= sent
    BY DEF PongInv
<1>1. PICK base : Places(base) /\ Rising(base) /\ Pings(base)
    BY DEF PongInv
<1>2. Len(delivered) \in Nat /\ Len(rest) \in Nat /\ Len(inbound) \in Nat
    BY DEF WholeInv, Types, ReadInv, ReadTypes
<1>3. ASSUME NEW k \in 1..(Len(inbound) + 1) PROVE Len(delivered) <= base[k]
    <2>1. 1 \in 1..(Len(inbound) + 1) /\ 1 <= k
        BY <1>2
    <2>2. base[1] <= base[k] /\ base[1] = Len(delivered) + Len(rest) /\ base[k] \in Nat
        BY <1>1, <2>1 DEF Rising, Places
    <2> QED BY <1>2, <2>2
<1>4. Len(delivered) <= sent
    BY <1>1, <1>2, <1>3 DEF Places
<1>5. ASSUME NEW p \in 1..Len(pings), Len(delivered) > pings[p] PROVE Answered(p)
    <2>1. pings[p] \in Nat
        BY DEF WholeInv, Types
    <2>2. ~AtHand(p)
        BY <1>2, <1>5, <2>1 DEF AtHand
    <2>3. ASSUME NEW k \in 1..Len(inbound), OnItsWay(p, k, base[k]) PROVE FALSE
        <3>1. Len(delivered) <= pings[p]
            BY <1>2, <1>3, <2>3 DEF OnItsWay
        <3> QED BY <1>2, <1>5, <2>1, <3>1
    <2> QED BY <1>1, <2>2, <2>3 DEF Pings
<1> QED BY <1>4, <1>5 DEF PongFirst, Answered

(* Frames are only added to the wire. *)
LEMMA AnswersStay ==
    ASSUME WholeInv, [Next]_vars
    PROVE  \A p : Answered(p) => Answered(p)'
<1>1. wire' = wire \/ \E x : wire' = Append(wire, x)
    BY DEF Next, Agent, Peer, vars, writeVars, ServeWebSocket, ReadFrame, ReadPayload, ReadFails, SendData,
           SendStops, ServeEnds, Return, StartFrame, WritePart, WriteFails, EndFrame, SessionClose,
           HangUp, SessionClosed, SendRequest, Dialed, PeerSends, PeerReads, PeerHangsUp
<1>2. wire \in Seq(Part) /\ Len(wire) \in Nat
    BY DEF WholeInv, Types
<1>3. ASSUME NEW x, wire' = Append(wire, x), NEW i \in 1..Len(wire)
      PROVE  i \in 1..Len(wire') /\ wire'[i] = wire[i]
    BY <1>2, <1>3
<1> QED BY <1>1, <1>3 DEF Answered

(* recv is where it was, or was not about to write. *)
LEMMA OwnKept ==
    ASSUME OwnPong, ReadInv, UNCHANGED <<wio, left, failed, wire>>,
           pc["recv"] \notin DOMAIN Writing \/ (pc'["recv"] = pc["recv"] /\ pong' = pong)
    PROVE  OwnPong'
BY DEF OwnPong, Answered

(* Steps that move no data and let recv go on from a pong only when it is written. *)
LEMMA AsideWaits ==
    ASSUME WholeInv, ReadInv, PongInv, [Next]_vars, OwnPong',
           UNCHANGED <<inbound, pings, sent, delivered, rest>>, Reading' => Reading,
           pc["recv"] = "pong" => pong' = pong /\ (pc'["recv"] = "pong" \/ Answered(pong) \/ ~Reading')
    PROVE  PongInv'
<1>1. \A p : Answered(p) => Answered(p)'
    BY AnswersStay
<1>2. PongFirst' /\ Len(delivered)' <= sent'
    BY <1>1, WaitsFirst DEF PongFirst, Answered
<1>3. ASSUME Reading', NEW base, Places(base), Rising(base), Pings(base)
      PROVE  Places(base)' /\ Rising(base)' /\ Pings(base)'
    <2>1. Places(base)' /\ Rising(base)'
        BY <1>3 DEF Places, Rising
    <2>2. \A p : AtHand(p) => AtHand(p)' \/ Answered(p)
        BY <1>3 DEF AtHand
    <2>3. \A p, k : OnItsWay(p, k, base[k]) => OnItsWay(p, k, base[k])'
        BY DEF OnItsWay
    <2> QED BY <1>1, <1>3, <2>1, <2>2, <2>3 DEF Pings
<1> QED BY <1>2, <1>3 DEF PongInv

(* recv's own writing: the pong, whole, or a failure. *)
LEMMA WritingOwn ==
    ASSUME WholeInv, ReadInv, PongInv, NEW t \in Tasks,
           StartFrame(t) \/ WritePart(t) \/ WriteFails(t) \/ EndFrame(t)
    PROVE  OwnPong'
<1>1. "recv" \in Tasks /\ pc \in [Tasks -> Labels] /\ wio \in Tasks \cup {free} /\ free \notin Tasks
    BY DEF ReadInv, ReadTypes, WholeInv, Types, Tasks, free
<1>2. CASE StartFrame(t)
    <2>1. /\ wio' = t /\ UNCHANGED <<pc, failed, wire, pong>> /\ pc[t] \in DOMAIN Writing
        BY <1>2 DEF StartFrame, Wants, readVars
    <2>2. pc["recv"] = "pong" /\ t = "recv" => left' = IF failed THEN <<>> ELSE Parts("pong", pong, 1)
        BY <1>2 DEF StartFrame, Writing
    <2>3. Parts("pong", pong, 1) # <<>>
        <3>1. Parts("pong", pong, 1) \in Seq(Part) /\ Len(Parts("pong", pong, 1)) = 1
            BY PartsOfFrame DEF WholeInv, Types
        <3> QED BY <3>1
    <2> QED BY <2>1, <2>2, <2>3 DEF OwnPong
<1>3. CASE WritePart(t)
    <2>1. /\ wio = t /\ left # <<>> /\ wire' = Append(wire, Head(left)) /\ left' = Tail(left)
          /\ UNCHANGED <<pc, failed, wio, pong>>
        BY <1>3 DEF WritePart, readVars
    <2>2. ASSUME t = "recv", pc["recv"] = "pong" PROVE left' = <<>> /\ Answered(pong)'
        <3>1. left = Parts("pong", pong, 1)
            BY <2>1, <2>2 DEF PongInv, OwnPong
        <3>2. pong \in Nat /\ wire \in Seq(Part) /\ left \in Seq(Part)
            BY DEF WholeInv, Types
        <3>3. Len(left) = 1 /\ left[1] = [kind |-> "pong", id |-> pong, part |-> 1, of |-> 1]
            <4>1. Parts("pong", pong, 1)[1] = [kind |-> "pong", id |-> pong, part |-> 1, of |-> 1]
                BY DEF Parts
            <4>2. Len(Parts("pong", pong, 1)) = 1
                BY <3>2, PartsOfFrame
            <4> QED BY <3>1, <4>1, <4>2
        <3>4. Len(left') = 0 /\ left' \in Seq(Part) /\ Head(left) = left[1]
            BY <2>1, <3>2, <3>3
        <3>5. /\ Len(wire') = Len(wire) + 1 /\ Len(wire) \in Nat
              /\ wire'[Len(wire) + 1] = left[1]
            BY <2>1, <3>2, <3>4
        <3>6. Len(wire) + 1 \in 1..Len(wire')
            BY <3>5
        <3> QED BY <2>1, <3>3, <3>4, <3>5, <3>6 DEF Answered
    <2> QED BY <2>1, <2>2 DEF PongInv, OwnPong
<1>4. CASE WriteFails(t)
    <2>1. failed' = TRUE /\ left' = <<>> /\ UNCHANGED <<pc, wio>>
        BY <1>4 DEF WriteFails
    <2> QED BY <2>1 DEF PongInv, OwnPong
<1>5. CASE EndFrame(t)
    <2>1. wio' = free
        BY <1>5 DEF EndFrame, Unlocked
    <2> QED BY <1>1, <2>1 DEF OwnPong
<1> QED BY <1>2, <1>3, <1>4, <1>5

(* What has been read is a natural number of bytes. *)
LEMMA Lengths == ReadInv => Len(delivered) \in Nat /\ Len(rest) \in Nat
BY DEF ReadInv, ReadTypes

(* A ping is sent behind the bytes sent before it. *)
LEMMA SentWaits ==
    ASSUME WholeInv, ReadInv, PongInv, PeerSends, ReadInv', WholeInv'
    PROVE  PongInv'
<1>1. PICK f \in Frames :
         /\ inbound' = Append(inbound,
                [op |-> f.op, masked |-> f.masked,
                 body |-> [i \in 1..f.size |-> IF f.op = "data" THEN sent + i ELSE Len(pings) + 1]])
         /\ sent' = IF f.op = "data" THEN sent + f.size ELSE sent
         /\ pings' = IF f.op = "ping" THEN Append(pings, sent) ELSE pings
    BY DEF PeerSends
<1>2. UNCHANGED <<pc, delivered, rest, pong, wio, left, failed, wire>>
    BY DEF PeerSends, readVars, writeVars
<1>3. f.size \in Nat /\ inbound \in Seq(Frame) /\ pings \in Seq(Nat) /\ sent \in Nat /\ sent' \in Nat /\ sent <= sent'
    <2>1. f.size \in Nat /\ inbound \in Seq(Frame) /\ pings \in Seq(Nat) /\ sent \in Nat
        BY FrameAssumption DEF WholeInv, Types
    <2> QED BY <1>1, <2>1
<1>n. PICK n \in Nat : n = Len(inbound)
    BY <1>3
<1>m. PICK m \in Nat : m = Len(pings)
    BY <1>3
<1> DEFINE body == [i \in 1..f.size |-> IF f.op = "data" THEN sent + i ELSE m + 1]
           g == [op |-> f.op, masked |-> f.masked, body |-> body]
<1>4. /\ Len(inbound') = n + 1 /\ inbound'[n + 1] = g
      /\ \A k \in 1..n : inbound'[k] = inbound[k]
    BY <1>1, <1>3, <1>n, <1>m
<1>5. f.op = "ping" => \A i \in 1..Len(g.body) : g.body[i] = m + 1
    BY <1>3
<1>6. g.op = f.op
    OBVIOUS
<1> HIDE DEF g
<1>7. /\ \A p \in 1..m : pings'[p] = pings[p]
      /\ Len(pings') = IF f.op = "ping" THEN m + 1 ELSE m
      /\ f.op = "ping" => pings'[m + 1] = sent
    BY <1>1, <1>3, <1>m
<1>8. \A p : Answered(p) <=> Answered(p)'
    BY <1>2 DEF Answered
<1>9. ASSUME Reading', NEW base, Places(base), Rising(base), Pings(base)
      PROVE  \E b : Places(b)' /\ Rising(b)' /\ Pings(b)'
    <2>1. PICK b : Places(b)' /\ \A k \in 1..(n + 1) : b[k] = base[k]
        BY <1>9, <1>n, SentFollows
    <2>2. /\ b \in [1..(n + 2) -> Nat] /\ b[n + 2] = sent'
          /\ base \in [1..(n + 1) -> Nat] /\ base[n + 1] = sent
        <3>1. Len(inbound') + 1 = n + 2
            BY <1>4
        <3> QED BY <1>9, <1>n, <2>1, <3>1 DEF Places
    <2>3. Rising(b)'
        <3> SUFFICES ASSUME NEW j \in 1..(n + 2), NEW k \in 1..(n + 2), j <= k PROVE b[j] <= b[k]
            BY <1>4 DEF Rising
        <3>1. CASE k \in 1..(n + 1)
            <4>1. j \in 1..(n + 1)
                BY <3>1
            <4>2. base[j] <= base[k]
                BY <1>9, <1>n, <3>1, <4>1 DEF Rising
            <4> QED BY <2>1, <3>1, <4>1, <4>2
        <3>2. CASE j \in 1..(n + 1) /\ k = n + 2
            <4>1. base[j] <= sent
                BY <1>9, <1>n, <2>2, <3>2 DEF Rising
            <4>2. b[j] \in Nat /\ b[j] = base[j] /\ b[k] = sent'
                BY <2>1, <2>2, <3>2
            <4> QED BY <1>3, <4>1, <4>2
        <3>3. CASE j = n + 2 /\ k = n + 2
            BY <2>2, <3>3
        <3> QED BY <3>1, <3>2, <3>3
    <2>4. ASSUME NEW p \in 1..m
          PROVE  \/ Answered(p)' \/ AtHand(p)'
                 \/ \E k \in 1..Len(inbound') : OnItsWay(p, k, b[k])'
        <3>1. CASE Answered(p)
            BY <1>8, <3>1
        <3>2. CASE AtHand(p)
            BY <1>2, <1>7, <3>2 DEF AtHand
        <3>3. ASSUME NEW k \in 1..n, OnItsWay(p, k, base[k])
              PROVE  k \in 1..Len(inbound') /\ OnItsWay(p, k, b[k])'
            BY <1>4, <1>7, <2>1, <3>3 DEF OnItsWay
        <3> QED BY <1>9, <1>n, <1>m, <3>1, <3>2, <3>3 DEF Pings
    <2>5. ASSUME f.op = "ping" PROVE \E k \in 1..Len(inbound') : OnItsWay(m + 1, k, b[k])'
        <3>1. n + 1 \in 1..Len(inbound') /\ b[n + 1] = sent
            BY <1>4, <2>1, <2>2
        <3>2. OnItsWay(m + 1, n + 1, b[n + 1])'
            BY <1>4, <1>5, <1>6, <1>7, <2>5, <3>1 DEF OnItsWay
        <3> QED BY <3>1, <3>2
    <2>6. Pings(b)'
        <3>1. \A p \in 1..Len(pings') : p \in 1..m \/ (f.op = "ping" /\ p = m + 1)
            BY <1>7
        <3> QED BY <2>4, <2>5, <3>1 DEF Pings
    <2> QED BY <2>1, <2>3, <2>6
<1>10. OwnPong'
    BY <1>2, OwnKept DEF PongInv
<1>11. PongFirst /\ Len(delivered) <= sent
    BY WaitsFirst
<1>12. PongFirst'
    <2> SUFFICES ASSUME NEW p \in 1..Len(pings'), Len(delivered) > pings'[p] PROVE Answered(p)
        BY <1>2 DEF PongFirst, Answered
    <2>1. CASE p \in 1..m
        BY <1>7, <1>m, <1>11, <2>1 DEF PongFirst, Answered
    <2>2. CASE p = m + 1 /\ f.op = "ping"
        BY <1>3, <1>7, <1>11, <2>2, Lengths
    <2> QED BY <1>7, <2>1, <2>2
<1>13. Len(delivered') <= sent'
    <2>1. PICK d \in Nat : d = Len(delivered)
        BY Lengths
    <2>2. d <= sent /\ sent \in Nat /\ sent' \in Nat /\ sent <= sent'
        BY <1>3, <1>11, <2>1
    <2>3. d <= sent'
        BY <2>2
    <2> QED BY <1>2, <2>1, <2>3
<1>14. Reading' <=> Reading
    BY <1>2 DEF Reading
<1> QED BY <1>9, <1>10, <1>12, <1>13, <1>14 DEF PongInv

(* The ping whose turn it is, is at hand. *)
LEMMA FrameWaits ==
    ASSUME WholeInv, ReadInv, PongInv, ReadFrame, ReadInv', WholeInv'
    PROVE  PongInv'
<1> DEFINE f == Head(inbound)
<1>n. PICK n \in Nat : n = Len(inbound)
    BY DEF WholeInv, Types
<1>1. /\ pc["recv"] = "read" /\ rest = <<>> /\ inbound # <<>> /\ inbound' = Tail(inbound)
      /\ pc' = [pc EXCEPT !["recv"] = HandleFrame(f)]
      /\ rest' = (IF HandleFrame(f) = "read" THEN f.body ELSE <<>>)
      /\ pong' = (IF HandleFrame(f) = "pong" THEN Head(f.body) ELSE 0)
      /\ UNCHANGED <<delivered, sent, pings, wio, left, failed, wire>>
    BY DEF ReadFrame, Goto, writeVars
<1>2. inbound \in Seq(Frame) /\ n \in Nat \ {0} /\ f \in Frame /\ f = inbound[1]
    BY <1>1, <1>n DEF WholeInv, Types
<1>3. /\ Len(inbound') = n - 1
      /\ \A k \in 1..(n - 1) : inbound'[k] = inbound[k + 1] /\ k + 1 \in 1..n
    BY <1>1, <1>2, <1>n
<1>4. f.body \in Seq(Nat)
    BY <1>2 DEF Frame
<1>5. pc'["recv"] = HandleFrame(f)
    BY <1>1 DEF ReadInv, ReadTypes, Tasks
<1>6. \A p : Answered(p) <=> Answered(p)'
    BY <1>1 DEF Answered
<1>7. ASSUME Reading', NEW base, Places(base), Rising(base), Pings(base)
      PROVE  \E b : Places(b)' /\ Rising(b)' /\ Pings(b)'
    <2>1. PICK b : Places(b)' /\ \A k \in 1..n : b[k] = base[k + 1]
        BY <1>7, <1>n, FrameFollows
    <2>2. Rising(b)'
        <3> SUFFICES ASSUME NEW j \in 1..n, NEW k \in 1..n, j <= k PROVE b[j] <= b[k]
            BY <1>2, <1>3 DEF Rising
        <3>1. j + 1 \in 1..(n + 1) /\ k + 1 \in 1..(n + 1) /\ j + 1 <= k + 1
            BY <1>2
        <3>2. base[j + 1] <= base[k + 1]
            BY <1>7, <1>n, <3>1 DEF Rising
        <3> QED BY <2>1, <3>2
    <2>3. ASSUME NEW p \in 1..Len(pings)
          PROVE  \/ Answered(p)' \/ AtHand(p)'
                 \/ \E k \in 1..Len(inbound') : OnItsWay(p, k, b[k])'
        <3>1. CASE Answered(p)
            BY <1>6, <3>1
        <3>2. CASE AtHand(p)
            BY <1>1, <3>2 DEF AtHand
        <3>3. ASSUME OnItsWay(p, 1, base[1]) PROVE AtHand(p)'
            <4>1. f.op = "ping" /\ base[1] = pings[p] /\ \A i \in 1..Len(f.body) : f.body[i] = p
                BY <1>2, <3>3 DEF OnItsWay
            <4>2. HandleFrame(f) = "pong" /\ f.body # <<>>
                BY <1>5, <1>7, <4>1 DEF Reading, HandleFrame
            <4>3. Head(f.body) = f.body[1] /\ 1 \in 1..Len(f.body)
                BY <1>4, <4>2
            <4>4. Len(delivered) = pings[p]
                <5>1. base[1] = Len(delivered) + Len(rest) /\ Len(rest) = 0
                    BY <1>1, <1>7 DEF Places
                <5> QED BY <4>1, <5>1, Lengths
            <4> HIDE DEF f
            <4> QED BY <1>1, <1>5, <4>1, <4>2, <4>3, <4>4 DEF AtHand
        <3>4. ASSUME NEW k \in 1..n, k # 1, OnItsWay(p, k, base[k])
              PROVE  \E i \in 1..Len(inbound') : OnItsWay(p, i, b[i])'
            <4>1. /\ k - 1 \in 1..(n - 1) /\ k - 1 \in 1..n /\ (k - 1) + 1 = k
                BY <1>2, <3>4
            <4>2. inbound'[k - 1] = inbound[k] /\ b[k - 1] = base[k] /\ k - 1 \in 1..Len(inbound')
                BY <1>3, <2>1, <4>1
            <4>3. OnItsWay(p, k - 1, b[k - 1])'
                BY <1>1, <3>4, <4>2 DEF OnItsWay
            <4> QED BY <4>2, <4>3
        <3> QED BY <1>7, <1>n, <3>1, <3>2, <3>3, <3>4 DEF Pings
    <2>4. Pings(b)'
        BY <1>1, <2>3 DEF Pings
    <2> QED BY <2>1, <2>2, <2>4
<1>8. OwnPong'
    BY <1>1, OwnKept DEF PongInv, Writing
<1>9. PongFirst' /\ Len(delivered') <= sent'
    BY <1>1, WaitsFirst DEF PongFirst
<1>10. Reading
    BY <1>1 DEF Reading
<1> QED BY <1>7, <1>8, <1>9, <1>10 DEF PongInv

(* Read returns bytes sent before every ping that waits. *)
LEMMA PayloadWaits ==
    ASSUME WholeInv, ReadInv, PongInv, ReadPayload, ReadInv', WholeInv'
    PROVE  PongInv'
<1>1. /\ pc["recv"] = "read" /\ UNCHANGED <<pc, inbound, sent, pings, pong, wio, left, failed, wire>>
    BY DEF ReadPayload, peerVars, writeVars
<1>2. Len(delivered') + Len(rest') = Len(delivered) + Len(rest)
    <2>1. PICK n \in 1..Len(rest) :
             delivered' = delivered \o SubSeq(rest, 1, n) /\ rest' = SubSeq(rest, n + 1, Len(rest))
        BY DEF ReadPayload, KeepsRest
    <2>2. delivered \in Seq(Nat) /\ rest \in Seq(Nat) /\ Len(delivered) \in Nat /\ Len(rest) \in Nat
        BY DEF ReadInv, ReadTypes
    <2> DEFINE s == SubSeq(rest, 1, n)
    <2>3. s \in Seq(Nat) /\ Len(s) = n
        BY <2>1, <2>2
    <2>4. Len(rest') = Len(rest) - n
        BY <2>1, <2>2
    <2> HIDE DEF s
    <2>5. Len(delivered') = Len(delivered) + n
        BY <2>1, <2>2, <2>3 DEF s
    <2> QED BY <2>2, <2>4, <2>5
<1>3. Reading /\ Reading'
    BY <1>1 DEF Reading
<1>4. ASSUME NEW base, Places(base), Rising(base), Pings(base)
      PROVE  Places(base)' /\ Rising(base)' /\ Pings(base)'
    <2>1. Places(base)' /\ Rising(base)'
        BY <1>1, <1>2, <1>4 DEF Places, Rising
    <2>2. Pings(base)'
        <3>1. \A p : ~AtHand(p)
            BY <1>1 DEF AtHand
        <3>2. \A p : Answered(p) => Answered(p)'
            BY <1>1 DEF Answered
        <3>3. \A p, k : OnItsWay(p, k, base[k]) => OnItsWay(p, k, base[k])'
            BY <1>1 DEF OnItsWay
        <3> QED BY <1>1, <1>4, <3>1, <3>2, <3>3 DEF Pings
    <2> QED BY <2>1, <2>2
<1>5. OwnPong'
    BY <1>1, OwnKept DEF PongInv
<1> QED BY <1>3, <1>4, <1>5 DEF PongInv

(* The other steps. *)
LEMMA NextPong ==
    ASSUME WholeInv, ReadInv, PongInv, [Next]_vars, ReadInv', WholeInv'
    PROVE  PongInv'
<1> USE DEF shakeVars, readVars, writeVars, closeVars, peerVars
<1>t. /\ pc \in [Tasks -> Labels] /\ "recv" \in Tasks /\ "send" \in Tasks /\ "serve" \in Tasks
      /\ OwnPong
    BY DEF ReadInv, ReadTypes, Tasks, PongInv
<1> DEFINE Data == UNCHANGED <<inbound, pings, sent, delivered, rest>>
           Aside == UNCHANGED <<wio, left, failed, wire, pong>>
<1>a. ASSUME Data, Aside, pc'["recv"] = pc["recv"] PROVE PongInv'
    <2>1. OwnPong'
        BY <1>a, <1>t, OwnKept
    <2>2. Reading' <=> Reading
        BY <1>a DEF Reading
    <2> QED BY <1>a, <2>1, <2>2, AsideWaits
<1>b. ASSUME Data, Aside, pc["recv"] \notin DOMAIN Writing, Reading' => Reading PROVE PongInv'
    <2>1. OwnPong'
        BY <1>b, <1>t, OwnKept
    <2>2. pc["recv"] # "pong"
        BY <1>b DEF Writing
    <2> QED BY <1>b, <2>1, <2>2, AsideWaits
<1>1. ASSUME SendRequest \/ Dialed \/ PeerReads \/ PeerHangsUp \/ UNCHANGED vars PROVE PongInv'
    BY <1>1, <1>a DEF SendRequest, Dialed, PeerReads, PeerHangsUp, vars
<1>2. ASSUME ServeWebSocket PROVE PongInv'
    <2>1. Data /\ Aside /\ pc["serve"] = "handshake"
        BY <1>2 DEF ServeWebSocket
    <2>2. pc["recv"] = "unborn"
        BY <2>1 DEF ReadInv, Born
    <2> QED BY <2>1, <2>2, <1>b DEF Writing, Reading
<1>3. ASSUME ReadFails PROVE PongInv'
    <2>1. Data /\ Aside /\ pc["recv"] = "read"
        BY <1>3 DEF ReadFails
    <2> QED BY <2>1, <1>b DEF Writing, Reading
<1>4. ASSUME SendData \/ SendStops \/ ServeEnds \/ Return PROVE PongInv'
    <2>1. Data /\ Aside /\ \E t \in {"send", "serve"} : \E l : Goto(t, l)
        BY <1>4 DEF SendData, SendStops, ServeEnds, Return
    <2>2. pc'["recv"] = pc["recv"]
        BY <2>1, <1>t DEF Goto
    <2> QED BY <2>1, <2>2, <1>a
<1>5. ASSUME NEW t \in Tasks, StartFrame(t) \/ WritePart(t) \/ WriteFails(t) PROVE PongInv'
    <2>1. Data /\ pc' = pc /\ pong' = pong
        BY <1>5 DEF StartFrame, WritePart, WriteFails
    <2>2. OwnPong'
        BY <1>5, WritingOwn
    <2> QED BY <2>1, <2>2, AsideWaits DEF Reading
<1>6. ASSUME NEW t \in Tasks, EndFrame(t) PROVE PongInv'
    <2>1. /\ Data /\ Goto(t, After(t)) /\ pc[t] \in DOMAIN Writing /\ wio = t /\ left = <<>> /\ pong' = pong
        BY <1>6 DEF EndFrame
    <2>2. OwnPong'
        BY <1>6, WritingOwn
    <2>3. CASE t # "recv"
        <3>1. pc'["recv"] = pc["recv"]
            BY <2>1, <2>3, <1>t DEF Goto
        <3> QED BY <2>1, <2>2, <3>1, AsideWaits DEF Reading
    <2>4. CASE t = "recv"
        <3>1. pc'["recv"] = After("recv")
            BY <2>1, <2>4, <1>t DEF Goto
        <3>2. /\ After("recv") \in {"exit", "idle", "read", "unlock", "hangup", "return"}
              /\ After("recv") = "read" => pc["recv"] = "pong" /\ ~failed
            BY <2>1, <2>4 DEF After, Writing
        <3>3. Reading' => Reading /\ pc["recv"] = "pong" /\ ~failed
            BY <3>1, <3>2 DEF Reading
        <3>4. pc["recv"] = "pong" => failed \/ Answered(pong)
            BY <2>1, <2>4, <1>t DEF OwnPong
        <3> QED BY <2>1, <2>2, <3>3, <3>4, AsideWaits
    <2> QED BY <2>3, <2>4
<1>7. ASSUME NEW t \in Tasks, SessionClose(t) \/ HangUp(t) \/ SessionClosed(t) PROVE PongInv'
    <2>1. PICK l \in {"lastclose", "done", "close", "unlock", "return"} : Goto(t, l)
        BY <1>7 DEF SessionClose, HangUp, SessionClosed, Closed
    <2>2. Data /\ Aside /\ pc[t] \in {"exit", "hangup", "unlock"}
        BY <1>7 DEF SessionClose, HangUp, SessionClosed
    <2>3. CASE t # "recv"
        <3>1. pc'["recv"] = pc["recv"]
            BY <2>1, <2>3, <1>t DEF Goto
        <3> QED BY <2>2, <3>1, <1>a
    <2>4. CASE t = "recv"
        <3>1. pc'["recv"] = l
            BY <2>1, <2>4, <1>t DEF Goto
        <3> QED BY <2>2, <2>4, <3>1, <1>b DEF Writing, Reading
    <2> QED BY <2>3, <2>4
<1> HIDE DEF Data, Aside
<1>8. CASE Next
    <2>1. CASE Peer
        BY <2>1, <1>1, SentWaits DEF Peer
    <2>2. CASE Agent
        BY <2>2, <1>2, <1>3, <1>4, <1>5, <1>6, <1>7, FrameWaits, PayloadWaits DEF Agent
    <2> QED BY <1>8, <2>1, <2>2 DEF Next
<1> QED BY <1>1, <1>8

(* PongFirst for every instance: whatever else is written and wherever the connection fails,
   Read never passes a ping whose pong is not on the wire. *)
THEOREM PongsComeFirst == Spec => []PongFirst
<1> DEFINE Inv == WholeInv /\ ReadInv /\ PongInv
<1>1. Init => Inv
    <2> SUFFICES ASSUME Init PROVE PongInv
        BY InitWhole, InitRead
    <2>1. /\ inbound = <<>> /\ sent = 0 /\ rest = <<>> /\ delivered = <<>> /\ pings = <<>> /\ wio = free
        BY DEF Init
    <2>2. OwnPong
        BY <2>1 DEF OwnPong, free
    <2>3. pc["recv"] = "unborn"
        BY DEF Init, Tasks
    <2>4. PICK base : Places(base)
        BY <2>3, InitRead DEF ReadInv, Reading
    <2>5. Rising(base) /\ Pings(base)
        <3>1. Len(inbound) = 0 /\ Len(pings) = 0
            BY <2>1
        <3>2. base[1] \in Nat
            BY <2>4, <3>1 DEF Places
        <3>3. \A j, k \in 1..(Len(inbound) + 1) : j = 1 /\ k = 1
            BY <3>1
        <3> QED BY <3>1, <3>2, <3>3 DEF Rising, Pings
    <2> QED BY <2>2, <2>3, <2>4, <2>5 DEF PongInv, Reading
<1>2. Inv /\ [Next]_vars => Inv'
    BY NextWhole, NextRead, NextPong
<1>3. Inv => PongFirst
    BY WaitsFirst
<1> QED BY <1>1, <1>2, <1>3, PTL DEF Spec
-----------------------------------------------------------------------------
(* Where the agent may stop *)

(* Where each goroutine may be: recv and send are born together, in a handshake that
   succeeds, and never go back. *)
Closing == {"exit", "close", "hangup", "unlock", "done"}
Stages ==
    /\ pc["recv"] \in {"unborn", "read", "pong", "refuse"} \cup Closing
    /\ pc["send"] \in {"unborn", "idle", "data"} \cup Closing
    /\ pc["serve"] \in {"handshake", "serving", "lastclose", "return"} \cup Closing
    /\ pc["recv"] = "unborn" <=> pc["send"] = "unborn"
    /\ pc["recv"] = "unborn" => pc["serve"] \in {"handshake", "return", "done"}
    /\ pc["serve"] = "handshake" => pc["recv"] = "unborn"

(* Who holds a lock is on the way to giving it back. *)
Locks ==
    /\ \A t \in Tasks : wio = t => pc[t] \in DOMAIN Writing
    /\ shutdownLock \in Tasks \cup {free}
    /\ \A t \in Tasks :
          /\ shutdownLock = t => pc[t] \in {"close", "hangup", "unlock"}
          /\ pc[t] \in {"close", "unlock"} \/ (pc[t] = "hangup" /\ t # "serve") => shutdownLock = t

(* recv and send end only with the session, and the handler not before it has closed the
   connection, whatever became of the Close of the session. *)
Ends ==
    /\ pc["recv"] = "unborn" => ~shutdown
    /\ pc["recv"] # "unborn" /\ pc["serve"] # "serving" => shutdown
    /\ pc["recv"] = "done" \/ pc["send"] = "done" \/ shutdownLock # free => shutdown
    /\ pc["serve"] = "done" => rwcClosed
    /\ rwcClosed => shutdown \/ pc["serve"] = "done"

StopInv == Stages /\ Locks /\ Ends

LEMMA InitStop == Init => StopInv
<1> SUFFICES ASSUME Init PROVE StopInv
    OBVIOUS
<1>1. /\ pc = [t \in Tasks |-> IF t = "serve" THEN "handshake" ELSE "unborn"]
      /\ wio = free /\ shutdownLock = free /\ shutdown = FALSE /\ rwcClosed = FALSE
    BY DEF Init
<1>2. pc["recv"] = "unborn" /\ pc["send"] = "unborn" /\ pc["serve"] = "handshake"
    BY <1>1 DEF Tasks
<1> QED BY <1>1, <1>2 DEF StopInv, Stages, Locks, Ends, Tasks, free

LEMMA Goes ==
    ASSUME ReadInv, NEW t \in Tasks, NEW l, Goto(t, l)
    PROVE  pc'[t] = l /\ \A u \in Tasks \ {t} : pc'[u] = pc[u]
BY DEF ReadInv, ReadTypes, Goto

LEMMA NextStop ==
    ASSUME WholeInv, ReadInv, StopInv, [Next]_vars
    PROVE  StopInv'
<1> USE DEF shakeVars, readVars, writeVars, closeVars, peerVars
<1>t. "recv" \in Tasks /\ "send" \in Tasks /\ "serve" \in Tasks /\ free \notin Tasks
    BY DEF Tasks, free
<1>1. ASSUME UNCHANGED <<pc, wio, closeVars>> PROVE StopInv'
    BY <1>1 DEF StopInv, Stages, Locks, Ends
<1>2. ASSUME NEW t \in Tasks, StartFrame(t) PROVE StopInv'
    <2>1. UNCHANGED <<pc, closeVars>> /\ wio' = t /\ pc[t] \in DOMAIN Writing
        BY <1>2 DEF StartFrame, Wants
    <2> QED BY <2>1 DEF StopInv, Stages, Locks, Ends
<1>3. ASSUME ReadFrame \/ ReadFails PROVE StopInv'
    <2>1. HandleFrame(Head(inbound)) \in {"read", "pong", "refuse", "exit"}
        BY DEF HandleFrame
    <2>2. PICK l \in {"read", "pong", "refuse", "exit"} : Goto("recv", l)
        BY <1>3, <2>1 DEF ReadFrame, ReadFails
    <2>3. pc["recv"] = "read" /\ UNCHANGED <<wio, closeVars>>
        BY <1>3 DEF ReadFrame, ReadFails
    <2>4. /\ pc'["recv"] \in {"read", "pong", "refuse", "exit"}
          /\ pc'["send"] = pc["send"] /\ pc'["serve"] = pc["serve"]
        BY <1>t, <2>2, Goes
    <2> QED BY <2>3, <2>4 DEF StopInv, Stages, Locks, Ends, Tasks, Closing, Writing
<1>4. ASSUME SendData \/ SendStops PROVE StopInv'
    <2>1. /\ pc["send"] = "idle" /\ UNCHANGED <<wio, closeVars>>
          /\ Goto("send", "data") \/ (Goto("send", "done") /\ shutdown)
        BY <1>4 DEF SendData, SendStops
    <2>2. /\ pc'["send"] = "data" \/ (pc'["send"] = "done" /\ shutdown)
          /\ pc'["recv"] = pc["recv"] /\ pc'["serve"] = pc["serve"]
        BY <1>t, <2>1, Goes
    <2> QED BY <2>1, <2>2 DEF StopInv, Stages, Locks, Ends, Tasks, Closing, Writing
<1>5. ASSUME ServeEnds \/ Return PROVE StopInv'
    <2>1. /\ UNCHANGED <<wio, shutdown, shutdownLock>>
          /\ \/ pc["serve"] = "serving" /\ shutdown /\ Goto("serve", "exit") /\ rwcClosed' = rwcClosed
             \/ pc["serve"] = "return" /\ Goto("serve", "done") /\ rwcClosed' = TRUE
        BY <1>5 DEF ServeEnds, Return
    <2>2. pc'["recv"] = pc["recv"] /\ pc'["send"] = pc["send"]
        BY <1>t, <2>1, Goes
    <2>3. CASE pc["serve"] = "serving" /\ shutdown /\ Goto("serve", "exit") /\ rwcClosed' = rwcClosed
        <3>1. pc'["serve"] = "exit"
            BY <1>t, <2>3, Goes
        <3> QED BY <2>1, <2>2, <2>3, <3>1 DEF StopInv, Stages, Locks, Ends, Tasks, Closing, Writing
    <2>4. CASE pc["serve"] = "return" /\ Goto("serve", "done") /\ rwcClosed' = TRUE
        <3>1. pc'["serve"] = "done"
            BY <1>t, <2>4, Goes
        <3> QED BY <2>1, <2>2, <2>4, <3>1 DEF StopInv, Stages, Locks, Ends, Tasks, Closing, Writing
    <2> QED BY <2>1, <2>3, <2>4
<1>6. ASSUME ServeWebSocket PROVE StopInv'
    <2>1. pc["serve"] = "handshake" /\ UNCHANGED <<wio, closeVars>> /\ pc["recv"] = "unborn" /\ pc["send"] = "unborn"
        BY <1>6 DEF ServeWebSocket, StopInv, Stages
    <2>2. CASE pc' = [recv |-> "read", send |-> "idle", serve |-> "serving"]
        <3>1. pc'["recv"] = "read" /\ pc'["send"] = "idle" /\ pc'["serve"] = "serving"
            BY <2>2
        <3> QED BY <2>1, <3>1 DEF StopInv, Stages, Locks, Ends, Tasks, Closing, Writing
    <2>3. CASE Goto("serve", "return")
        <3>1. pc'["serve"] = "return" /\ pc'["recv"] = pc["recv"] /\ pc'["send"] = pc["send"]
            BY <1>t, <2>3, Goes
        <3> QED BY <2>1, <3>1 DEF StopInv, Stages, Locks, Ends, Tasks, Closing, Writing
    <2> QED BY <1>6, <2>2, <2>3 DEF ServeWebSocket, Goto
<1>7. ASSUME NEW t \in Tasks, EndFrame(t) PROVE StopInv'
    <2>1. wio = t /\ pc[t] \in DOMAIN Writing /\ wio' = free /\ Goto(t, After(t)) /\ UNCHANGED closeVars
        BY <1>7 DEF EndFrame, Unlocked
    <2>2. /\ pc[t] = "data" => After(t) \in {"exit", "idle"}
          /\ pc[t] = "pong" => After(t) \in {"exit", "read"}
          /\ pc[t] = "refuse" => After(t) = "exit"
          /\ pc[t] = "close" => After(t) \in {"unlock", "hangup"}
          /\ pc[t] = "lastclose" => After(t) \in {"return", "hangup"}
        BY DEF After
    <2>3. pc[t] \in {"data", "pong", "refuse", "close", "lastclose"}
        BY <2>1 DEF Writing
    <2>4. pc'[t] = After(t) /\ \A u \in Tasks \ {t} : pc'[u] = pc[u]
        BY <2>1, Goes
    <2>5. Stages'
        BY <2>2, <2>3, <2>4 DEF StopInv, Stages, Tasks, Closing
    <2>6. Locks'
        BY <1>t, <2>1, <2>2, <2>3, <2>4 DEF StopInv, Stages, Locks, Tasks, Closing
    <2>7. Ends'
        BY <2>1, <2>2, <2>3, <2>4 DEF StopInv, Stages, Ends, Tasks, Closing
    <2> QED BY <2>5, <2>6, <2>7 DEF StopInv
<1>8. ASSUME NEW t \in Tasks, SessionClose(t) PROVE StopInv'
    <2>1. pc[t] = "exit" /\ shutdownLock = free /\ UNCHANGED <<wio, rwcClosed>>
        BY <1>8 DEF SessionClose
    <2>2. CASE shutdown /\ Goto(t, Closed(t)) /\ UNCHANGED <<shutdown, shutdownLock>>
        <3>1. pc'[t] = (IF t = "serve" THEN "lastclose" ELSE "done") /\ \A u \in Tasks \ {t} : pc'[u] = pc[u]
            BY <2>2, Goes DEF Closed
        <3> QED BY <1>t, <2>1, <2>2, <3>1 DEF StopInv, Stages, Locks, Ends, Tasks, Closing, Writing
    <2>3. CASE ~shutdown /\ shutdown' = TRUE /\ shutdownLock' = t /\ Goto(t, "close")
        <3>1. pc'[t] = "close" /\ \A u \in Tasks \ {t} : pc'[u] = pc[u]
            BY <2>3, Goes
        <3> QED BY <1>t, <2>1, <2>3, <3>1 DEF StopInv, Stages, Locks, Ends, Tasks, Closing, Writing
    <2> QED BY <1>8, <2>2, <2>3 DEF SessionClose
<1>9. ASSUME NEW t \in Tasks, HangUp(t) PROVE StopInv'
    <2>1. /\ pc[t] = "hangup" /\ rwcClosed' = TRUE /\ UNCHANGED <<wio, shutdown, shutdownLock>>
          /\ Goto(t, IF shutdownLock = t THEN "unlock" ELSE "return")
        BY <1>9 DEF HangUp
    <2>2. pc'[t] = (IF shutdownLock = t THEN "unlock" ELSE "return") /\ \A u \in Tasks \ {t} : pc'[u] = pc[u]
        BY <2>1, Goes
    <2> QED BY <1>t, <2>1, <2>2 DEF StopInv, Stages, Locks, Ends, Tasks, Closing, Writing
<1>10. ASSUME NEW t \in Tasks, SessionClosed(t) PROVE StopInv'
    <2>1. pc[t] = "unlock" /\ shutdownLock' = free /\ UNCHANGED <<wio, shutdown, rwcClosed>> /\ Goto(t, Closed(t))
        BY <1>10 DEF SessionClosed
    <2>2. pc'[t] = (IF t = "serve" THEN "lastclose" ELSE "done") /\ \A u \in Tasks \ {t} : pc'[u] = pc[u]
        BY <2>1, Goes DEF Closed
    <2> QED BY <1>t, <2>1, <2>2 DEF StopInv, Stages, Locks, Ends, Tasks, Closing, Writing
<1>11. CASE Next
    <2>1. CASE Peer
        BY <1>1, <2>1 DEF Peer, SendRequest, Dialed, PeerSends, PeerReads, PeerHangsUp
    <2>2. ASSUME ReadPayload \/ \E t \in Tasks : WritePart(t) \/ WriteFails(t) PROVE StopInv'
        BY <1>1, <2>2 DEF ReadPayload, WritePart, WriteFails
    <2> QED BY <1>2, <1>3, <1>4, <1>5, <1>6, <1>7, <1>8, <1>9, <1>10, <1>11, <2>1, <2>2 DEF Next, Agent
<1> QED BY <1>1, <1>11 DEF vars

LEMMA WhereItStops ==
    ASSUME WholeInv, ReadInv, StopInv
    PROVE  StopsClosed
<1> SUFFICES ASSUME ~AgentMoves, ~WriteBlocked PROVE AwaitsPeer \/ Released
    BY DEF StopsClosed
<1>t. "recv" \in Tasks /\ "send" \in Tasks /\ "serve" \in Tasks /\ free \notin Tasks
    BY DEF Tasks, free
<1>1. wio = free
    <2> SUFFICES ASSUME wio # free PROVE FALSE
        OBVIOUS
    <2>1. wio \in Tasks
        BY DEF WholeInv, Types
    <2>2. ~WriterMoves(wio) /\ pc[wio] \in DOMAIN Writing
        BY <2>1 DEF AgentMoves, StopInv, Locks
    <2> QED BY <2>2 DEF WriterMoves, WriteBlocked
<1>2. ASSUME NEW t \in Tasks
      PROVE  /\ pc[t] \notin {"data", "pong", "refuse", "close", "lastclose"}
             /\ pc[t] \notin {"hangup", "unlock"} /\ (pc[t] = "exit" => shutdownLock # free)
    <2>1. ~WriterMoves(t) /\ ~CloserMoves(t)
        BY DEF AgentMoves
    <2> QED BY <1>1, <1>t, <2>1 DEF WriterMoves, CloserMoves, Wants, Writing
<1>3. shutdownLock = free
    BY <1>2 DEF StopInv, Locks
<1>4. /\ pc["recv"] \in {"unborn", "read", "done"} /\ pc["send"] \in {"unborn", "idle", "done"}
      /\ pc["serve"] \in {"handshake", "serving", "done"}
    BY <1>t, <1>2, <1>3 DEF StopInv, Stages, Closing, AgentMoves, ServeMoves
<1>5. /\ pc["serve"] = "handshake" => request = NoRequest
      /\ pc["serve"] = "serving" => ~shutdown
      /\ pc["recv"] = "read" => inbound = <<>> /\ ~rwcClosed
      /\ pc["send"] = "idle" => ~shutdown
    BY DEF AgentMoves, ServeMoves, RecvMoves, SendMoves
<1>6. CASE pc["serve"] = "done"
    BY <1>4, <1>5, <1>6 DEF StopInv, Stages, Ends, Released, Tasks
<1>7. CASE pc["serve"] = "handshake"
    BY <1>5, <1>7 DEF StopInv, Stages, Ends, AwaitsPeer, Ended
<1>8. CASE pc["serve"] = "serving"
    BY <1>4, <1>5, <1>8 DEF StopInv, Stages, Ends, AwaitsPeer, Ended
<1> QED BY <1>4, <1>6, <1>7, <1>8

(* StopsClosed for every instance: the reader, the writer and the handler never wait for
   each other for ever, and what they leave behind is a closed connection. *)
THEOREM StopsOnlyClosed == Spec => []StopsClosed
<1> DEFINE Inv == WholeInv /\ ReadInv /\ StopInv
<1>1. Init => Inv
    BY InitWhole, InitRead, InitStop
<1>2. Inv /\ [Next]_vars => Inv'
    BY NextWhole, NextRead, NextStop
<1>3. Inv => StopsClosed
    BY WhereItStops
<1> QED BY <1>1, <1>2, <1>3, PTL DEF Spec
=============================================================================
