----------------------------- MODULE ProxyProofs -----------------------------
(***************************************************************************)
(* What holds of a client connection of goproxy, for every number of       *)
(* items, every window and every set of handlers.  A tunnel loses nothing  *)
(* but what a dropped reader had read before the copiers start: that, what *)
(* the proxy wrote to a side and what the copier towards it holds are      *)
(* together what was read of the other.  The loops over requests answer in *)
(* order and send each request on once: what the handler has read of the   *)
(* client is the requests lost behind the CONNECT, those answered, the one *)
(* at hand and those read ahead.                                           *)
(***************************************************************************)
EXTENDS Proxy, TLAPS, WellFoundedInduction

Items == [no : Nat, kind : Kinds \cup {"byte"}]
Tasks == {"serve"} \cup Sides

(* What the argument needs to know of the variables in every mode. *)
Shapes ==
    /\ pc = [t \in Tasks |-> pc[t]]
    /\ sent \in [Sides -> Seq(Items)]
    /\ seen \in [Sides -> Nat]
    /\ taken \in [Sides -> Nat] /\ lost \in [Sides -> Nat]
    /\ \A s \in Sides : taken[s] <= Len(sent[s])

(* Nothing was copied: what was read of a side is lost. *)
Nothing ==
    /\ got = [s \in Sides |-> <<>>] /\ hand = [s \in Sides |-> <<>>]
    /\ taken = lost
    /\ \A s \in Sides : pc[s] = "unborn"

(* The handler of a tunnel reads no requests, and until it has started the
   copiers there is nothing to copy. *)
Opening ==
    /\ pc["serve"] = "start" => Nothing
    /\ mode = "accept" =>
          /\ pc["serve"] \in {"dial", "upstream", "tunnel", "close", "done"}
          /\ pc["serve"] # "done" => Nothing

(* The copier from s has handed on, or holds, each item it has read. *)
CopiedFrom(s) ==
    LET o == Other(s) IN
        /\ got[o] \in Seq(Items) /\ hand[s] \in Seq(Items)
        /\ taken[s] = lost[s] + Len(got[o]) + Len(hand[s])
        /\ \A i \in 1..Len(got[o]) : got[o][i] = sent[s][lost[s] + i]
        /\ \A i \in 1..Len(hand[s]) : hand[s][i] = sent[s][lost[s] + Len(got[o]) + i]
Copied ==
    mode = "accept" =>
        /\ got = [s \in Sides |-> got[s]] /\ hand = [s \in Sides |-> hand[s]]
        /\ \A s \in Sides : CopiedFrom(s)

TunnelInv == Shapes /\ Opening /\ Copied

-----------------------------------------------------------------------------
(* The other side of the other side is the side itself. *)
LEMMA OtherSide ==
    /\ "client" \in Sides /\ "target" \in Sides /\ "serve" \notin Sides
    /\ \A s \in Sides : Other(s) \in Sides /\ Other(s) # s /\ Other(Other(s)) = s
    /\ \A s, x \in Sides : x # s => x = Other(s)
BY DEF Sides, Other

(* Where nothing was copied, each copier is at its beginning. *)
LEMMA NothingCopied == Shapes /\ Nothing => Copied
<1> SUFFICES ASSUME Shapes, Nothing PROVE Copied
    OBVIOUS
<1>1. \A s \in Sides : got[s] = <<>> /\ hand[s] = <<>> /\ taken[s] = lost[s]
    BY DEF Nothing
<1>2. \A s \in Sides : lost[s] \in Nat
    BY DEF Shapes
<1>3. ASSUME NEW s \in Sides
      PROVE  CopiedFrom(s)
  <2>1. /\ got[Other(s)] = <<>> /\ hand[s] = <<>> /\ taken[s] = lost[s]
        /\ lost[s] \in Nat
      BY <1>1, <1>2, OtherSide
  <2>2. /\ got[Other(s)] \in Seq(Items) /\ hand[s] \in Seq(Items)
        /\ Len(got[Other(s)]) = 0 /\ Len(hand[s]) = 0
      BY <2>1
  <2>3. QED
      BY <2>1, <2>2 DEF CopiedFrom
<1>4. QED
    BY <1>3 DEF Copied, Nothing

(* What a client or a target sends comes behind all it has sent. *)
LEMMA AppendItem ==
    ASSUME NEW s \in Seq(Items), NEW x \in Items
    PROVE  /\ Append(s, x) \in Seq(Items) /\ Len(Append(s, x)) = Len(s) + 1
           /\ Append(s, x)[Len(s) + 1] = x
           /\ \A i \in 1..Len(s) : Append(s, x)[i] = s[i]
OBVIOUS

(* A copier takes the items that follow those it has taken. *)
LEMMA TakeItems ==
    ASSUME NEW s \in Seq(Items), NEW m \in Nat, NEW n \in Nat, m + n <= Len(s)
    PROVE  LET c == SubSeq(s, m + 1, m + n) IN
             /\ c \in Seq(Items) /\ Len(c) = n
             /\ \A i \in 1..n : c[i] = s[m + i]
OBVIOUS

(* The places of the parts of a whole are places of the whole. *)
LEMMA PartsOfWhole ==
    ASSUME NEW k \in Nat, NEW a \in Nat, NEW b \in Nat, NEW l \in Nat, k + a + b <= l
    PROVE  /\ \A i \in 1..a : k + i \in 1..l
           /\ \A i \in 1..b : k + a + i \in 1..l
OBVIOUS

(* A sequence is a prefix of what another has behind its first k items if it
   is no longer and agrees with that. *)
LEMMA PrefixByItems ==
    ASSUME NEW s \in Seq(Items), NEW t \in Seq(Items), NEW k \in Nat, k + Len(s) <= Len(t),
           \A i \in 1..Len(s) : s[i] = t[k + i]
    PROVE  IsPrefix(s, SubSeq(t, k + 1, Len(t)))
<1>1. PICK u : u = SubSeq(t, k + 1, Len(t))
    OBVIOUS
<1>2. u \in Seq(Items) /\ Len(u) = Len(t) - k /\ \A i \in 1..(Len(t) - k) : u[i] = t[k + i]
    BY <1>1
<1>3. SubSeq(s, 1, Len(s)) = SubSeq(u, 1, Len(s))
    BY <1>2
<1>4. QED
    BY <1>1, <1>2, <1>3 DEF IsPrefix

-----------------------------------------------------------------------------
(* A new connection is as the invariant says. *)
LEMMA InitTunnel == Init => TunnelInv
<1> SUFFICES ASSUME Init PROVE TunnelInv
    OBVIOUS
<1>1. Shapes
    BY DEF Init, Shapes, Tasks
<1>2. Opening
    BY OtherSide DEF Init, Opening, Nothing, Sides
<1>3. Copied
    BY DEF Init, Copied
<1>4. QED
    BY <1>1, <1>2, <1>3 DEF TunnelInv

(* What is read of a side it has sent. *)
LEMMA TakesKeep ==
    ASSUME Shapes, NEW s \in Sides, NEW n \in 0..Unread(s),
           taken' = [taken EXCEPT ![s] = @ + n], sent' = sent
    PROVE  taken' \in [Sides -> Nat] /\ \A x \in Sides : taken'[x] <= Len(sent'[x])
<1>1. /\ taken \in [Sides -> Nat] /\ taken[s] \in Nat /\ Len(sent[s]) \in Nat
      /\ \A x \in Sides : taken[x] <= Len(sent[x])
    BY DEF Shapes
<1>2. n \in Nat /\ taken[s] + n \in Nat /\ taken[s] + n <= Len(sent[s])
    BY <1>1 DEF Unread
<1>3. taken' = [taken EXCEPT ![s] = taken[s] + n]
    OBVIOUS
<1>4. QED
    BY <1>1, <1>2, <1>3

(* Likewise what is dropped with a reader. *)
LEMMA DropsKeep ==
    ASSUME Shapes, NEW s \in Sides, DropReader(s), sent' = sent
    PROVE  /\ taken' \in [Sides -> Nat] /\ lost' \in [Sides -> Nat]
           /\ \A x \in Sides : taken'[x] <= Len(sent'[x])
           /\ taken[s] = lost[s] => taken'[s] = lost'[s]
           /\ taken = lost => taken' = lost'
           /\ \A x \in Sides \ {s} : taken'[x] = taken[x] /\ lost'[x] = lost[x]
<1>1. PICK n \in 0..Unread(s) :
         taken' = [taken EXCEPT ![s] = @ + n] /\ lost' = [lost EXCEPT ![s] = @ + n]
    BY DEF DropReader
<1>2. taken' \in [Sides -> Nat] /\ \A x \in Sides : taken'[x] <= Len(sent'[x])
    BY <1>1, TakesKeep
<1>3. lost \in [Sides -> Nat] /\ taken \in [Sides -> Nat] /\ Unread(s) \in Int
    BY DEF Shapes, Unread
<1>4. lost[s] \in Nat /\ n \in Nat
    BY <1>3
<1>5. lost[s] + n \in Nat
    BY <1>4
<1>6. lost' = [lost EXCEPT ![s] = lost[s] + n]
    BY <1>1
<1>7. lost' \in [Sides -> Nat]
    BY <1>3, <1>5, <1>6
<1>8. QED
    BY <1>1, <1>2, <1>3, <1>7

(* Every step keeps the shapes. *)
LEMMA NextShapes ==
    ASSUME Shapes, [Next]_vars
    PROVE  Shapes'
<1> USE DEF sideVars, copyVars, loopVars, Goto
<1>1. CASE UNCHANGED vars
    BY <1>1 DEF vars, Shapes
<1>2. CASE Serve
  <2>1. UNCHANGED <<sent, seen>>
      BY <1>2 DEF Serve, Start, Dial, DialUpstream, Tunnel, MitmHandshake, CloseClient, ReadRequest,
         LastRequest, RoundTrip, RoundTripFails, Filter, WriteResponse
  <2>2. pc' = [t \in Tasks |-> pc'[t]]
    <3>1. CASE Tunnel
        BY <3>1 DEF Tunnel, Tasks, Sides
    <3>2. CASE ~Tunnel
      <4>1. \E l : Goto("serve", l)
          BY <1>2, <3>2 DEF Serve, Start, Dial, DialUpstream, MitmHandshake, CloseClient, ReadRequest,
             LastRequest, RoundTrip, RoundTripFails, Filter, WriteResponse
      <4>2. QED
          BY <4>1 DEF Shapes
    <3>3. QED
        BY <3>1, <3>2
  <2>3. /\ taken' \in [Sides -> Nat] /\ lost' \in [Sides -> Nat]
        /\ \A s \in Sides : taken'[s] <= Len(sent'[s])
    <3>1. CASE UNCHANGED <<taken, lost>>
        BY <2>1, <3>1 DEF Shapes
    <3>2. ASSUME NEW s \in Sides, DropReader(s)
          PROVE  <2>3!1 /\ <2>3!2
        BY <2>1, <3>2, DropsKeep
    <3>3. CASE ReadRequest
      <4>1. PICK n \in 0..Unread("client") : taken' = [taken EXCEPT !["client"] = @ + n]
          BY <3>3 DEF ReadRequest
      <4>2. lost' = lost
          BY <3>3 DEF ReadRequest
      <4>3. QED
          BY <2>1, <4>1, <4>2, OtherSide, TakesKeep DEF Shapes
    <3>4. QED
        BY <1>2, <3>1, <3>2, <3>3, OtherSide DEF Serve, Start, Dial, DialUpstream, Tunnel, MitmHandshake,
           CloseClient, LastRequest, RoundTrip, RoundTripFails, Filter, WriteResponse
  <2>4. QED
      BY <2>1, <2>2, <2>3 DEF Shapes
<1>3. ASSUME NEW s \in Sides, SideSends(s)
      PROVE  Shapes'
  <2>1. PICK k \in Kinds \cup {"byte"} :
            sent' = [sent EXCEPT ![s] = Append(@, [no |-> Len(@) + 1, kind |-> k])]
      BY <1>3 DEF SideSends, Speech
  <2>2. [no |-> Len(sent[s]) + 1, kind |-> k] \in Items
      BY DEF Items, Shapes
  <2>3. sent' \in [Sides -> Seq(Items)] /\ \A x \in Sides : Len(sent[x]) <= Len(sent'[x])
    <3>1. PICK i \in Items : i = [no |-> Len(sent[s]) + 1, kind |-> k]
        BY <2>2
    <3>2. sent' = [sent EXCEPT ![s] = Append(sent[s], i)] /\ sent \in [Sides -> Seq(Items)]
        BY <2>1, <3>1 DEF Shapes
    <3>3. Append(sent[s], i) \in Seq(Items) /\ Len(sent[s]) <= Len(Append(sent[s], i))
        BY <3>2
    <3>4. QED
        BY <3>2, <3>3
  <2>4. UNCHANGED <<pc, seen, taken, lost>>
      BY <1>3 DEF SideSends
  <2>5. \A x \in Sides : Len(sent[x]) \in Nat /\ Len(sent'[x]) \in Nat /\ taken[x] \in Nat
      BY <2>3 DEF Shapes
  <2>6. QED
      BY <2>3, <2>4, <2>5 DEF Shapes
<1>4. ASSUME NEW s \in Sides, SideReads(s) \/ SideEnds(s)
      PROVE  Shapes'
    BY <1>4 DEF SideReads, SideEnds, Shapes
<1>5. ASSUME NEW s \in Sides, Copy(s)
      PROVE  Shapes'
  <2>1. CASE CopyRead(s)
    <3>1. PICK n \in 1..Unread(s) : taken' = [taken EXCEPT ![s] = @ + n]
        BY <2>1 DEF CopyRead
    <3>2. UNCHANGED <<pc, sent, seen, lost>> /\ n \in 0..Unread(s)
        BY <2>1 DEF CopyRead
    <3>3. QED
        BY <3>1, <3>2, TakesKeep DEF Shapes
  <2>2. CASE CopyWrite(s) \/ CopyEnds(s) \/ CopyClose(s)
      BY <2>2 DEF CopyWrite, CopyEnds, CopyClose, Tasks, Shapes
  <2>3. QED
      BY <1>5, <2>1, <2>2 DEF Copy
<1>6. QED
    BY <1>1, <1>2, <1>3, <1>4, <1>5 DEF Next, Peers

(* A step that moves no item leaves the copiers' books alone; a side that
   sends adds behind what was taken. *)
LEMMA CopiedStays ==
    ASSUME Shapes, Shapes', Copied, UNCHANGED <<got, hand, taken, lost>>,
           mode' = "accept" => mode = "accept",
           \/ sent' = sent
           \/ \E s \in Sides, x \in Items : sent' = [sent EXCEPT ![s] = Append(@, x)]
    PROVE  Copied'
<1> SUFFICES ASSUME mode = "accept" PROVE \A s \in Sides : CopiedFrom(s)'
    BY DEF Copied
<1>1. ASSUME NEW s \in Sides
      PROVE  \A i \in 1..Len(sent[s]) : sent'[s][i] = sent[s][i]
  <2>1. sent[s] \in Seq(Items)
      BY DEF Shapes
  <2>2. CASE sent' = sent
      BY <2>2
  <2>3. ASSUME NEW z \in Sides, NEW x \in Items, sent' = [sent EXCEPT ![z] = Append(@, x)]
        PROVE  \A i \in 1..Len(sent[s]) : sent'[s][i] = sent[s][i]
    <3>1. sent'[s] = sent[s] \/ sent'[s] = Append(sent[s], x)
        BY <2>3 DEF Shapes
    <3>2. QED
        BY <2>1, <3>1, AppendItem
  <2>4. QED
      BY <2>2, <2>3
<1>2. TAKE s \in Sides
<1>3. CopiedFrom(s)
    BY DEF Copied
<1>4. Len(got[Other(s)]) \in Nat /\ Len(hand[s]) \in Nat
    BY <1>3 DEF CopiedFrom
<1>5. /\ lost[s] + Len(got[Other(s)]) + Len(hand[s]) <= Len(sent[s])
      /\ lost[s] \in Nat /\ Len(sent[s]) \in Nat
    BY <1>3 DEF CopiedFrom, Shapes
<1>6. /\ \A i \in 1..Len(got[Other(s)]) : lost[s] + i \in 1..Len(sent[s])
      /\ \A i \in 1..Len(hand[s]) : lost[s] + Len(got[Other(s)]) + i \in 1..Len(sent[s])
    BY <1>4, <1>5, PartsOfWhole
<1>7. /\ \A i \in 1..Len(got[Other(s)]) : got[Other(s)][i] = sent'[s][lost[s] + i]
      /\ \A i \in 1..Len(hand[s]) : hand[s][i] = sent'[s][lost[s] + Len(got[Other(s)]) + i]
    BY <1>1, <1>3, <1>6 DEF CopiedFrom
<1>8. QED
    BY <1>3, <1>7 DEF CopiedFrom

(* Read: the copier holds what follows the items it has taken. *)
LEMMA CopyReadKeeps ==
    ASSUME Shapes, Copied, NEW s \in Sides, CopyRead(s)
    PROVE  Copied'
<1> SUFFICES ASSUME mode = "accept" PROVE Copied'
    BY DEF Copied, CopyRead
<1>1. PICK n \in 1..Unread(s) :
         /\ hand' = [hand EXCEPT ![s] = SubSeq(sent[s], taken[s] + 1, taken[s] + n)]
         /\ taken' = [taken EXCEPT ![s] = @ + n]
    BY DEF CopyRead
<1>2. UNCHANGED <<mode, sent, got, lost>> /\ hand[s] = <<>>
    BY DEF CopyRead, sideVars
<1>3. /\ CopiedFrom(s) /\ sent[s] \in Seq(Items) /\ taken[s] \in Nat
      /\ Len(sent[s]) \in Nat /\ lost[s] \in Nat
    BY DEF Copied, Shapes
<1>4. n \in Nat /\ taken[s] + n <= Len(sent[s])
    BY <1>3 DEF Unread
<1> DEFINE c == SubSeq(sent[s], taken[s] + 1, taken[s] + n)
<1>5. c \in Seq(Items) /\ Len(c) = n /\ \A i \in 1..n : c[i] = sent[s][taken[s] + i]
    BY <1>3, <1>4, TakeItems
<1>6. hand'[s] = c /\ taken'[s] = taken[s] + n
    BY <1>1 DEF Copied, Shapes
<1>7. Len(got[Other(s)]) \in Nat /\ taken[s] = lost[s] + Len(got[Other(s)])
    BY <1>2, <1>3 DEF CopiedFrom
<1> HIDE DEF c
<1>8. CopiedFrom(s)'
    BY <1>2, <1>3, <1>4, <1>5, <1>6, <1>7 DEF CopiedFrom
<1>9. CopiedFrom(Other(s))'
  <2>1. hand'[Other(s)] = hand[Other(s)] /\ taken'[Other(s)] = taken[Other(s)]
      BY <1>1, OtherSide DEF Copied, Shapes
  <2>2. CopiedFrom(Other(s))
      BY OtherSide DEF Copied
  <2>3. QED
      BY <1>2, <2>1, <2>2 DEF CopiedFrom
<1>10. QED
  <2>1. \A x \in Sides : CopiedFrom(x)'
      BY <1>8, <1>9, OtherSide
  <2>2. hand' = [x \in Sides |-> hand'[x]]
      BY <1>1 DEF Copied
  <2>3. QED
      BY <1>2, <2>1, <2>2 DEF Copied

(* Write: the first item that the copier holds is the next for the other
   side. *)
LEMMA CopyWriteKeeps ==
    ASSUME Shapes, Copied, NEW s \in Sides, CopyWrite(s)
    PROVE  Copied'
<1> SUFFICES ASSUME mode = "accept" PROVE Copied'
    BY DEF Copied, CopyWrite
<1> DEFINE o == Other(s)
           g == got[o]
           h == hand[s]
<1>1. /\ got' = [got EXCEPT ![o] = Append(g, Head(h))]
      /\ hand' = [hand EXCEPT ![s] = Tail(h)] /\ h # <<>>
    BY DEF CopyWrite, WriteDone
<1>2. UNCHANGED <<mode, sent, taken, lost>> /\ lost[s] \in Nat
    BY DEF CopyWrite, sideVars, Shapes
<1>3. o \in Sides /\ o # s /\ Other(o) = s
    BY OtherSide
<1>4. CopiedFrom(s) /\ CopiedFrom(o)
    BY <1>3 DEF Copied
<1>5. /\ g \in Seq(Items) /\ h \in Seq(Items)
      /\ taken[s] = lost[s] + Len(g) + Len(h)
      /\ \A i \in 1..Len(g) : g[i] = sent[s][lost[s] + i]
      /\ \A i \in 1..Len(h) : h[i] = sent[s][lost[s] + Len(g) + i]
    BY <1>4 DEF CopiedFrom
<1>6. got'[o] = Append(g, Head(h)) /\ hand'[s] = Tail(h)
    BY <1>1, <1>3 DEF Copied
<1>7. got'[s] = got[s] /\ hand'[o] = hand[o]
    BY <1>1, <1>3 DEF Copied
<1> HIDE DEF g, h
<1>8. /\ Head(h) = h[1] /\ Head(h) \in Items /\ Tail(h) \in Seq(Items)
      /\ Len(h) \in Nat \ {0} /\ Len(g) \in Nat /\ Len(Tail(h)) = Len(h) - 1
      /\ \A i \in 1..Len(h) - 1 : Tail(h)[i] = h[i + 1]
    BY <1>1, <1>5
<1>9. /\ Append(g, Head(h)) \in Seq(Items) /\ Len(Append(g, Head(h))) = Len(g) + 1
      /\ Append(g, Head(h))[Len(g) + 1] = Head(h)
      /\ \A i \in 1..Len(g) : Append(g, Head(h))[i] = g[i]
    BY <1>5, <1>8, AppendItem
<1>10. CopiedFrom(s)'
  <2>1. Head(h) = sent[s][lost[s] + Len(g) + 1]
      BY <1>5, <1>8
  <2>2. ASSUME NEW i \in 1..(Len(g) + 1)
        PROVE  Append(g, Head(h))[i] = sent[s][lost[s] + i]
    <3>1. CASE i \in 1..Len(g)
        BY <1>5, <1>9, <3>1
    <3>2. CASE i = Len(g) + 1
      <4>1. lost[s] + Len(g) + 1 = lost[s] + i
          BY <1>2, <1>8, <3>2
      <4>2. QED
          BY <1>9, <2>1, <3>2, <4>1
    <3>3. QED
        BY <1>8, <3>1, <3>2
  <2>3. ASSUME NEW i \in 1..(Len(h) - 1)
        PROVE  Tail(h)[i] = sent[s][lost[s] + (Len(g) + 1) + i]
    <3>1. i + 1 \in 1..Len(h) /\ lost[s] + Len(g) + (i + 1) = lost[s] + (Len(g) + 1) + i
        BY <1>2, <1>8
    <3>2. QED
        BY <1>5, <1>8, <3>1
  <2>4. taken[s] = lost[s] + (Len(g) + 1) + (Len(h) - 1)
    <3>1. taken[s] = lost[s] + Len(g) + Len(h) /\ lost[s] \in Nat
        BY <1>2, <1>5
    <3>2. Len(g) \in Nat /\ Len(h) \in Nat
        BY <1>8
    <3>3. QED
        BY <3>1, <3>2
  <2>5. /\ got'[o] \in Seq(Items) /\ hand'[s] \in Seq(Items)
        /\ Len(got'[o]) = Len(g) + 1 /\ Len(hand'[s]) = Len(h) - 1
      BY <1>6, <1>8, <1>9
  <2>6. /\ \A i \in 1..Len(got'[o]) : got'[o][i] = sent'[s][lost'[s] + i]
        /\ \A i \in 1..Len(hand'[s]) : hand'[s][i] = sent'[s][lost'[s] + Len(got'[o]) + i]
      BY <1>2, <1>6, <2>2, <2>3, <2>5
  <2>7. taken'[s] = lost'[s] + Len(got'[o]) + Len(hand'[s])
      BY <1>2, <2>4, <2>5
  <2>8. QED
      BY <2>5, <2>6, <2>7 DEF CopiedFrom
<1>11. CopiedFrom(o)'
    BY <1>2, <1>3, <1>4, <1>7 DEF CopiedFrom
<1>12. QED
  <2>1. \A x \in Sides : CopiedFrom(x)'
      BY <1>10, <1>11, OtherSide
  <2>2. got' = [x \in Sides |-> got'[x]] /\ hand' = [x \in Sides |-> hand'[x]]
      BY <1>1 DEF Copied
  <2>3. QED
      BY <1>2, <2>1, <2>2 DEF Copied

(* Until the copiers start nothing is copied, and what was read is lost. *)
LEMMA OpeningKeeps ==
    ASSUME TunnelInv, [Next]_vars
    PROVE  Opening'
<1> USE DEF TunnelInv, sideVars, copyVars, loopVars, Goto
<1>0. pc = [t \in Tasks |-> pc[t]] /\ Shapes
    BY DEF Shapes
<1>1. CASE UNCHANGED vars
    BY <1>1 DEF vars, Opening, Nothing
<1>2. CASE Start
  <2>1. Nothing /\ pc' = [pc EXCEPT !["serve"] = pc'["serve"]]
      BY <1>0, <1>2 DEF Start, Opening, Tasks
  <2>2. Nothing'
    <3>1. UNCHANGED <<got, hand, sent>> /\ \A s \in Sides : pc'[s] = pc[s]
        BY <1>0, <1>2, <2>1, OtherSide DEF Start, Tasks
    <3>2. UNCHANGED <<taken, lost>> \/ DropReader("client")
        BY <1>2 DEF Start
    <3>3. taken' = lost'
        BY <1>0, <2>1, <3>1, <3>2, OtherSide, DropsKeep DEF Nothing
    <3>4. QED
        BY <2>1, <3>1, <3>3 DEF Nothing
  <2>3. mode' = "accept" => pc'["serve"] = "dial"
      BY <1>0, <1>2 DEF Start, Tasks
  <2>4. QED
      BY <2>2, <2>3 DEF Opening
<1>3. CASE Tunnel
  <2>1. pc'["serve"] = "done"
      BY <1>3 DEF Tunnel
  <2>2. QED
      BY <2>1 DEF Opening
<1>4. CASE Dial \/ DialUpstream \/ MitmHandshake \/ CloseClient
  <2>1. /\ pc["serve"] \notin {"start", "done"} /\ mode' = mode
        /\ pc'["serve"] # "start"
        /\ mode = "accept" => pc'["serve"] \in {"upstream", "tunnel", "close", "done"}
      BY <1>0, <1>4 DEF Dial, DialUpstream, MitmHandshake, CloseClient, Opening, Tasks
  <2>2. ASSUME mode = "accept"
        PROVE  Nothing'
    <3>1. Nothing
        BY <2>1, <2>2 DEF Opening
    <3>2. UNCHANGED <<sent, got, hand>> /\ \A s \in Sides : pc'[s] = pc[s]
        BY <1>0, <1>4, OtherSide DEF Dial, DialUpstream, MitmHandshake, CloseClient, Tasks
    <3>3. taken' = lost'
      <4>1. UNCHANGED <<taken, lost>> \/ DropReader("target")
          BY <1>4 DEF Dial, DialUpstream, MitmHandshake, CloseClient
      <4>2. QED
          BY <1>0, <3>1, <3>2, <4>1, OtherSide, DropsKeep DEF Nothing
    <3>4. QED
        BY <3>1, <3>2, <3>3 DEF Nothing
  <2>3. QED
      BY <2>1, <2>2 DEF Opening
<1>5. CASE ReadRequest \/ LastRequest \/ RoundTrip \/ RoundTripFails \/ Filter \/ WriteResponse
  <2>1. pc["serve"] \in {"request", "send", "filter", "write"} /\ mode' = mode
      BY <1>5 DEF ReadRequest, LastRequest, RoundTrip, RoundTripFails, Filter, WriteResponse
  <2>2. pc'["serve"] # "start"
      BY <1>0, <1>5 DEF ReadRequest, LastRequest, RoundTrip, RoundTripFails, Filter, WriteResponse, Tasks
  <2>3. mode # "accept"
      BY <2>1 DEF Opening
  <2>4. QED
      BY <2>1, <2>2, <2>3 DEF Opening
<1>6. ASSUME NEW s \in Sides, SideSends(s) \/ SideReads(s) \/ SideEnds(s)
      PROVE  Opening'
  <2>1. UNCHANGED <<mode, pc, got, hand, taken, lost>>
      BY <1>6 DEF SideSends, SideReads, SideEnds
  <2>2. QED
      BY <2>1 DEF Opening, Nothing
<1>7. ASSUME NEW s \in Sides, Copy(s)
      PROVE  Opening'
  <2>1. pc[s] \in {"copy", "close"} /\ mode' = mode
      BY <1>7 DEF Copy, CopyRead, CopyWrite, CopyEnds, CopyClose
  <2>2. pc'["serve"] = pc["serve"]
      BY <1>0, <1>7, OtherSide DEF Copy, CopyRead, CopyWrite, CopyEnds, CopyClose, Tasks
  <2>3. ~Nothing
      BY <2>1 DEF Nothing
  <2>4. QED
      BY <2>1, <2>2, <2>3 DEF Opening
<1>8. QED
    BY <1>1, <1>2, <1>3, <1>4, <1>5, <1>6, <1>7 DEF Next, Serve, Peers

(* Every step of the tunnel keeps the copiers' books. *)
LEMMA CopiedKeeps ==
    ASSUME TunnelInv, [Next]_vars, Shapes', Opening'
    PROVE  Copied'
<1> USE DEF TunnelInv, sideVars, copyVars, loopVars
<1>1. CASE UNCHANGED vars
    BY <1>1, CopiedStays DEF vars
<1>2. CASE Serve
  <2>1. CASE Nothing'
    <3>1. (Shapes /\ Nothing => Copied)'
        BY NothingCopied, PTL
    <3>2. QED
        BY <2>1, <3>1
  <2>2. CASE mode' # "accept"
      BY <2>2 DEF Copied
  <2>3. CASE mode' = "accept" /\ ~Nothing'
    <3>1. pc'["serve"] = "done"
        BY <2>3 DEF Opening
    <3>2. mode = "accept"
      <4>1. CASE Start
          BY <2>3, <3>1, <4>1 DEF Start, Goto, Shapes, Tasks
      <4>2. CASE ~Start
          BY <1>2, <2>3, <4>2 DEF Serve, Dial, DialUpstream, Tunnel, MitmHandshake, CloseClient, ReadRequest,
             LastRequest, RoundTrip, RoundTripFails, Filter, WriteResponse
      <4>3. QED
          BY <4>1, <4>2
    <3>3. pc["serve"] \in {"dial", "upstream", "tunnel", "close"}
        BY <1>2, <3>2 DEF Opening, Serve, Start, Dial, DialUpstream, Tunnel, MitmHandshake, CloseClient, ReadRequest,
           LastRequest, RoundTrip, RoundTripFails, Filter, WriteResponse
    <3>4. UNCHANGED <<got, hand, taken, lost, sent>>
        BY <1>2, <3>1, <3>2, <3>3 DEF Serve, Start, Dial, DialUpstream, Tunnel, MitmHandshake, CloseClient, ReadRequest,
           LastRequest, RoundTrip, RoundTripFails, Filter, WriteResponse, Goto, Shapes, Tasks
    <3>5. QED
        BY <3>2, <3>4, CopiedStays
  <2>4. QED
      BY <2>1, <2>2, <2>3
<1>3. ASSUME NEW s \in Sides, SideSends(s)
      PROVE  Copied'
  <2>1. PICK k \in Kinds \cup {"byte"} :
            sent' = [sent EXCEPT ![s] = Append(@, [no |-> Len(@) + 1, kind |-> k])]
      BY <1>3 DEF SideSends, Speech
  <2>2. [no |-> Len(sent[s]) + 1, kind |-> k] \in Items
      BY DEF Items, Shapes
  <2>3. \E x \in Items : sent' = [sent EXCEPT ![s] = Append(@, x)]
      BY <2>1, <2>2
  <2>4. UNCHANGED <<mode, got, hand, taken, lost>>
      BY <1>3 DEF SideSends
  <2>5. QED
      BY <2>3, <2>4, CopiedStays
<1>4. ASSUME NEW s \in Sides, SideReads(s) \/ SideEnds(s) \/ CopyEnds(s) \/ CopyClose(s)
      PROVE  Copied'
  <2>1. UNCHANGED <<mode, got, hand, taken, lost, sent>>
      BY <1>4 DEF SideReads, SideEnds, CopyEnds, CopyClose
  <2>2. QED
      BY <2>1, CopiedStays
<1>5. ASSUME NEW s \in Sides, CopyRead(s) \/ CopyWrite(s)
      PROVE  Copied'
    BY <1>5, CopyReadKeeps, CopyWriteKeeps
<1>6. QED
    BY <1>1, <1>2, <1>3, <1>4, <1>5 DEF Next, Peers, Copy

(* What a side got is what the copier handed on, and so a prefix. *)
LEMMA CopiedIsPrefix == TunnelInv => TunnelInOrder
<1> SUFFICES ASSUME TunnelInv, mode = "accept", NEW s \in Sides
             PROVE  IsPrefix(got[s], After(Other(s)))
    BY DEF TunnelInOrder
<1>1. Other(s) \in Sides /\ Other(Other(s)) = s
    BY OtherSide
<1>2. /\ CopiedFrom(Other(s)) /\ sent[Other(s)] \in Seq(Items)
      /\ lost[Other(s)] \in Nat /\ taken[Other(s)] <= Len(sent[Other(s)])
    BY <1>1 DEF TunnelInv, Copied, Shapes
<1>3. /\ got[s] \in Seq(Items) /\ hand[Other(s)] \in Seq(Items)
      /\ lost[Other(s)] + Len(got[s]) + Len(hand[Other(s)]) <= Len(sent[Other(s)])
      /\ \A i \in 1..Len(got[s]) : got[s][i] = sent[Other(s)][lost[Other(s)] + i]
    BY <1>1, <1>2 DEF CopiedFrom
<1>4. lost[Other(s)] + Len(got[s]) <= Len(sent[Other(s)])
    BY <1>2, <1>3
<1>5. QED
    BY <1>2, <1>3, <1>4, PrefixByItems DEF After

(* What a tunnel gives a side is all that the other side sent, in order and
   without a gap (copyAndClose, https.go:258), behind the bytes that were lost
   with a reader before the copiers started: the client's with the one that
   Hijack returns (https.go:72), the target's with the one of the upstream
   proxy's answer (https.go:302). *)
THEOREM TunnelsKeepOrder == Spec => []TunnelInOrder
<1>1. Init => TunnelInv
    BY InitTunnel
<1>2. TunnelInv /\ [Next]_vars => TunnelInv'
  <2> SUFFICES ASSUME TunnelInv, [Next]_vars PROVE TunnelInv'
      OBVIOUS
  <2>1. Shapes'
      BY NextShapes DEF TunnelInv
  <2>2. Opening'
      BY OpeningKeeps
  <2>3. Copied'
      BY <2>1, <2>2, CopiedKeeps
  <2>4. QED
      BY <2>1, <2>2, <2>3 DEF TunnelInv
<1>3. TunnelInv => TunnelInOrder
    BY CopiedIsPrefix
<1>4. QED
    BY <1>1, <1>2, <1>3, PTL DEF Spec

-----------------------------------------------------------------------------
(* The loops over requests.  One request is at hand, the one before those
   read ahead. *)
Looping == mode \in {"plain", "mitm", "httpmitm"}
AtHand == taken["client"] - Len(ahead)
Asked == {"send", "filter", "write"}
Fresh == {"start", "dial", "upstream", "shake"}

(* Where the handler is in each mode; only a tunnel has copiers, and it sends
   no request on. *)
Modes ==
    /\ mode \in Actions \cup {"new", "plain"}
    /\ pc["serve"] \in Fresh \cup Asked \cup {"request", "tunnel", "close", "done"}
    /\ mode = "new" <=> pc["serve"] = "start"
    /\ pc["serve"] \in Asked \cup {"request"} => Looping
    /\ pc["serve"] \in {"dial", "upstream"} => mode \in {"accept", "httpmitm"}
    /\ pc["serve"] = "shake" => mode = "mitm"
    /\ pc["serve"] = "tunnel" => mode = "accept"
    /\ mode \in {"new", "accept"} => forwarded = <<>>
    /\ mode # "accept" => \A s \in Sides : pc[s] = "unborn"

(* What was read of the client: requests up to the one at hand, and those ahead. *)
ReadAhead ==
    /\ \A i \in 1..Len(sent["client"]) : sent["client"][i].no = i
    /\ taken["client"] \in Nat /\ taken["client"] <= Len(sent["client"])
    /\ ahead \in Seq(Items) /\ Len(ahead) <= taken["client"]
    /\ \A i \in 1..Len(ahead) : ahead[i] = sent["client"][AtHand + i]

(* The request at hand, and what there is of its response. *)
InHand ==
    /\ resp = [to |-> resp.to, by |-> resp.by, through |-> resp.through]
    /\ pc["serve"] \in Asked => 1 <= AtHand /\ req.no = AtHand
    /\ pc["serve"] \in {"filter", "write"} => resp.to = AtHand
    /\ pc["serve"] = "filter" => resp.by # "none"
    /\ pc["serve"] \in {"filter", "write"} /\ resp.by = "server" => AtHand \in ToSet(forwarded)

(* No handler answers this request. *)
NotAnswered(no) ==
    \A h \in ToSet(ReqHandlers) : h.does = "answer" => sent["client"][no].kind \notin h.when

(* What was sent on. *)
SentOn ==
    /\ forwarded \in Seq(Nat)
    /\ \A i, j \in DOMAIN forwarded : i < j => forwarded[i] < forwarded[j]
    /\ \A i \in DOMAIN forwarded :
          /\ 1 <= forwarded[i] /\ forwarded[i] <= AtHand /\ NotAnswered(forwarded[i])
          /\ pc["serve"] = "send" => forwarded[i] < AtHand
    /\ pc["serve"] = "send" => NotAnswered(AtHand)

(* What the client was given, and how far it goes with its requests: a client that waits
   for each answer has at most one request that is not answered. *)
Given ==
    /\ got = [s \in Sides |-> got[s]]
    /\ \E S : got["client"] \in Seq(S)
    /\ \A i \in 1..Answered : got["client"][i].by = "server" => got["client"][i].to \in ToSet(forwarded)
    /\ pc["serve"] \in Fresh => got["client"] = <<>> /\ taken["client"] = lost["client"] /\ ahead = <<>>
    /\ seen["client"] <= Answered
    /\ ~pipelined => Len(sent["client"]) <= seen["client"] + 1 /\ ahead = <<>>
InStep ==
    Looping /\ ~(mode = "httpmitm" /\ pipelined) =>
        /\ \A i \in 1..Answered : got["client"][i].to = lost["client"] + i
        /\ pc["serve"] = "request" => lost["client"] + Answered = AtHand
        /\ pc["serve"] \in Asked => lost["client"] + Answered + 1 = AtHand

Serving == ReadAhead /\ InHand /\ SentOn /\ Given /\ InStep
LoopInv == Modes /\ (mode # "accept" => Serving)

(* The least and the greatest member of a set that has one. *)
LEMMA LeastMember ==
    ASSUME NEW T \in SUBSET Nat, T # {}
    PROVE  Min(T) \in T
<1> T \subseteq Nat
    OBVIOUS
<1>1. PICK x \in T : \A y \in T : ~(<<y, x>> \in OpToRel(<, Nat))
    BY NatLessThanWellFounded, WFMin
<1>2. ASSUME NEW y \in T
      PROVE  x <= y
  <2>1. ~(y < x)
      BY <1>1, <1>2 DEF OpToRel
  <2>2. QED
      BY <2>1
<1>3. QED
    BY <1>2 DEF Min

(* Likewise of one that has a bound. *)
LEMMA GreatestMember ==
    ASSUME NEW n \in Nat, NEW T \in SUBSET (1..n), T # {}
    PROVE  Max(T) \in T
<1> DEFINE U == {n - x : x \in T}
<1>1. U \subseteq Nat /\ U # {}
  <2>1. ASSUME NEW x \in T
        PROVE  n - x \in Nat
      OBVIOUS
  <2>2. PICK x \in T : TRUE
      OBVIOUS
  <2>3. n - x \in U
      BY <2>2
  <2>4. QED
      BY <2>1, <2>3
<1>2. PICK u \in U : \A y \in U : ~(<<y, u>> \in OpToRel(<, Nat))
    BY <1>1, NatLessThanWellFounded, WFMin
<1>3. PICK x \in T : u = n - x
    BY <1>2
<1>4. ASSUME NEW y \in T
      PROVE  x >= y
  <2>1. ~(n - y < n - x)
      BY <1>1, <1>2, <1>3, <1>4 DEF OpToRel
  <2>2. QED
      BY <2>1
<1>5. QED
    BY <1>4 DEF Max

(* What a CONNECT handler decides, or what is done without one. *)
LEMMA ChosenAction ==
    ASSUME NEW chain \in HttpsHandlers
    PROVE  ConnectAction(chain) \in Actions
<1>1. chain \in Seq(Actions \cup {"nil"}) /\ Len(chain) \in Nat /\ DOMAIN chain = 1..Len(chain)
    BY HandlerAssumption
<1>2. PICK T : T = {i \in DOMAIN chain : chain[i] # "nil"}
    OBVIOUS
<1>3. CASE T = {}
    BY <1>2, <1>3 DEF ConnectAction, Actions
<1>4. CASE T # {}
  <2>1. Max(T) \in T
      BY <1>1, <1>2, <1>4, GreatestMember
  <2>2. ConnectAction(chain) = chain[Max(T)]
      BY <1>2, <1>4 DEF ConnectAction
  <2>3. chain[Max(T)] \in Actions \cup {"nil"} /\ chain[Max(T)] # "nil"
      BY <1>1, <1>2, <2>1
  <2>4. QED
      BY <2>2, <2>3
<1>5. QED
    BY <1>3, <1>4

(* A handler answers, or hands on the client's request. *)
LEMMA HandlerSays ==
    ASSUME NEW i \in DOMAIN ReqHandlers, NEW r \in Items
    PROVE  LET h == ReqHandlers[i]  f == HandleReq(h, r) IN
             /\ h.does = "answer" /\ r.kind \in h.when <=> f.resp # NoResp
             /\ f.resp = NoResp => f.req.no = r.no
             /\ f.resp # NoResp => f.resp = [to |-> r.no, by |-> "handler", through |-> <<>>]
<1> PICK h : h = ReqHandlers[i]
    OBVIOUS
<1>1. h.does \in {"pass", "edit", "answer"}
  <2>1. PICK H : H = [when : SUBSET (Kinds \cup {"CONNECT"}), does : {"pass", "edit", "answer"}]
      OBVIOUS
  <2>2. ReqHandlers \in Seq(H)
      BY <2>1, HandlerAssumption
  <2>3. h \in H
      BY <2>2
  <2>4. QED
      BY <2>1, <2>3
<1>2. CASE r.kind \notin h.when \/ h.does = "pass"
  <2>1. HandleReq(h, r) = [req |-> r, resp |-> NoResp]
      BY <1>1, <1>2 DEF HandleReq
  <2>2. QED
      BY <1>2, <2>1
<1>3. CASE r.kind \in h.when /\ h.does = "edit"
  <2>1. HandleReq(h, r) = [req |-> [r EXCEPT !.kind = "edited"], resp |-> NoResp]
      BY <1>3 DEF HandleReq
  <2>2. QED
      BY <1>3, <2>1 DEF Items
<1>4. CASE r.kind \in h.when /\ h.does = "answer"
  <2>1. HandleReq(h, r) = [req |-> NoItem, resp |-> [NoResp EXCEPT !.to = r.no, !.by = "handler"]]
      BY <1>4 DEF HandleReq
  <2>2. [NoResp EXCEPT !.to = r.no, !.by = "handler"] = [to |-> r.no, by |-> "handler", through |-> <<>>]
    <3>1. [NoResp EXCEPT !.to = r.no] = [to |-> r.no, by |-> "none", through |-> <<>>]
        BY DEF NoResp
    <3>2. [[to |-> r.no, by |-> "none", through |-> <<>>] EXCEPT !.by = "handler"]
            = [to |-> r.no, by |-> "handler", through |-> <<>>]
        OBVIOUS
    <3>3. QED
        BY <3>1, <3>2
  <2>3. HandleReq(h, r).resp = [to |-> r.no, by |-> "handler", through |-> <<>>] /\ NoResp.by = "none"
      BY <2>1, <2>2 DEF NoResp
  <2>4. QED
      BY <1>4, <2>3
<1>5. QED
    BY <1>1, <1>2, <1>3, <1>4

(* A request is answered, or handed on because no handler answers it. *)
LEMMA RequestFiltered ==
    ASSUME NEW r \in Items
    PROVE  LET f == FilterRequest(r) IN
             \/ f.resp = [to |-> r.no, by |-> "handler", through |-> <<>>]
             \/ /\ f.resp = NoResp /\ f.req.no = r.no
                /\ \A h \in ToSet(ReqHandlers) : h.does = "answer" => r.kind \notin h.when
<1>1. DOMAIN ReqHandlers = 1..Len(ReqHandlers) /\ Len(ReqHandlers) \in Nat
    BY HandlerAssumption
<1>2. CASE ReqHandlers = <<>>
  <2>1. Answerers(r) = {}
      BY <1>2 DEF Answerers
  <2>2. FilterRequest(r) = [req |-> r, resp |-> NoResp]
      BY <1>2, <2>1 DEF FilterRequest, LastHandler, Unfiltered
  <2>3. ToSet(ReqHandlers) = {}
      BY <1>2 DEF ToSet
  <2>4. QED
      BY <2>2, <2>3
<1>3. CASE ReqHandlers # <<>> /\ Answerers(r) # {}
  <2>1. PICK i : i = Min(Answerers(r))
      OBVIOUS
  <2>2. Answerers(r) \in SUBSET Nat
      BY <1>1 DEF Answerers
  <2>3. i \in Answerers(r)
      BY <1>3, <2>1, <2>2, LeastMember
  <2>4. i \in DOMAIN ReqHandlers /\ HandleReq(ReqHandlers[i], r).resp # NoResp
      BY <2>3 DEF Answerers
  <2>5. FilterRequest(r) = HandleReq(ReqHandlers[i], r)
      BY <1>3, <2>1 DEF FilterRequest
  <2>6. QED
      BY <2>4, <2>5, HandlerSays
<1>4. CASE ReqHandlers # <<>> /\ Answerers(r) = {}
  <2>1. PICK i : i = Len(ReqHandlers)
      OBVIOUS
  <2>2. i \in DOMAIN ReqHandlers
      BY <1>1, <1>4, <2>1, HandlerAssumption
  <2>3. FilterRequest(r) = HandleReq(ReqHandlers[i], r)
      BY <1>4, <2>1 DEF FilterRequest, LastHandler, Last
  <2>4. \A j \in DOMAIN ReqHandlers : HandleReq(ReqHandlers[j], r).resp = NoResp
      BY <1>4 DEF Answerers
  <2>5. \A j \in DOMAIN ReqHandlers : ReqHandlers[j].does = "answer" => r.kind \notin ReqHandlers[j].when
      BY <2>4, HandlerSays
  <2>6. QED
      BY <2>2, <2>3, <2>4, <2>5, HandlerSays DEF ToSet
<1>5. QED
    BY <1>2, <1>3, <1>4

(* A response stays whose it is; of a missing one a handler may make its own. *)
LEMMA ResponseFiltered ==
    ASSUME NEW a, a = [to |-> a.to, by |-> a.by, through |-> a.through], a.by # "none" \/ a = NoResp
    PROVE  LET b == FilterResponse(a) IN
             /\ b = [to |-> b.to, by |-> b.by, through |-> b.through]
             /\ a.by # "none" => b.to = a.to /\ b.by = a.by
             /\ a = NoResp => b = NoResp \/ (b.to = req.no /\ b.by = "handler")
<1>1. CASE a.by # "none"
  <2>1. PICK t : t = a.through \o Heard
      OBVIOUS
  <2>2. FilterResponse(a) = [a EXCEPT !.through = t]
      BY <1>1, <2>1 DEF FilterResponse
  <2>3. [a EXCEPT !.through = t] = [to |-> a.to, by |-> a.by, through |-> t]
      OBVIOUS
  <2>4. NoResp.by = "none"
      BY DEF NoResp
  <2>5. QED
      BY <1>1, <2>2, <2>3, <2>4
<1>2. CASE a = NoResp
  <2>1. NoResp.by = "none" /\ NoResp = [to |-> 0, by |-> "none", through |-> <<>>]
      BY DEF NoResp
  <2>2. PICK R : R = {k \in DOMAIN Heard : RespHandlers[Heard[k]].does = "rescue"}
      OBVIOUS
  <2>3. CASE R = {}
    <3>1. FilterResponse(a) = a
        BY <1>2, <2>1, <2>2, <2>3 DEF FilterResponse
    <3>2. QED
        BY <1>2, <2>1, <3>1
  <2>4. CASE R # {}
    <3>1. PICK t : t = SubSeq(Heard, Min(R), Len(Heard))
        OBVIOUS
    <3>2. FilterResponse(a) = [to |-> req.no, by |-> "handler", through |-> t]
        BY <1>2, <2>1, <2>2, <2>4, <3>1 DEF FilterResponse
    <3>3. QED
        BY <1>2, <2>1, <3>2
  <2>5. QED
      BY <2>3, <2>4
<1>3. QED
    BY <1>1, <1>2

-----------------------------------------------------------------------------
(* A new connection has read nothing, and nothing is at hand. *)
LEMMA InitLoop == Init => LoopInv
<1> SUFFICES ASSUME Init PROVE LoopInv
    OBVIOUS
<1>1. pc["serve"] = "start" /\ \A s \in Sides : pc[s] = "unborn"
    BY OtherSide DEF Init
<1>2. /\ sent["client"] = <<>> /\ taken["client"] = 0 /\ got["client"] = <<>> /\ seen["client"] = 0
      /\ ahead = <<>> /\ forwarded = <<>> /\ resp = NoResp /\ mode = "new" /\ pipelined = FALSE
      /\ lost["client"] = 0 /\ got = [s \in Sides |-> got[s]]
    BY OtherSide DEF Init
<1>3. Modes
    BY <1>1, <1>2 DEF Modes, Fresh, Asked, Actions
<1>4. ReadAhead
    BY <1>2 DEF ReadAhead, Items
<1>5. InHand
    BY <1>1, <1>2 DEF InHand, NoResp, Asked
<1>6. SentOn
    BY <1>1, <1>2 DEF SentOn
<1>7. Given
  <2>1. got["client"] \in Seq({})
      BY <1>2
  <2>2. QED
      BY <1>1, <1>2, <2>1 DEF Given, Answered
<1>8. InStep
    BY <1>1, <1>2 DEF InStep, Looping
<1>9. QED
    BY <1>3, <1>4, <1>5, <1>6, <1>7, <1>8 DEF LoopInv, Serving

(* Every step leaves the handler where its mode has it. *)
LEMMA NextModes ==
    ASSUME Shapes, Modes, [Next]_vars
    PROVE  Modes'
<1> USE DEF sideVars, copyVars, loopVars, Goto
<1>1. pc = [t \in Tasks |-> pc[t]] /\ "serve" \in Tasks /\ "serve" \notin Sides /\ Sides \subseteq Tasks
    BY OtherSide DEF Shapes, Tasks
<1>2. ASSUME UNCHANGED <<mode, pc, forwarded>>
      PROVE  Modes'
    BY <1>2 DEF Modes, Looping
<1>3. ASSUME NEW l, Goto("serve", l)
      PROVE  pc'["serve"] = l /\ \A s \in Sides : pc'[s] = pc[s]
    BY <1>1, <1>3
<1>4. CASE Start
  <2>1. pc["serve"] = "start" /\ mode = "new" /\ UNCHANGED forwarded
      BY <1>4 DEF Start, Modes
  <2>2. CASE mode' = "plain" /\ Goto("serve", "request")
    <3>1. pc'["serve"] = "request" /\ \A s \in Sides : pc'[s] = pc[s]
        BY <1>3, <2>2
    <3>2. QED
        BY <2>1, <2>2, <3>1 DEF Modes, Looping, Fresh, Asked
  <2>3. ASSUME NEW chain \in HttpsHandlers, mode' = ConnectAction(chain),
               Goto("serve", CASE mode' \in {"accept", "httpmitm"} -> "dial"
                               [] mode' = "mitm" -> "shake"
                               [] mode' = "hijack" -> "done"
                               [] mode' = "reject" -> "close")
        PROVE  Modes'
    <3>1. mode' \in Actions
        BY <2>3, ChosenAction
    <3>2. PICK l : l = CASE mode' \in {"accept", "httpmitm"} -> "dial"
                         [] mode' = "mitm" -> "shake"
                         [] mode' = "hijack" -> "done"
                         [] mode' = "reject" -> "close"
        OBVIOUS
    <3>3. /\ l \in {"dial", "shake", "done", "close"}
          /\ l = "dial" => mode' \in {"accept", "httpmitm"}
          /\ l = "shake" => mode' = "mitm"
        BY <3>1, <3>2 DEF Actions
    <3>4. pc'["serve"] = l /\ \A s \in Sides : pc'[s] = pc[s]
        BY <1>3, <2>3, <3>2
    <3>5. QED
        BY <2>1, <3>1, <3>3, <3>4 DEF Modes, Looping, Fresh, Asked, Actions
  <2>4. QED
      BY <1>4, <2>2, <2>3 DEF Start
<1>5. CASE Dial
  <2>1. /\ pc["serve"] = "dial" /\ UNCHANGED <<mode, forwarded>>
        /\ \E l : /\ Goto("serve", l)
                  /\ l \in {"upstream", "tunnel", "request", "close", "done"}
                  /\ l = "request" => mode # "accept"
                  /\ l = "tunnel" => mode = "accept"
      BY <1>5 DEF Dial
  <2>2. QED
      BY <1>3, <2>1 DEF Modes, Looping, Fresh, Asked, Actions
<1>6. CASE DialUpstream
  <2>1. /\ pc["serve"] = "upstream" /\ UNCHANGED <<mode, forwarded>>
        /\ \E l : /\ Goto("serve", l)
                  /\ l \in {"tunnel", "request", "close", "done"}
                  /\ l = "request" => mode # "accept"
                  /\ l = "tunnel" => mode = "accept"
      BY <1>6 DEF DialUpstream
  <2>2. QED
      BY <1>3, <2>1 DEF Modes, Looping, Fresh, Asked, Actions
<1>7. CASE Tunnel
    BY <1>7 DEF Tunnel, Modes, Looping, Fresh, Asked
<1>8. CASE MitmHandshake \/ CloseClient \/ LastRequest
  <2>1. /\ pc["serve"] \in {"shake", "close", "request"} /\ UNCHANGED <<mode, forwarded>>
        /\ \E l : Goto("serve", l) /\ l \in {"request", "done", "close"}
                  /\ (l = "request" => pc["serve"] = "shake")
      BY <1>8 DEF MitmHandshake, CloseClient, LastRequest
  <2>2. QED
      BY <1>3, <2>1 DEF Modes, Looping, Fresh, Asked, Actions
<1>9. CASE ReadRequest \/ RoundTrip \/ RoundTripFails \/ Filter \/ WriteResponse
  <2>1. /\ pc["serve"] \in {"request"} \cup Asked /\ UNCHANGED mode
        /\ \E l : Goto("serve", l) /\ l \in {"request", "close"} \cup Asked
      BY <1>9 DEF ReadRequest, RoundTrip, RoundTripFails, Filter, WriteResponse, Asked
  <2>2. QED
      BY <1>3, <2>1 DEF Modes, Looping, Fresh, Asked
<1>10. ASSUME NEW s \in Sides, Copy(s)
       PROVE  Modes'
  <2>1. pc[s] # "unborn" /\ UNCHANGED <<mode, forwarded>> /\ pc'["serve"] = pc["serve"]
      BY <1>1, <1>10 DEF Copy, CopyRead, CopyWrite, CopyEnds, CopyClose
  <2>2. QED
      BY <2>1 DEF Modes, Looping
<1>11. CASE Peers
    BY <1>2, <1>11 DEF Peers, SideSends, SideReads, SideEnds
<1>12. QED
    BY <1>2, <1>4, <1>5, <1>6, <1>7, <1>8, <1>9, <1>10, <1>11 DEF Next, Serve, vars

(* A step that reads no request, sends none on and answers none leaves what is
   said of them as it is, unless a request would come to be at hand. *)
LEMMA LoopStill ==
    ASSUME Shapes, Modes, Serving,
           UNCHANGED <<sent, seen, pipelined, got, ahead, req, resp, forwarded>>,
           taken'["client"] = taken["client"], lost'["client"] = lost["client"],
           mode' = mode \/ pc["serve"] \in Fresh,
           \/ pc'["serve"] = pc["serve"]
           \/ /\ pc'["serve"] \notin Asked
              /\ pc'["serve"] \in Fresh \cup {"request"} => pc["serve"] \in Fresh
    PROVE  Serving'
<1> USE DEF Serving
<1>1. Answered' = Answered /\ AtHand' = AtHand /\ \A no : NotAnswered(no)' <=> NotAnswered(no)
    BY DEF Answered, AtHand, NotAnswered
<1>2. Fresh \cap Asked = {} /\ "send" \in Asked /\ "filter" \in Asked /\ "write" \in Asked
      /\ "request" \notin Fresh \cup Asked
    BY DEF Fresh, Asked
<1>3. ReadAhead'
    BY <1>1 DEF ReadAhead
<1>4. InHand'
    BY <1>1, <1>2 DEF InHand
<1>5. SentOn'
    BY <1>1, <1>2 DEF SentOn
<1>6. Given'
    BY <1>1, <1>2 DEF Given
<1>7. InStep'
  <2>1. CASE pc["serve"] \in Fresh
    <3>1. got["client"] = <<>> /\ taken["client"] = lost["client"] /\ ahead = <<>>
          /\ lost["client"] \in Nat
        BY <2>1, OtherSide DEF Given, Shapes
    <3>2. Answered' = 0 /\ AtHand' = lost["client"] /\ pc'["serve"] \notin Asked
      <4>1. Answered = 0 /\ AtHand = lost["client"]
        <5>1. Len(got["client"]) = 0 /\ Len(ahead) = 0
            BY <3>1
        <5>2. Answered = 0
            BY <5>1 DEF Answered
        <5>3. AtHand = lost["client"]
            BY <3>1, <5>1 DEF AtHand
        <5>4. QED
            BY <5>2, <5>3
      <4>2. pc'["serve"] \notin Asked
          BY <1>2, <2>1
      <4>3. QED
          BY <1>1, <4>1, <4>2
    <3>3. QED
        BY <3>1, <3>2 DEF InStep
  <2>2. CASE pc["serve"] \notin Fresh
      BY <1>1, <1>2, <2>2 DEF InStep, Looping
  <2>3. QED
      BY <2>1, <2>2
<1>8. QED
    BY <1>3, <1>4, <1>5, <1>6, <1>7

(* What a side does: a client may send a request behind those it has sent, or
   read an answer. *)
LEMMA PeersKeep ==
    ASSUME Shapes, Modes, Serving, mode # "accept", NEW s \in Sides,
           SideSends(s) \/ SideReads(s) \/ SideEnds(s)
    PROVE  Serving'
<1> USE DEF sideVars, copyVars, loopVars
<1>1. /\ sent = [x \in Sides |-> sent[x]] /\ seen = [x \in Sides |-> seen[x]] /\ "client" \in Sides
      /\ sent["client"] \in Seq(Items) /\ seen["client"] \in Nat
    BY OtherSide DEF Shapes
<1>2. CASE SideEnds(s)
  <2>1. UNCHANGED <<mode, pc, sent, seen, pipelined, got, taken, lost, ahead, req, resp, forwarded>>
      BY <1>2 DEF SideEnds
  <2>2. QED
      BY <2>1, LoopStill
<1>3. CASE SideReads(s)
  <2>1. UNCHANGED <<mode, pc, sent, pipelined, got, taken, lost, ahead, req, resp, forwarded>>
      BY <1>3 DEF SideReads
  <2>2. /\ seen'["client"] \in Nat /\ seen["client"] <= seen'["client"]
        /\ seen["client"] <= Answered => seen'["client"] <= Answered
    <3>1. CASE s = "client"
        BY <1>1, <1>3, <3>1 DEF SideReads, Answered
    <3>2. CASE s # "client"
        BY <1>1, <1>3, <3>2 DEF SideReads
    <3>3. QED
        BY <3>1, <3>2
  <2>3. Answered' = Answered /\ AtHand' = AtHand /\ \A no : NotAnswered(no)' <=> NotAnswered(no)
      BY <2>1 DEF Answered, AtHand, NotAnswered
  <2>4. ReadAhead' /\ InHand' /\ SentOn' /\ InStep'
      BY <2>1, <2>3 DEF Serving, ReadAhead, InHand, SentOn, InStep, Looping
  <2>5. Given'
    <3>1. Given
        BY DEF Serving
    <3>2. ~pipelined => Len(sent["client"]) <= seen'["client"] + 1
      <4>1. Len(sent["client"]) \in Nat
          BY <1>1
      <4>2. QED
          BY <1>1, <2>2, <3>1, <4>1 DEF Given
    <3>3. QED
        BY <2>1, <2>2, <2>3, <3>1, <3>2 DEF Given
  <2>6. QED
      BY <2>4, <2>5 DEF Serving
<1>4. CASE SideSends(s)
  <2>1. /\ UNCHANGED <<mode, pc, seen, got, taken, lost, ahead, req, resp, forwarded>> /\ s = "client"
        /\ pipelined' = (pipelined \/ Len(sent["client"]) > seen["client"])
      BY <1>4 DEF SideSends, Sides
  <2>2. PICK k \in Kinds \cup {"byte"} :
            sent' = [sent EXCEPT !["client"] = Append(@, [no |-> Len(@) + 1, kind |-> k])]
      BY <1>4, <2>1 DEF SideSends, Speech
  <2>3. PICK x : x = [no |-> Len(sent["client"]) + 1, kind |-> k]
      OBVIOUS
  <2>4. PICK n \in Nat : n = Len(sent["client"])
      BY <1>1
  <2>5. x \in Items /\ x.no = n + 1
      BY <2>3, <2>4 DEF Items
  <2>6. /\ sent'["client"] = Append(sent["client"], x) /\ Len(sent'["client"]) = n + 1
        /\ sent'["client"][n + 1] = x /\ \A i \in 1..n : sent'["client"][i] = sent["client"][i]
    <3>1. sent'["client"] = Append(sent["client"], x)
        BY <1>1, <2>2, <2>3
    <3>2. QED
        BY <1>1, <2>4, <2>5, <3>1, AppendItem
  <2>7. Answered' = Answered /\ AtHand' = AtHand
      BY <2>1 DEF Answered, AtHand
  <2>8. ReadAhead' /\ AtHand <= n /\ AtHand \in Int
    <3>1. /\ ReadAhead /\ taken["client"] \in Nat /\ Len(ahead) \in Nat /\ AtHand \in Int
          /\ AtHand <= n /\ taken["client"] <= n + 1 /\ Len(ahead) <= taken["client"] /\ taken["client"] <= n
      <4>1. ReadAhead
          BY DEF Serving
      <4>2. taken["client"] \in Nat /\ taken["client"] <= n
          BY <2>4, <4>1 DEF ReadAhead
      <4>3. Len(ahead) \in Nat /\ Len(ahead) <= taken["client"]
          BY <4>1 DEF ReadAhead
      <4>4. QED
          BY <2>4, <4>1, <4>2, <4>3 DEF AtHand
    <3>2. \A i \in 1..(n + 1) : sent'["client"][i].no = i
      <4>1. ASSUME NEW i \in 1..(n + 1)
            PROVE  i \in 1..n \/ i = n + 1
          OBVIOUS
      <4>2. QED
          BY <2>4, <2>5, <2>6, <3>1, <4>1 DEF ReadAhead
    <3>3. \A i \in 1..Len(ahead) : ahead[i] = sent'["client"][AtHand + i]
      <4>1. ASSUME NEW i \in 1..Len(ahead)
            PROVE  AtHand + i \in 1..n
          BY <3>1 DEF AtHand
      <4>2. QED
          BY <2>6, <3>1, <4>1 DEF ReadAhead
    <3>4. QED
        BY <2>1, <2>6, <2>7, <3>1, <3>2, <3>3 DEF ReadAhead
  <2>9. InHand' /\ InStep'
    <3>1. Looping' = Looping /\ (pipelined => pipelined')
        BY <2>1 DEF Looping
    <3>2. QED
        BY <2>1, <2>7, <3>1 DEF Serving, InHand, InStep
  <2>10. SentOn'
    <3>1. ASSUME NEW no \in Nat, 1 <= no, no <= AtHand, NotAnswered(no)
          PROVE  NotAnswered(no)'
      <4>1. no \in 1..n
          BY <2>8, <3>1
      <4>2. QED
          BY <2>6, <3>1, <4>1 DEF NotAnswered
    <3>2. SentOn
        BY DEF Serving
    <3>3. \A i \in DOMAIN forwarded : forwarded[i] \in Nat
        BY <3>2 DEF SentOn
    <3>4. pc["serve"] = "send" => AtHand \in Nat /\ 1 <= AtHand
        BY <2>8 DEF Serving, InHand, Asked
    <3>5. pc["serve"] = "send" => NotAnswered(AtHand)'
      <4>1. pc["serve"] = "send" => NotAnswered(AtHand)
          BY <3>2 DEF SentOn
      <4>2. QED
          BY <2>7, <2>8, <3>1, <3>4, <4>1
    <3>6. QED
        BY <2>1, <2>7, <3>1, <3>2, <3>3, <3>5 DEF SentOn
  <2>11. Given'
    <3>1. Given
        BY DEF Serving
    <3>2. ~pipelined' => n <= seen["client"] /\ ahead = <<>>
      <4>1. ~pipelined' => ~pipelined /\ ~(Len(sent["client"]) > seen["client"])
          BY <2>1, Zenon
      <4>2. QED
          BY <1>1, <2>4, <3>1, <4>1 DEF Given
    <3>3. QED
        BY <1>1, <2>1, <2>4, <2>6, <2>7, <3>1, <3>2 DEF Given
  <2>12. QED
      BY <2>8, <2>9, <2>10, <2>11 DEF Serving
<1>5. QED
    BY <1>2, <1>3, <1>4

(* Start: what was read of the client is lost, and nothing is answered. *)
LEMMA StartKeepsLoop ==
    ASSUME Shapes, Shapes', Modes, Modes', Serving, Start
    PROVE  Serving'
<1> USE DEF sideVars, copyVars, loopVars
<1>1. pc["serve"] = "start" /\ UNCHANGED <<sent, seen, pipelined, got, ahead, req, resp, forwarded>>
    BY DEF Start
<1>2. /\ got["client"] = <<>> /\ taken["client"] = lost["client"] /\ ahead = <<>> /\ forwarded = <<>>
    BY <1>1 DEF Serving, Given, Modes, Fresh
<1>3. taken'["client"] = lost'["client"]
  <2>1. UNCHANGED <<taken, lost>> \/ DropReader("client")
      BY DEF Start
  <2>2. QED
      BY <1>1, <1>2, <2>1, OtherSide, DropsKeep
<1>4. taken'["client"] \in Nat /\ taken'["client"] <= Len(sent'["client"])
    BY OtherSide DEF Shapes
<1>5. pc'["serve"] \notin Asked
  <2>1. CASE mode' \notin Actions
      BY <2>1, ChosenAction DEF Start, Goto, Shapes, Tasks, Asked
  <2>2. CASE mode' \in Actions
    <3>1. PICK l : l = CASE mode' \in {"accept", "httpmitm"} -> "dial"
                         [] mode' = "mitm" -> "shake"
                         [] mode' = "hijack" -> "done"
                         [] mode' = "reject" -> "close"
        OBVIOUS
    <3>2. l \in {"dial", "shake", "done", "close"}
        BY <2>2, <3>1 DEF Actions
    <3>3. pc'["serve"] = l
      <4>1. mode' # "plain"
          BY <2>2 DEF Actions
      <4>2. Goto("serve", l)
          BY <3>1, <4>1 DEF Start
      <4>3. QED
          BY <4>2 DEF Goto, Shapes, Tasks
    <3>4. QED
        BY <3>2, <3>3 DEF Asked
  <2>3. QED
      BY <2>1, <2>2
<1>6. Answered' = 0 /\ AtHand' = lost'["client"] /\ lost'["client"] \in Nat
  <2>1. Len(got["client"]) = 0 /\ Len(ahead) = 0
      BY <1>2
  <2>2. QED
      BY <1>1, <1>3, <1>4, <2>1 DEF Answered, AtHand
<1>7. ReadAhead'
    BY <1>1, <1>2, <1>4 DEF Serving, ReadAhead
<1>8. InHand'
    BY <1>1, <1>5 DEF Serving, InHand, Asked
<1>9. SentOn'
    BY <1>1, <1>2, <1>5 DEF SentOn, Asked
<1>10. Given'
  <2>1. Answered' = Answered
      BY <1>1 DEF Answered
  <2>2. QED
      BY <1>1, <1>2, <1>3, <2>1 DEF Serving, Given
<1>11. InStep'
    BY <1>5, <1>6 DEF InStep
<1>12. QED
    BY <1>7, <1>8, <1>9, <1>10, <1>11 DEF Serving

(* The steps between that and the first request, and after the last. *)
LEMMA OpeningKeepsLoop ==
    ASSUME Shapes, Modes, Serving,
           Dial \/ DialUpstream \/ MitmHandshake \/ CloseClient \/ LastRequest
    PROVE  Serving'
<1> USE DEF sideVars, copyVars, loopVars, Goto
<1>1. pc = [t \in Tasks |-> pc[t]] /\ "serve" \in Tasks /\ "client" \in Sides /\ "target" # "client"
    BY OtherSide DEF Shapes, Tasks
<1>2. UNCHANGED <<mode, sent, seen, pipelined, got, ahead, req, resp, forwarded>>
    BY DEF Dial, DialUpstream, MitmHandshake, CloseClient, LastRequest
<1>3. taken'["client"] = taken["client"] /\ lost'["client"] = lost["client"]
  <2>1. UNCHANGED <<taken, lost>> \/ DropReader("target")
      BY DEF Dial, DialUpstream, MitmHandshake, CloseClient, LastRequest
  <2>2. QED
      BY <1>1, <1>2, <2>1, OtherSide, DropsKeep
<1>4. PICK l : Goto("serve", l)
    BY DEF Dial, DialUpstream, MitmHandshake, CloseClient, LastRequest
<1>5. pc'["serve"] = l
    BY <1>1, <1>4
<1>6. CASE pc["serve"] \in Fresh
  <2>1. l \notin Asked
      BY <1>1, <1>5 DEF Dial, DialUpstream, MitmHandshake, CloseClient, LastRequest, Asked
  <2>2. QED
      BY <1>2, <1>3, <1>5, <1>6, <2>1, LoopStill
<1>7. CASE pc["serve"] \notin Fresh
  <2>1. CloseClient \/ LastRequest
      BY <1>7 DEF Dial, DialUpstream, MitmHandshake, Fresh
  <2>2. l \in {"done", "close"}
      BY <1>1, <1>5, <2>1 DEF CloseClient, LastRequest
  <2>3. QED
      BY <1>2, <1>3, <1>5, <2>2, LoopStill DEF Asked, Fresh
<1>8. QED
    BY <1>6, <1>7

(* The request a handler of the loops takes up is the next of those the client
   sent, if none that was read is dropped. *)
LEMMA ReadRequestKeeps ==
    ASSUME Shapes, Modes, Serving, ReadRequest
    PROVE  Serving'
<1> USE DEF sideVars, copyVars, loopVars, Goto
<1>1. /\ pc = [t \in Tasks |-> pc[t]] /\ "serve" \in Tasks /\ "client" \in Sides
      /\ sent["client"] \in Seq(Items) /\ seen["client"] \in Nat
    BY OtherSide DEF Shapes, Tasks
<1>2. PICK n \in 0..Unread("client") :
          /\ Ahead = <<>> <=> n > 0
          /\ LET items == Ahead \o SubSeq(sent["client"], taken["client"] + 1, taken["client"] + n)
                 f == Filtered(Head(items)) IN
                /\ ahead' = Tail(items)
                /\ req' = IF f.resp = NoResp THEN f.req ELSE Head(items)
                /\ resp' = f.resp
                /\ Goto("serve", CASE f.resp = NoResp -> "send"
                                   [] f.resp.by = "proxy" -> "write"
                                   [] OTHER -> "filter")
          /\ taken' = [taken EXCEPT !["client"] = @ + n]
    BY DEF ReadRequest
<1>3. /\ pc["serve"] = "request" /\ UNCHANGED <<mode, sent, seen, pipelined, got, lost, forwarded>>
      /\ lost["client"] \in Nat
    BY OtherSide DEF ReadRequest, Shapes
<1>4. PICK m \in Nat : m = taken["client"]
    BY DEF Serving, ReadAhead
<1>5. PICK l \in Nat : l = Len(sent["client"])
    BY <1>1
<1>6. PICK a \in Nat : a = Len(Ahead)
    BY DEF Serving, ReadAhead, Ahead
<1>7. /\ m <= l /\ n \in Nat /\ m + n <= l /\ Ahead \in Seq(Items) /\ a <= m
      /\ \A i \in 1..a : Ahead[i] = sent["client"][m - a + i]
      /\ a = 0 <=> n > 0
      /\ AtHand <= m - a /\ AtHand \in Int
  <2>1. /\ m <= l /\ ahead \in Seq(Items) /\ Len(ahead) \in Nat /\ Len(ahead) <= m /\ AtHand = m - Len(ahead)
        /\ \A i \in 1..Len(ahead) : ahead[i] = sent["client"][AtHand + i]
    <3>1. ReadAhead
        BY DEF Serving
    <3>2. m <= l /\ ahead \in Seq(Items) /\ Len(ahead) \in Nat /\ Len(ahead) <= m
        BY <1>4, <1>5, <3>1 DEF ReadAhead
    <3>3. AtHand = m - Len(ahead)
        BY <1>4 DEF AtHand
    <3>4. QED
        BY <3>1, <3>2, <3>3 DEF ReadAhead
  <2>2. n \in Nat /\ m + n <= l
      BY <1>2, <1>4, <1>5, <2>1 DEF Unread
  <2>3. a = 0 <=> n > 0
      BY <1>2, <1>6, <2>1 DEF Ahead
  <2>4. CASE Ahead = ahead
      BY <1>6, <2>1, <2>2, <2>3, <2>4
  <2>5. CASE Ahead = <<>>
      BY <1>6, <2>1, <2>2, <2>3, <2>5
  <2>6. QED
      BY <2>4, <2>5 DEF Ahead
<1>8. PICK items : items = Ahead \o SubSeq(sent["client"], m + 1, m + n)
    OBVIOUS
<1>9. /\ items \in Seq(Items) /\ Len(items) = a + n
      /\ \A i \in 1..(a + n) : items[i] = sent["client"][m - a + i]
  <2>1. PICK c : c = SubSeq(sent["client"], m + 1, m + n)
      OBVIOUS
  <2>2. c \in Seq(Items) /\ Len(c) = n /\ \A i \in 1..n : c[i] = sent["client"][m + i]
      BY ZenonT(30), <1>1, <1>5, <1>7, <2>1, TakeItems
  <2>3. items = Ahead \o c
      BY <1>8, <2>1
  <2>4. items \in Seq(Items) /\ Len(items) = a + n
      BY <1>6, <1>7, <2>2, <2>3
  <2>5. ASSUME NEW i \in 1..(a + n)
        PROVE  items[i] = sent["client"][m - a + i]
    <3>1. CASE i <= a
        BY <1>6, <1>7, <2>2, <2>3, <2>5, <3>1
    <3>2. CASE a < i
      <4>1. items[i] = c[i - a] /\ i - a \in 1..n
          BY <1>6, <1>7, <2>2, <2>3, <2>5, <3>2
      <4>2. m + (i - a) = m - a + i
          BY <2>5
      <4>3. QED
          BY <2>2, <4>1, <4>2
    <3>3. QED
        BY <2>5, <3>1, <3>2
  <2>6. QED
      BY <2>4, <2>5
<1>10. PICK h \in Nat : h = m - a + 1
    BY <1>7
<1>11. PICK r \in Items : r = Head(items) /\ r = sent["client"][h]
  <2>1. a + n >= 1
      BY <1>7
  <2>2. items[1] \in Items /\ Head(items) = items[1]
      BY <1>9, <2>1
  <2>3. items[1] = sent["client"][m - a + 1]
      BY <1>9, <2>1
  <2>4. QED
      BY <1>10, <2>2, <2>3
<1>12. 1 <= h /\ h <= l /\ r.no = h /\ AtHand < h
  <2>1. 1 <= h /\ h <= l /\ AtHand < h
      BY <1>7, <1>10
  <2>2. r.no = h
      BY <1>5, <1>11, <2>1 DEF Serving, ReadAhead
  <2>3. QED
      BY <2>1, <2>2
<1>13. PICK f : f = Filtered(r)
    OBVIOUS
<1>14. /\ ahead' = Tail(items)
       /\ req' = (IF f.resp = NoResp THEN f.req ELSE r)
       /\ resp' = f.resp
       /\ pc'["serve"] = CASE f.resp = NoResp -> "send"
                           [] f.resp.by = "proxy" -> "write"
                           [] OTHER -> "filter"
       /\ taken' = [taken EXCEPT !["client"] = @ + n]
    BY <1>1, <1>2, <1>4, <1>8, <1>11, <1>13
<1>15. \/ f.resp = [to |-> h, by |-> "proxy", through |-> <<>>]
       \/ f.resp = [to |-> h, by |-> "handler", through |-> <<>>]
       \/ /\ f.resp = NoResp /\ f.req.no = h
          /\ \A x \in ToSet(ReqHandlers) : x.does = "answer" => r.kind \notin x.when
  <2>1. CASE mode = "plain" /\ r.kind = "relative"
    <3>1. f.resp = [NoResp EXCEPT !.to = h, !.by = "proxy"]
        BY <1>12, <1>13, <2>1 DEF Filtered
    <3>2. [NoResp EXCEPT !.to = h] = [to |-> h, by |-> "none", through |-> <<>>]
        BY DEF NoResp
    <3>3. [[to |-> h, by |-> "none", through |-> <<>>] EXCEPT !.by = "proxy"]
            = [to |-> h, by |-> "proxy", through |-> <<>>]
        OBVIOUS
    <3>4. QED
        BY <3>1, <3>2, <3>3
  <2>2. CASE ~(mode = "plain" /\ r.kind = "relative")
    <3>1. f = FilterRequest(r)
        BY <1>13, <2>2 DEF Filtered
    <3>2. QED
        BY <1>12, <3>1, RequestFiltered
  <2>3. QED
      BY <2>1, <2>2
<1>16. AtHand' = h /\ ReadAhead' /\ Len(ahead') = a + n - 1
  <2>1. a + n >= 1 /\ a + n \in Nat
      BY <1>7
  <2>2. /\ ahead' \in Seq(Items) /\ Len(ahead') = a + n - 1
        /\ \A i \in 1..(a + n - 1) : ahead'[i] = items[i + 1]
    <3>1. items \in Seq(Items) /\ items # <<>> /\ Len(items) = a + n
        BY <1>9, <2>1
    <3>2. QED
        BY <1>14, <2>1, <3>1
  <2>3. taken'["client"] = m + n
      BY <1>1, <1>4, <1>14 DEF Shapes
  <2>4. AtHand' = h
      BY <1>7, <1>10, <2>2, <2>3 DEF AtHand
  <2>5. ASSUME NEW i \in 1..Len(ahead')
        PROVE  ahead'[i] = sent'["client"][h + i]
    <3>1. i \in 1..(a + n - 1) /\ i + 1 \in 1..(a + n)
        BY <2>1, <2>2, <2>5
    <3>2. ahead'[i] = sent["client"][m - a + (i + 1)]
        BY <1>9, <2>2, <3>1
    <3>3. m - a + (i + 1) = h + i
        BY <1>7, <1>10, <3>1
    <3>4. QED
        BY <1>3, <3>2, <3>3
  <2>6. m + n \in Nat /\ a + n - 1 <= m + n
      BY <1>7
  <2>7. \A i \in 1..Len(sent'["client"]) : sent'["client"][i].no = i
      BY <1>3 DEF Serving, ReadAhead
  <2>8. QED
      BY <1>3, <1>5, <1>7, <2>2, <2>3, <2>4, <2>5, <2>6, <2>7 DEF ReadAhead
<1>17. /\ pc'["serve"] \in Asked
       /\ pc'["serve"] = "send" => f.resp = NoResp
       /\ pc'["serve"] # "send" => f.resp # NoResp /\ resp'.to = h
       /\ resp'.by \in {"none", "proxy", "handler"}
       /\ pc'["serve"] = "filter" => resp'.by = "handler"
       /\ resp' = [to |-> resp'.to, by |-> resp'.by, through |-> resp'.through]
       /\ req'.no = h
  <2>1. NoResp = [to |-> 0, by |-> "none", through |-> <<>>]
      BY DEF NoResp
  <2>2. CASE f.resp = [to |-> h, by |-> "proxy", through |-> <<>>]
    <3>1. f.resp # NoResp /\ f.resp.by = "proxy"
        BY <2>1, <2>2
    <3>2. pc'["serve"] = "write" /\ req' = r /\ resp' = f.resp
        BY <1>14, <3>1
    <3>3. QED
        BY <1>12, <2>2, <3>1, <3>2 DEF Asked
  <2>3. CASE f.resp = [to |-> h, by |-> "handler", through |-> <<>>]
    <3>1. f.resp # NoResp /\ f.resp.by = "handler"
        BY <2>1, <2>3
    <3>2. pc'["serve"] = "filter" /\ req' = r /\ resp' = f.resp
        BY <1>14, <3>1
    <3>3. QED
        BY <1>12, <2>3, <3>1, <3>2 DEF Asked
  <2>4. CASE f.resp = NoResp /\ f.req.no = h
    <3>1. f.resp.by # "proxy"
        BY <2>1, <2>4
    <3>2. pc'["serve"] = "send" /\ req' = f.req /\ resp' = NoResp
        BY <1>14, <2>4, <3>1
    <3>3. QED
        BY <2>1, <2>4, <3>2 DEF Asked
  <2>5. QED
      BY <1>15, <2>2, <2>3, <2>4
<1>18. InHand'
    BY <1>12, <1>16, <1>17 DEF InHand, Asked
<1>19. SentOn'
  <2>1. SentOn /\ \A i \in DOMAIN forwarded : forwarded[i] \in Nat /\ 1 <= forwarded[i] /\ forwarded[i] <= AtHand
      BY DEF Serving, SentOn
  <2>2. \A i \in DOMAIN forwarded : forwarded[i] < h /\ forwarded[i] <= h
      BY <1>7, <1>12, <2>1
  <2>3. \A no : NotAnswered(no)' <=> NotAnswered(no)
      BY <1>3 DEF NotAnswered
  <2>4. pc'["serve"] = "send" => NotAnswered(h)
    <3>1. HAVE pc'["serve"] = "send"
    <3>2. f.resp = NoResp /\ NoResp = [to |-> 0, by |-> "none", through |-> <<>>]
        BY <1>17, <3>1 DEF NoResp
    <3>3. \A x \in ToSet(ReqHandlers) : x.does = "answer" => r.kind \notin x.when
        BY <1>15, <3>2
    <3>4. QED
        BY <1>11, <3>3 DEF NotAnswered
  <2>5. QED
      BY <1>3, <1>16, <2>1, <2>2, <2>3, <2>4 DEF SentOn
<1>20. ~(mode = "httpmitm" /\ pipelined) => a = Len(ahead) /\ h = lost["client"] + Answered + 1
  <2>1. HAVE ~(mode = "httpmitm" /\ pipelined)
  <2>2. Looping
      BY <1>3 DEF Modes
  <2>3. lost["client"] + Answered = AtHand
      BY <1>3, <2>1, <2>2 DEF Serving, InStep
  <2>4. Ahead = ahead
      BY <2>1 DEF Ahead, Serving, Given
  <2>5. AtHand = m - a /\ a = Len(ahead)
      BY <1>4, <1>6, <2>4 DEF AtHand
  <2>6. QED
      BY <1>7, <1>10, <2>3, <2>5
<1>21. Given'
  <2>1. Given
      BY DEF Serving
  <2>2. ~pipelined => ahead' = <<>>
    <3>1. HAVE ~pipelined
    <3>2. a = Len(ahead) /\ h = lost["client"] + Answered + 1 /\ ahead = <<>> /\ l <= seen["client"] + 1 /\ seen["client"] <= Answered
        BY <1>5, <1>20, <2>1, <3>1 DEF Given
    <3>3. a = 0
        BY <3>2
    <3>4. a + n - 1 = 0
      <4>1. PICK q \in Nat : q = Answered
          BY <2>1 DEF Given, Answered
      <4>2. lost["client"] \in Nat /\ seen["client"] \in Nat
          BY <1>1, <1>3
      <4>3. lost["client"] + q = m /\ l <= q + 1
          BY <1>10, <3>2, <3>3, <4>1, <4>2
      <4>4. n \in Nat /\ n > 0 /\ m + n <= l
          BY <1>7, <3>3
      <4>5. QED
          BY <3>3, <4>2, <4>3, <4>4
    <3>5. Len(ahead') = 0 /\ ahead' \in Seq(Items)
        BY <1>16, <3>4 DEF ReadAhead
    <3>6. QED
        BY <3>5
  <2>3. Answered' = Answered /\ pc'["serve"] \notin Fresh
      BY <1>3, <1>17 DEF Answered, Fresh, Asked
  <2>4. QED
      BY <1>3, <2>1, <2>2, <2>3 DEF Given
<1>22. InStep'
  <2>1. Answered' = Answered /\ pc'["serve"] # "request" /\ Looping' = Looping
      BY <1>3, <1>17 DEF Answered, Asked, Looping
  <2>2. pc["serve"] = "request" /\ InStep
      BY <1>3 DEF Serving
  <2>3. QED
      BY <1>3, <1>16, <1>20, <2>1, <2>2 DEF InStep
<1>23. QED
    BY <1>16, <1>18, <1>19, <1>21, <1>22 DEF Serving

(* A connection that is no tunnel does not become one after its handler chose. *)
LEMMA ModeStays ==
    ASSUME Modes, Modes', [Next]_vars, mode' # "accept"
    PROVE  mode # "accept"
<1> USE DEF sideVars, copyVars, loopVars
<1>1. CASE Start
    BY <1>1 DEF Start, Modes
<1>2. CASE ~Start
    BY <1>2 DEF Next, Serve, Peers, Copy, vars, Dial, DialUpstream, Tunnel, MitmHandshake, CloseClient,
       ReadRequest, LastRequest, RoundTrip, RoundTripFails, Filter, WriteResponse, SideSends, SideReads,
       SideEnds, CopyRead, CopyWrite, CopyEnds, CopyClose
<1>3. QED
    BY <1>1, <1>2

(* What is sent on is the request at hand, which was not sent on before. *)
LEMMA SentOnGrows ==
    ASSUME Serving, pc["serve"] = "send", pc'["serve"] # "send", forwarded' = Append(forwarded, req.no),
           UNCHANGED <<sent, taken, ahead>>
    PROVE  /\ SentOn' /\ AtHand' = AtHand /\ AtHand \in ToSet(forwarded')
           /\ ToSet(forwarded) \subseteq ToSet(forwarded')
<1>1. SentOn /\ InHand /\ ReadAhead
    BY DEF Serving
<1>2. PICK h \in Nat : h = AtHand /\ h = req.no /\ 1 <= h
  <2>1. AtHand \in Int
    <3>1. taken["client"] \in Nat /\ Len(ahead) \in Nat
        BY <1>1 DEF ReadAhead
    <3>2. QED
        BY <3>1 DEF AtHand
  <2>2. 1 <= AtHand /\ req.no = AtHand
      BY <1>1 DEF InHand, Asked
  <2>3. QED
      BY <2>1, <2>2
<1>3. PICK l \in Nat : l = Len(forwarded)
    BY <1>1 DEF SentOn
<1>4. /\ forwarded \in Seq(Nat) /\ DOMAIN forwarded = 1..l
      /\ forwarded' \in Seq(Nat) /\ DOMAIN forwarded' = 1..(l + 1)
      /\ \A i \in 1..l : forwarded'[i] = forwarded[i] /\ forwarded[i] \in Nat
      /\ forwarded'[l + 1] = h
    BY <1>1, <1>2, <1>3 DEF SentOn
<1>5. AtHand' = AtHand /\ \A no : NotAnswered(no)' <=> NotAnswered(no)
    BY DEF AtHand, NotAnswered
<1>6. /\ \A i \in 1..l : 1 <= forwarded[i] /\ forwarded[i] < h /\ NotAnswered(forwarded[i])
      /\ \A i, j \in 1..l : i < j => forwarded[i] < forwarded[j]
      /\ NotAnswered(h)
    BY <1>1, <1>2, <1>4 DEF SentOn
<1>7. ASSUME NEW i \in DOMAIN forwarded'
      PROVE  i \in 1..l \/ i = l + 1
    BY <1>4, <1>7
<1>8. ASSUME NEW i \in DOMAIN forwarded', NEW j \in DOMAIN forwarded', i < j
      PROVE  forwarded'[i] < forwarded'[j]
  <2>1. i \in 1..l
      BY <1>4, <1>8
  <2>2. CASE j \in 1..l
      BY <1>4, <1>6, <1>8, <2>1, <2>2
  <2>3. CASE j = l + 1
      BY <1>4, <1>6, <2>1, <2>3
  <2>4. QED
      BY <1>7, <2>2, <2>3
<1>9. ASSUME NEW i \in DOMAIN forwarded'
      PROVE  1 <= forwarded'[i] /\ forwarded'[i] <= h /\ NotAnswered(forwarded'[i])
  <2>1. CASE i \in 1..l
      BY <1>4, <1>6, <2>1
  <2>2. CASE i = l + 1
      BY <1>2, <1>4, <1>6, <2>2
  <2>3. QED
      BY <1>7, <2>1, <2>2
<1>10. SentOn'
    BY <1>2, <1>4, <1>5, <1>8, <1>9 DEF SentOn
<1>11. h \in ToSet(forwarded') /\ ToSet(forwarded) \subseteq ToSet(forwarded')
  <2>1. l + 1 \in DOMAIN forwarded' /\ \A i \in 1..l : i \in DOMAIN forwarded'
      BY <1>4
  <2>2. QED
      BY <1>4, <2>1 DEF ToSet
<1>12. QED
    BY <1>2, <1>5, <1>10, <1>11

(* The request at hand is sent on, answered or filtered, and its answer is
   not yet given. *)
LEMMA AtHandKeeps ==
    ASSUME Serving, pc["serve"] \in Asked, pc'["serve"] \in Asked \cup {"close"}, pc'["serve"] # "send",
           UNCHANGED <<mode, sent, seen, pipelined, got, taken, lost, ahead, req>>,
           SentOn', ToSet(forwarded) \subseteq ToSet(forwarded'),
           resp' = [to |-> resp'.to, by |-> resp'.by, through |-> resp'.through],
           pc'["serve"] # "close" =>
               /\ resp'.to = AtHand
               /\ pc'["serve"] = "filter" => resp'.by # "none"
               /\ resp'.by = "server" => AtHand \in ToSet(forwarded')
    PROVE  Serving'
<1>1. AtHand' = AtHand /\ Answered' = Answered /\ (Looping <=> Looping')
    BY DEF AtHand, Answered, Looping
<1>2. ReadAhead'
    BY <1>1 DEF Serving, ReadAhead
<1>3. InHand'
    BY <1>1 DEF Serving, InHand, Asked
<1>4. Given'
  <2>1. Given /\ pc'["serve"] \notin Fresh
      BY DEF Serving, Asked, Fresh
  <2>2. QED
      BY <1>1, <2>1 DEF Given
<1>5. InStep'
    BY <1>1 DEF Serving, InStep, Asked
<1>6. QED
    BY <1>2, <1>3, <1>4, <1>5 DEF Serving

(* The steps with a request at hand, but for its last. *)
LEMMA AnsweringKeeps ==
    ASSUME Shapes, Modes, Serving, RoundTrip \/ RoundTripFails \/ Filter
    PROVE  Serving'
<1> USE DEF sideVars, copyVars, loopVars, Goto
<1>1. pc = [t \in Tasks |-> pc[t]] /\ "serve" \in Tasks
    BY DEF Shapes, Tasks
<1>2. UNCHANGED <<mode, sent, seen, pipelined, got, taken, lost, ahead, req>>
    BY DEF RoundTrip, RoundTripFails, Filter
<1>3. NoResp = [to |-> 0, by |-> "none", through |-> <<>>]
    BY DEF NoResp
<1>4. pc["serve"] = "send" => req.no = AtHand
    BY DEF Serving, InHand, Asked
<1>5. CASE RoundTrip
  <2>1. /\ pc["serve"] = "send" /\ pc'["serve"] = "filter" /\ forwarded' = Append(forwarded, req.no)
        /\ resp' = [NoResp EXCEPT !.to = req.no, !.by = "server"]
      BY <1>1, <1>5 DEF RoundTrip
  <2>2. resp' = [to |-> req.no, by |-> "server", through |-> <<>>]
    <3>1. [NoResp EXCEPT !.to = req.no] = [to |-> req.no, by |-> "none", through |-> <<>>]
        BY <1>3
    <3>2. [[to |-> req.no, by |-> "none", through |-> <<>>] EXCEPT !.by = "server"]
            = [to |-> req.no, by |-> "server", through |-> <<>>]
        OBVIOUS
    <3>3. QED
        BY <2>1, <3>1, <3>2
  <2>3. SentOn' /\ AtHand \in ToSet(forwarded') /\ ToSet(forwarded) \subseteq ToSet(forwarded')
      BY <1>2, <2>1, SentOnGrows
  <2>4. resp'.to = AtHand /\ resp'.by = "server"
        /\ resp' = [to |-> resp'.to, by |-> resp'.by, through |-> resp'.through]
      BY <1>4, <2>1, <2>2
  <2>5. pc["serve"] \in Asked /\ pc'["serve"] \in Asked \cup {"close"} /\ pc'["serve"] # "send"
      BY <2>1 DEF Asked
  <2>6. QED
      BY <1>2, <2>3, <2>4, <2>5, AtHandKeeps
<1>6. CASE RoundTripFails
  <2>1. pc["serve"] = "send" /\ forwarded' = Append(forwarded, req.no)
      BY <1>6 DEF RoundTripFails
  <2>2. CASE mode # "plain"
    <3>1. pc'["serve"] = "close" /\ resp' = resp
        BY <1>1, <1>6, <2>2 DEF RoundTripFails
    <3>2. SentOn' /\ ToSet(forwarded) \subseteq ToSet(forwarded')
        BY <1>2, <2>1, <3>1, SentOnGrows
    <3>3. resp' = [to |-> resp'.to, by |-> resp'.by, through |-> resp'.through]
        BY <3>1 DEF Serving, InHand
    <3>4. pc["serve"] \in Asked
        BY <2>1 DEF Asked
    <3>5. QED
        BY <1>2, <3>1, <3>2, <3>3, <3>4, AtHandKeeps
  <2>3. CASE mode = "plain"
    <3>1. PICK a : a = FilterResponse(NoResp)
        OBVIOUS
    <3>2. /\ resp' = (IF a = NoResp THEN [NoResp EXCEPT !.to = req.no, !.by = "proxy"] ELSE a)
          /\ pc'["serve"] = IF a = NoResp THEN "write" ELSE "filter"
        BY <1>1, <1>6, <2>3, <3>1 DEF RoundTripFails
    <3>3. /\ a = [to |-> a.to, by |-> a.by, through |-> a.through]
          /\ a = NoResp \/ (a.to = req.no /\ a.by = "handler")
      <4>1. NoResp = [to |-> NoResp.to, by |-> NoResp.by, through |-> NoResp.through]
          BY <1>3
      <4>2. QED
          BY <3>1, <4>1, ResponseFiltered
    <3>4. /\ resp' = [to |-> resp'.to, by |-> resp'.by, through |-> resp'.through]
          /\ resp'.to = req.no /\ resp'.by \in {"proxy", "handler"}
      <4>1. CASE a = NoResp
        <5>1. [NoResp EXCEPT !.to = req.no] = [to |-> req.no, by |-> "none", through |-> <<>>]
            BY <1>3
        <5>2. [[to |-> req.no, by |-> "none", through |-> <<>>] EXCEPT !.by = "proxy"]
                = [to |-> req.no, by |-> "proxy", through |-> <<>>]
            OBVIOUS
        <5>3. resp' = [to |-> req.no, by |-> "proxy", through |-> <<>>]
            BY <3>2, <4>1, <5>1, <5>2
        <5>4. QED
            BY <5>3
      <4>2. CASE a # NoResp
          BY <3>2, <3>3, <4>2
      <4>3. QED
          BY <4>1, <4>2
    <3>5. pc["serve"] \in Asked /\ pc'["serve"] \in {"write", "filter"}
        BY <2>1, <3>2 DEF Asked
    <3>6. SentOn' /\ ToSet(forwarded) \subseteq ToSet(forwarded')
        BY <1>2, <2>1, <3>5, SentOnGrows
    <3>7. pc'["serve"] \in Asked \cup {"close"} /\ pc'["serve"] # "send" /\ resp'.to = AtHand
          /\ resp'.by # "none" /\ resp'.by # "server"
        BY <1>4, <2>1, <3>4, <3>5 DEF Asked
    <3>8. QED
        BY <1>2, <3>4, <3>5, <3>6, <3>7, AtHandKeeps
  <2>4. QED
      BY <2>2, <2>3
<1>7. CASE Filter
  <2>1. pc["serve"] = "filter" /\ pc'["serve"] = "write" /\ resp' = FilterResponse(resp) /\ forwarded' = forwarded
      BY <1>1, <1>7 DEF Filter
  <2>2. /\ resp = [to |-> resp.to, by |-> resp.by, through |-> resp.through]
        /\ resp.by # "none" /\ resp.to = AtHand
        /\ resp.by = "server" => AtHand \in ToSet(forwarded)
      BY <2>1 DEF Serving, InHand
  <2>3. /\ resp' = [to |-> resp'.to, by |-> resp'.by, through |-> resp'.through]
        /\ resp'.to = AtHand /\ resp'.by = resp.by
      BY <2>1, <2>2, ResponseFiltered
  <2>4. SentOn'
    <3>1. AtHand' = AtHand /\ \A no : NotAnswered(no)' <=> NotAnswered(no)
        BY <1>2 DEF AtHand, NotAnswered
    <3>2. QED
        BY <2>1, <3>1 DEF Serving, SentOn
  <2>5. pc["serve"] \in Asked /\ pc'["serve"] \in Asked \cup {"close"} /\ pc'["serve"] # "send"
      BY <2>1 DEF Asked
  <2>6. QED
      BY <1>2, <2>1, <2>2, <2>3, <2>4, <2>5, AtHandKeeps
<1>8. QED
    BY <1>5, <1>6, <1>7

(* The answer is given, or the client is gone. *)
LEMMA WriteResponseKeeps ==
    ASSUME Shapes, Modes, Serving, WriteResponse
    PROVE  Serving'
<1> USE DEF sideVars, copyVars, loopVars, Goto
<1>1. pc = [t \in Tasks |-> pc[t]] /\ "serve" \in Tasks /\ "client" \in Sides /\ seen["client"] \in Nat
    BY OtherSide DEF Shapes, Tasks
<1>2. /\ pc["serve"] = "write" /\ UNCHANGED <<mode, sent, seen, pipelined, taken, lost, ahead, forwarded>>
      /\ resp' = NoResp /\ lost["client"] \in Nat
      /\ \/ got' = [got EXCEPT !["client"] = Append(@, resp)] /\ pc'["serve"] = "request"
         \/ pc'["serve"] = "close" /\ got' = got
    BY <1>1 DEF WriteResponse, Shapes
<1>3. AtHand' = AtHand /\ (Looping <=> Looping') /\ \A no : NotAnswered(no)' <=> NotAnswered(no)
    BY <1>2 DEF AtHand, Looping, NotAnswered
<1>4. ReadAhead' /\ SentOn'
    BY <1>2, <1>3 DEF Serving, ReadAhead, SentOn
<1>5. InHand'
  <2>1. NoResp = [to |-> NoResp.to, by |-> NoResp.by, through |-> NoResp.through]
      BY DEF NoResp
  <2>2. QED
      BY <1>2, <2>1 DEF InHand, Asked
<1>6. PICK S : got["client"] \in Seq(S)
    BY DEF Serving, Given
<1>7. PICK q \in Nat : q = Answered /\ q = Len(got["client"])
    BY <1>6 DEF Answered
<1>8. /\ resp.to = AtHand /\ AtHand \in Int
      /\ resp.by = "server" => AtHand \in ToSet(forwarded)
  <2>1. taken["client"] \in Nat /\ Len(ahead) \in Nat
      BY DEF Serving, ReadAhead
  <2>2. AtHand \in Int
      BY <2>1 DEF AtHand
  <2>3. QED
      BY <1>2, <2>2 DEF Serving, InHand
<1>9. Given /\ InStep
    BY DEF Serving
<1>10. CASE got' = got /\ pc'["serve"] = "close"
  <2>1. Answered' = Answered
      BY <1>10 DEF Answered
  <2>2. QED
      BY <1>2, <1>3, <1>4, <1>5, <1>9, <1>10, <2>1 DEF Serving, Given, InStep, Asked, Fresh
<1>11. CASE got' = [got EXCEPT !["client"] = Append(@, resp)] /\ pc'["serve"] = "request"
  <2>1. got = [s \in Sides |-> got[s]]
      BY <1>9 DEF Given
  <2>2. got'["client"] = Append(got["client"], resp) /\ got' = [s \in Sides |-> got'[s]]
      BY <1>1, <1>11, <2>1
  <2>3. PICK T : T = S \cup {resp}
      OBVIOUS
  <2>4. got["client"] \in Seq(T) /\ resp \in T
      BY <1>6, <2>3
  <2>5. /\ got'["client"] \in Seq(T) /\ Len(got'["client"]) = q + 1
        /\ \A i \in 1..q : got'["client"][i] = got["client"][i]
        /\ got'["client"][q + 1] = resp
      BY <1>7, <2>2, <2>4
  <2>6. Answered' = q + 1
      BY <2>5 DEF Answered
  <2>7. ASSUME NEW i \in 1..(q + 1)
        PROVE  i \in 1..q \/ i = q + 1
      BY <2>7
  <2>8. Given'
    <3>1. ASSUME NEW i \in 1..(q + 1), got'["client"][i].by = "server"
          PROVE  got'["client"][i].to \in ToSet(forwarded')
      <4>1. CASE i \in 1..q
          BY <1>2, <1>7, <1>9, <2>5, <3>1, <4>1 DEF Given
      <4>2. CASE i = q + 1
          BY <1>2, <1>8, <2>5, <3>1, <4>2
      <4>3. QED
          BY <2>7, <4>1, <4>2
    <3>2. seen'["client"] <= Answered'
        BY <1>1, <1>2, <1>7, <1>9, <2>6 DEF Given
    <3>3. QED
        BY <1>2, <1>9, <1>11, <2>2, <2>5, <2>6, <3>1, <3>2 DEF Given, Fresh
  <2>9. InStep'
    <3>1. ASSUME Looping', ~(mode = "httpmitm" /\ pipelined)
          PROVE  AtHand = lost["client"] + q + 1 /\ \A i \in 1..q : got["client"][i].to = lost["client"] + i
        BY <1>2, <1>3, <1>7, <1>9, <3>1 DEF InStep, Asked
    <3>2. ASSUME Looping', ~(mode = "httpmitm" /\ pipelined), NEW i \in 1..(q + 1)
          PROVE  got'["client"][i].to = lost["client"] + i
      <4>1. CASE i \in 1..q
          BY <2>5, <3>1, <3>2, <4>1
      <4>2. CASE i = q + 1
        <5>1. resp.to = lost["client"] + q + 1 /\ got'["client"][i] = resp
            BY <1>8, <2>5, <3>1, <3>2, <4>2
        <5>2. lost["client"] + q + 1 = lost["client"] + i
            BY <1>2, <4>2
        <5>3. QED
            BY <5>1, <5>2
      <4>3. QED
          BY <2>7, <4>1, <4>2
    <3>3. lost' = lost /\ mode' = mode /\ pipelined' = pipelined /\ AtHand' = AtHand
        BY <1>2, <1>3
    <3>4. lost["client"] + (q + 1) = lost["client"] + q + 1
        BY <1>2
    <3>5. QED
        BY <1>11, <2>6, <3>1, <3>2, <3>3, <3>4 DEF InStep, Asked
  <2>10. QED
      BY <1>4, <1>5, <2>8, <2>9 DEF Serving
<1>12. QED
    BY <1>2, <1>10, <1>11

(* Every step keeps the books of the loops. *)
LEMMA NextLoop ==
    ASSUME Shapes, LoopInv, [Next]_vars
    PROVE  LoopInv'
<1>1. Modes /\ Modes' /\ Shapes'
    BY NextModes, NextShapes DEF LoopInv
<1>2. SUFFICES ASSUME mode' # "accept" PROVE Serving'
    BY <1>1 DEF LoopInv
<1>3. mode # "accept"
    BY <1>1, <1>2, ModeStays
<1>4. Serving
    BY <1>3 DEF LoopInv
<1>5. CASE UNCHANGED vars
  <2>1. UNCHANGED <<mode, pc, sent, seen, pipelined, got, taken, lost, ahead, req, resp, forwarded>>
      BY <1>5 DEF vars, sideVars, copyVars, loopVars
  <2>2. QED
      BY <1>1, <1>4, <2>1, LoopStill
<1>6. CASE Start \/ Dial \/ DialUpstream \/ MitmHandshake \/ CloseClient \/ LastRequest
    BY <1>1, <1>4, <1>6, StartKeepsLoop, OpeningKeepsLoop
<1>7. CASE Tunnel
    BY <1>1, <1>3, <1>7 DEF Tunnel, Modes
<1>8. CASE ReadRequest
    BY <1>1, <1>4, <1>8, ReadRequestKeeps
<1>9. CASE RoundTrip \/ RoundTripFails \/ Filter
    BY <1>1, <1>4, <1>9, AnsweringKeeps
<1>10. CASE WriteResponse
    BY <1>1, <1>4, <1>10, WriteResponseKeeps
<1>11. CASE Peers
    BY <1>1, <1>3, <1>4, <1>11, PeersKeep DEF Peers
<1>12. ASSUME NEW s \in Sides, Copy(s)
       PROVE  FALSE
    BY <1>1, <1>3, <1>12 DEF Copy, CopyRead, CopyWrite, CopyEnds, CopyClose, Modes
<1>13. QED
    BY <1>5, <1>6, <1>7, <1>8, <1>9, <1>10, <1>11, <1>12 DEF Next, Serve

(* A client of the request loops gets its answers in the order of its requests
   and none is missing but for requests lost behind a CONNECT, for every set of handlers, whatever they answer, edit
   or make of a failure, and whatever was read ahead; behind ConnectHTTPMitm
   (https.go:108), whose reader is new for every request, as long as the
   client waits for each answer before it asks again. *)
THEOREM AnswersKeepOrder == Spec => []AnswersInOrder
<1>1. Init => Shapes /\ LoopInv
    BY InitTunnel, InitLoop DEF TunnelInv
<1>2. Shapes /\ LoopInv /\ [Next]_vars => (Shapes /\ LoopInv)'
    BY NextShapes, NextLoop
<1>3. Shapes /\ LoopInv => AnswersInOrder
    BY DEF LoopInv, Serving, InStep, Looping, AnswersInOrder
<1>4. QED
    BY <1>1, <1>2, <1>3, PTL DEF Spec

(* A request goes to a server at most once and in the order of the requests,
   never when a handler has answered it, and a server's answer is given only
   to a request that was sent on (filterRequest, proxy.go:52). *)
THEOREM RequestsForwardedOnce == Spec => []ForwardedOnce
<1>1. Init => Shapes /\ LoopInv
    BY InitTunnel, InitLoop DEF TunnelInv
<1>2. Shapes /\ LoopInv /\ [Next]_vars => (Shapes /\ LoopInv)'
    BY NextShapes, NextLoop
<1>3. Shapes /\ LoopInv => ForwardedOnce
  <2> SUFFICES ASSUME Shapes, LoopInv PROVE ForwardedOnce
      OBVIOUS
  <2>1. CASE mode = "accept"
      BY <2>1 DEF LoopInv, Modes, ForwardedOnce
  <2>2. CASE mode # "accept"
    <3>1. SentOn /\ Given
        BY <2>2 DEF LoopInv, Serving
    <3>2. \A no \in ToSet(forwarded) : NotAnswered(no)
        BY <3>1 DEF SentOn, ToSet
    <3>3. QED
        BY <3>1, <3>2 DEF SentOn, Given, NotAnswered, ForwardedOnce
  <2>3. QED
      BY <2>1, <2>2
<1>4. QED
    BY <1>1, <1>2, <1>3, PTL DEF Spec

-----------------------------------------------------------------------------
(* Where the proxy stops: the copiers start together, when the handler is
   done, and one that has ended has closed the connection it wrote to, which
   nobody opens again. *)
Copiers ==
    /\ \A s \in Sides : pc[s] \in {"unborn", "copy", "close", "done"}
    /\ \A s \in Sides : pc[s] # "unborn" => pc["serve"] = "done"
    /\ \A s, x \in Sides : pc[s] # "unborn" => pc[x] # "unborn"
    /\ opened = [s \in Sides |-> opened[s]]
    /\ \A s \in Sides : pc[s] = "done" => ~opened[Other(s)]

LEMMA InitCopiers == Init => Copiers
BY OtherSide DEF Init, Copiers, Sides

LEMMA NextCopiers ==
    ASSUME Shapes, Copiers, [Next]_vars
    PROVE  Copiers'
<1> USE DEF sideVars, copyVars, loopVars, Goto
<1>1. pc = [t \in Tasks |-> pc[t]] /\ "serve" \in Tasks /\ "serve" \notin Sides /\ Sides \subseteq Tasks
    BY OtherSide DEF Shapes, Tasks
<1>2. ASSUME UNCHANGED <<pc, opened>>
      PROVE  Copiers'
    BY <1>2 DEF Copiers
<1>3. ASSUME NEW l, Goto("serve", l), pc["serve"] # "done", UNCHANGED opened
      PROVE  Copiers'
  <2>1. \A s \in Sides : pc'[s] = pc[s] /\ pc[s] = "unborn"
      BY <1>1, <1>3 DEF Copiers
  <2>2. QED
      BY <1>3, <2>1 DEF Copiers
<1>4. ASSUME NEW l, Goto("serve", l), pc["serve"] # "done",
             NEW s \in Sides, NEW b, opened' = [opened EXCEPT ![s] = b]
      PROVE  Copiers'
  <2>1. \A x \in Sides : pc'[x] = pc[x] /\ pc[x] = "unborn"
      BY <1>1, <1>4 DEF Copiers
  <2>2. QED
      BY <1>4, <2>1 DEF Copiers
<1>5. CASE Tunnel
  <2>1. \A s \in Sides : pc'[s] = "copy"
      BY <1>5 DEF Tunnel, Sides
  <2>2. pc'["serve"] = "done" /\ opened' = opened
      BY <1>5 DEF Tunnel
  <2>3. QED
      BY <2>1, <2>2 DEF Copiers
<1>6. CASE Start \/ MitmHandshake \/ ReadRequest \/ LastRequest \/ RoundTrip \/ RoundTripFails
           \/ Filter \/ WriteResponse
    BY <1>3, <1>6 DEF Start, MitmHandshake, ReadRequest, LastRequest, RoundTrip, RoundTripFails,
       Filter, WriteResponse
<1>7. CASE Dial \/ DialUpstream \/ CloseClient
    BY <1>3, <1>4, <1>7, OtherSide DEF Dial, DialUpstream, CloseClient
<1>8. CASE Peers
    BY <1>2, <1>8 DEF Peers, SideSends, SideReads, SideEnds
<1>9. ASSUME NEW s \in Sides, Copy(s)
      PROVE  Copiers'
  <2>1. CASE CopyRead(s) \/ CopyWrite(s)
      BY <1>2, <2>1 DEF CopyRead, CopyWrite
  <2>2. CASE CopyEnds(s)
    <3>1. pc[s] = "copy" /\ pc'[s] = "close" /\ \A t \in Tasks : t # s => pc'[t] = pc[t]
        BY <1>1, <2>2 DEF CopyEnds
    <3>2. opened' = opened
        BY <2>2 DEF CopyEnds
    <3>3. QED
        BY <1>1, <3>1, <3>2 DEF Copiers
  <2>3. CASE CopyClose(s)
    <3>1. pc[s] = "close" /\ pc'[s] = "done" /\ \A t \in Tasks : t # s => pc'[t] = pc[t]
        BY <1>1, <2>3 DEF CopyClose
    <3>2. opened' = [opened EXCEPT ![Other(s)] = FALSE]
        BY <2>3 DEF CopyClose
    <3>3. QED
        BY <1>1, <3>1, <3>2, OtherSide DEF Copiers
  <2>4. QED
      BY <1>9, <2>1, <2>2, <2>3 DEF Copy
<1>10. CASE UNCHANGED vars
    BY <1>2, <1>10 DEF vars
<1>11. QED
    BY <1>5, <1>6, <1>7, <1>8, <1>9, <1>10 DEF Next, Serve

(* A copier that does not move waits for its own side, which is open, or to
   write to the other; or it has ended and closed that one. *)
LEMMA CopierWaits ==
    ASSUME Copiers, ~Moves, NEW s \in Sides, pc[s] # "unborn"
    PROVE  \/ hand[s] = <<>> /\ opened[s] /\ ends[s] = "open"
           \/ Stuck(Other(s)) /\ opened[Other(s)]
           \/ ~opened[Other(s)] /\ pc[s] = "done"
<1>1. pc[s] \in {"copy", "close", "done"} /\ ~CopyMoves(s)
    BY DEF Copiers, Moves
<1>2. pc[s] # "close"
    BY <1>1 DEF CopyMoves
<1>3. CASE pc[s] = "copy"
    BY <1>1, <1>3, OtherSide DEF CopyMoves, Stuck
<1>4. CASE pc[s] = "done"
    BY <1>4 DEF Copiers
<1>5. QED
    BY <1>1, <1>2, <1>3, <1>4

LEMMA TunnelSettles ==
    ASSUME Copiers, ~Moves
    PROVE  TunnelSettled
<1> SUFFICES ASSUME Tunnelled, NEW s \in Sides, ends[s] # "open", \A x \in Sides : ~Stuck(x)
             PROVE  \A x \in Sides : ~opened[x]
    BY DEF TunnelSettled
<1>1. Other(s) \in Sides /\ Other(Other(s)) = s /\ \A x \in Sides : x = s \/ x = Other(s)
    BY OtherSide
<1>2. pc[s] # "unborn" /\ pc[Other(s)] # "unborn"
    BY <1>1, OtherSide DEF Tunnelled, Copiers
<1>3. ~opened[Other(s)]
    BY <1>1, <1>2, CopierWaits
<1>4. ~opened[s]
    BY <1>1, <1>2, <1>3, CopierWaits
<1>5. QED
    BY <1>1, <1>3, <1>4

LEMMA LoopSettles ==
    ASSUME Shapes, LoopInv, ~Moves
    PROVE  LoopSettled
<1>1. pc["serve"] \in {"request", "write", "done"} /\ ~ServeMoves
    BY DEF Moves, ServeMoves
<1>2. SUFFICES ASSUME pc["serve"] = "request"
               PROVE  ends["client"] = "open"
                      /\ (lost["client"] + Answered = Len(sent["client"]) \/ (mode = "httpmitm" /\ pipelined))
    BY <1>1 DEF ServeMoves, LoopSettled
<1>3. Ahead = <<>> /\ ~(Unread("client") > 0) /\ ends["client"] = "open"
    BY <1>1, <1>2 DEF ServeMoves
<1>4. Looping /\ mode # "accept" /\ ReadAhead /\ Given /\ InStep
    BY <1>2 DEF LoopInv, Modes, Looping, Serving
<1>5. taken["client"] = Len(sent["client"])
  <2>1. sent["client"] \in Seq(Items)
      BY OtherSide DEF Shapes
  <2>2. QED
      BY <1>3, <1>4, <2>1 DEF ReadAhead, Unread
<1>6. CASE ~(mode = "httpmitm" /\ pipelined)
  <2>1. ahead = <<>>
      BY <1>3, <1>4, <1>6 DEF Ahead, Given
  <2>2. lost["client"] + Answered = AtHand
      BY <1>2, <1>4, <1>6 DEF InStep
  <2>3. AtHand = taken["client"]
      BY <1>4, <2>1 DEF AtHand, ReadAhead
  <2>4. QED
      BY <1>3, <1>5, <2>2, <2>3
<1>7. QED
    BY <1>3, <1>6

(* Where the handler and the copiers have nothing left to do but wait, no
   request that it has not lost is unanswered and no tunnel that a side has ended is left open,
   unless somebody does not read (copyAndClose, https.go:256; ServeHTTP,
   proxy.go:92). *)
THEOREM StopsOnlySettled == Spec => []StopsSettled
<1>1. Init => Shapes /\ LoopInv /\ Copiers
    BY InitTunnel, InitLoop, InitCopiers DEF TunnelInv
<1>2. (Shapes /\ LoopInv /\ Copiers) /\ [Next]_vars => (Shapes /\ LoopInv /\ Copiers)'
    BY NextShapes, NextLoop, NextCopiers
<1>3. Shapes /\ LoopInv /\ Copiers => StopsSettled
    BY TunnelSettles, LoopSettles DEF StopsSettled
<1>4. QED
    BY <1>1, <1>2, <1>3, PTL DEF Spec
=============================================================================
