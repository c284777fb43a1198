--------------------------- MODULE TransportProofs ---------------------------
(***************************************************************************)
(* The transport's connections, for every number of requests, hosts and    *)
(* pooled connections: a connection is in the pool or with one request,    *)
(* and so the response read on it is the one to that request.  A caller is *)
(* left waiting only by a readLoop that has ended or waits for itself.     *)
(***************************************************************************)
EXTENDS Transport, TLAPS

(* The variables the argument speaks of. *)
Unasked == [to |-> Nobody, close |-> FALSE, body |-> "none"]
Sent == Response \cup {Unasked}
Labels == {"start", "dial", "count", "write", "enqueue", "wait", "body", "put", "notify", "clear",
           "done"}
LoopLabels == {"none", "peek", "check", "take", "closelast", "read", "deliver", "waitbody",
               "stuck", "gone"}
Shapes ==
    /\ pc \in [Requests -> Labels]
    /\ conn \in [Requests -> Conns \cup {NoConn}]
    /\ reply \in [Requests -> Sent \cup {Failure, NoReply}]
    /\ fn \in [Requests -> BOOLEAN] /\ released \in [Requests -> BOOLEAN]
    /\ idle \in [Keys -> Seq(Conns)]
    /\ reqch \in [Conns -> Seq(Requests)]
    /\ loop \in [Conns -> LoopLabels]
    /\ cur \in [Conns -> Requests \cup {Nobody}] /\ lastbody \in [Conns -> Requests \cup {Nobody}]
    /\ result \in [Conns -> Sent \cup {Failure, NoReply}]
    /\ toServer \in [Conns -> Seq(Requests)] /\ fromServer \in [Conns -> Seq(Sent)]
    /\ unasked \in [Conns -> BOOLEAN]

(* What is pooled is a connection to the pool's own host, with a readLoop. *)
PoolHolds ==
    \A k \in Keys : \A i \in DOMAIN idle[k] :
        KeyOf[idle[k][i]] = k /\ loop[idle[k][i]] # "none"

(* A request has no connection before its dial, and then one with a readLoop.  Its callback
   is set after its response is read, and while it is set the connection is not released. *)
Fresh(r) == ~released[r] /\ ~fn[r] /\ reply[r] = NoReply
CallersHold ==
    \A r \in Requests :
        /\ pc[r] \in {"start", "dial"} => conn[r] = NoConn /\ loop[r] = "none" /\ Fresh(r)
        /\ pc[r] \in {"count", "write", "enqueue"} => Fresh(r)
        /\ pc[r] \notin {"start", "dial", "done"} => conn[r] \in Conns
        /\ conn[r] \in Conns => loop[conn[r]] # "none"
        /\ pc[r] = "put" => fn[r]
        /\ pc[r] \in {"wait", "body", "put"} /\ fn[r] => ~released[r] \/ loop[conn[r]] = "stuck"

(* A request passes through reqch and cur once. *)
Waits(r, c) == conn[r] = c /\ pc[r] = "wait" /\ Fresh(r)
LoopHolds(c) ==
    /\ \A i \in DOMAIN reqch[c] : Waits(reqch[c][i], c)
    /\ \A i, j \in DOMAIN reqch[c] : reqch[c][i] = reqch[c][j] => i = j
    /\ loop[c] \in {"closelast", "read"} => cur[c] \in Requests /\ Waits(cur[c], c)
    /\ loop[c] = "deliver" =>
           /\ cur[c] \in Requests /\ conn[cur[c]] = c
           /\ pc[cur[c]] = "wait" /\ reply[cur[c]] = NoReply
    /\ loop[c] \in {"closelast", "read", "deliver"} =>
           \A i \in DOMAIN reqch[c] : reqch[c][i] # cur[c]
    /\ lastbody[c] \in Requests => conn[lastbody[c]] = c
LoopsHold == \A c \in Conns : LoopHolds(c)

(* OneUser without its sets. *)
Owns(r, c) == conn[r] = c /\ ~released[r]
InPool(c, i) == i \in DOMAIN idle[KeyOf[c]] /\ idle[KeyOf[c]][i] = c
OneUserFlat ==
    \A c \in Conns :
        loop[c] # "stuck" =>
            /\ \A r, s \in Requests : Owns(r, c) /\ Owns(s, c) => r = s
            /\ \A i, j : InPool(c, i) /\ InPool(c, j) => i = j
            /\ \A r \in Requests : \A i : ~(Owns(r, c) /\ InPool(c, i))

PoolInv == Shapes /\ PoolHolds /\ CallersHold /\ LoopsHold /\ OneUserFlat

(* Under way is at most what the connection's one user wrote, or the response to it. *)
After == {"enqueue", "wait", "body", "done"}
User(c, r) == Owns(r, c) /\ pc[r] \in After /\ ~fn[r]
Quiet(c) == toServer[c] = <<>> /\ fromServer[c] = <<>>
UnderWay(c, r) ==
    \/ toServer[c] = <<r>> /\ fromServer[c] = <<>>
    \/ toServer[c] = <<>> /\ Len(fromServer[c]) = 1 /\ fromServer[c][1].to = r
OneUnderWay ==
    \A c \in Conns :
        loop[c] # "stuck" /\ ~unasked[c] =>
            Quiet(c) \/ \E r \in Requests : User(c, r) /\ UnderWay(c, r)

(* What readLoop has read and not delivered, and what it has delivered. *)
ReadIsMine ==
    \A c \in Conns :
        loop[c] = "deliver" /\ result[c] \in Response => result[c].to = cur[c] \/ unasked[c]
ReplyIsMine ==
    \A r \in Requests :
        reply[r] \in Response => conn[r] \in Conns /\ (reply[r].to = r \/ unasked[conn[r]])

AnswerInv == PoolInv /\ OneUnderWay /\ ReadIsMine /\ ReplyIsMine

-----------------------------------------------------------------------------
(* The names, and putIdleConn *)

LEMMA OneUserIsFlat == OneUser <=> OneUserFlat
    BY DEF OneUser, OneUserFlat, Owners, Places, Owns, InPool

LEMMA Names ==
    /\ NoConn \notin Requests /\ Nobody \notin Requests /\ Conns = Requests
    /\ KeyOf \in [Requests -> Keys]
    /\ Failure \notin Response /\ NoReply \notin Response /\ Failure # NoReply
    BY NameAssumption, KeyAssumption DEF Conns, Failure, NoReply, Response

(* What putIdleConn does to the pools. *)
LEMMA PutEffect ==
    ASSUME Shapes, NEW c \in Conns, NEW r, PutIdle(c, r)
    PROVE  /\ idle' = idle \/ idle' = [idle EXCEPT ![KeyOf[c]] = Append(@, c)]
           /\ idle' \in [Keys -> Seq(Conns)]
           /\ released' = [released EXCEPT ![r] = TRUE]
<1>1. KeyOf[c] \in Keys /\ idle[KeyOf[c]] \in Seq(Conns) /\ idle \in [Keys -> Seq(Conns)]
    BY Names DEF Shapes
<1>2. Append(idle[KeyOf[c]], c) \in Seq(Conns)
    BY <1>1
<1>3. idle' = idle \/ idle' = [idle EXCEPT ![KeyOf[c]] = Append(@, c)]
    BY DEF PutIdle
<1>4. idle' \in [Keys -> Seq(Conns)]
    BY <1>1, <1>2, <1>3
<1> QED BY <1>3, <1>4 DEF PutIdle

LEMMA PutPlaces ==
    ASSUME Shapes, PoolHolds, NEW c \in Conns, loop[c] # "none",
           idle' = idle \/ idle' = [idle EXCEPT ![KeyOf[c]] = Append(@, c)]
    PROVE  /\ \A k \in Keys : \A i \in DOMAIN idle'[k] :
                  KeyOf[idle'[k][i]] = k /\ loop[idle'[k][i]] # "none"
           /\ \A d \in Conns \ {c} : \A i : InPool(d, i)' <=> InPool(d, i)
           /\ (\A i : ~InPool(c, i)) => \A i, j : InPool(c, i)' /\ InPool(c, j)' => i = j
<1>1. CASE idle' = idle
    BY <1>1 DEF PoolHolds, InPool
<1>2. CASE idle' = [idle EXCEPT ![KeyOf[c]] = Append(@, c)]
    <2>1. KeyOf[c] \in Keys /\ idle[KeyOf[c]] \in Seq(Conns) /\ \A d \in Conns : KeyOf[d] \in Keys
        BY Names DEF Shapes
    <2> DEFINE old == idle[KeyOf[c]]
               new == idle'[KeyOf[c]]
    <2>2. /\ new = Append(old, c) /\ Len(new) = Len(old) + 1 /\ Len(old) \in Nat
          /\ DOMAIN new = 1..Len(old) + 1 /\ DOMAIN old = 1..Len(old)
          /\ new[Len(old) + 1] = c /\ \A i \in 1..Len(old) : new[i] = old[i]
        BY <1>2, <2>1 DEF Shapes
    <2>3. \A k \in Keys \ {KeyOf[c]} : idle'[k] = idle[k]
        BY <1>2, <2>1 DEF Shapes
    <2> HIDE DEF old, new
    <2>4. \A k \in Keys : \A i \in DOMAIN idle'[k] :
              KeyOf[idle'[k][i]] = k /\ loop[idle'[k][i]] # "none"
        <3>1. ASSUME NEW i \in DOMAIN new PROVE KeyOf[new[i]] = KeyOf[c] /\ loop[new[i]] # "none"
            <4>1. (i \in DOMAIN old /\ new[i] = old[i]) \/ new[i] = c
                BY <2>2
            <4>2. i \in DOMAIN old => KeyOf[old[i]] = KeyOf[c] /\ loop[old[i]] # "none"
                BY <2>1 DEF PoolHolds, old
            <4> QED BY <4>1, <4>2
        <3>2. ASSUME NEW k \in Keys \ {KeyOf[c]}, NEW i \in DOMAIN idle'[k]
              PROVE  KeyOf[idle'[k][i]] = k /\ loop[idle'[k][i]] # "none"
            BY <2>3 DEF PoolHolds
        <3> QED BY <2>1, <3>1, <3>2 DEF new
    <2>5. ASSUME NEW d \in Conns \ {c}, NEW i PROVE InPool(d, i)' <=> InPool(d, i)
        <3>1. CASE KeyOf[d] = KeyOf[c]
            <4>1. InPool(d, i) <=> i \in DOMAIN old /\ old[i] = d
                BY <3>1, Zenon DEF InPool, old
            <4>2. InPool(d, i)' <=> i \in DOMAIN new /\ new[i] = d
                BY <3>1, Zenon DEF InPool, new
            <4>3. i \in DOMAIN new <=> i \in DOMAIN old \/ i = Len(old) + 1
                BY <2>2
            <4>4. d # c /\ ~(Len(old) + 1 \in DOMAIN old)
                BY <2>2, <2>5
            <4>5. i \in DOMAIN old => new[i] = old[i]
                BY <2>2
            <4> QED BY <2>2, <4>1, <4>2, <4>3, <4>4, <4>5
        <3>2. CASE KeyOf[d] # KeyOf[c]
            BY <2>1, <2>3, <2>5, <3>2 DEF InPool
        <3> QED BY <3>1, <3>2
    <2>6. (\A i : ~InPool(c, i)) => \A i, j : InPool(c, i)' /\ InPool(c, j)' => i = j
        BY <2>1, <2>2 DEF InPool, old, new
    <2> QED BY <2>4, <2>5, <2>6
<1> QED BY <1>1, <1>2

-----------------------------------------------------------------------------
(* The shapes of the variables *)

LEMMA InitShapes == Init => Shapes
<1> SUFFICES ASSUME Init PROVE Shapes
    OBVIOUS
<1>1. /\ pc = [r \in Requests |-> "start"] /\ conn = [r \in Requests |-> NoConn]
      /\ reply = [r \in Requests |-> NoReply]
      /\ fn = [r \in Requests |-> FALSE] /\ released = [r \in Requests |-> FALSE]
      /\ loop = [c \in Conns |-> "none"] /\ cur = [c \in Conns |-> Nobody]
      /\ lastbody = [c \in Conns |-> Nobody] /\ result = [c \in Conns |-> NoReply]
      /\ unasked = [c \in Conns |-> FALSE]
    BY DEF Init
<1>2. /\ idle \in [Keys -> Seq(Conns)] /\ reqch \in [Conns -> Seq(Requests)]
      /\ toServer \in [Conns -> Seq(Requests)] /\ fromServer \in [Conns -> Seq(Sent)]
    BY DEF Init
<1> QED BY <1>1, <1>2 DEF Shapes, Labels, LoopLabels

LEMMA NextShapes ==
    ASSUME Shapes, CallersHold, LoopsHold, [Next]_vars
    PROVE  Shapes'
<1> USE DEF callerVars, bodyVars, poolVars, queueVars, loopVars, netVars
<1>n. Conns = Requests /\ KeyOf \in [Requests -> Keys]
    BY Names
<1>1. CASE UNCHANGED vars
    BY <1>1 DEF vars, Shapes
<1>2. ASSUME NEW r \in Requests, GetIdleConn(r) PROVE Shapes'
    <2> DEFINE k == KeyOf[r]
    <2>1. k \in Keys /\ idle[k] \in Seq(Conns)
        BY <1>n DEF Shapes
    <2>2. ASSUME NEW n \in Newest(k), conn' = [conn EXCEPT ![r] = idle[k][n]],
                 idle' = [idle EXCEPT ![k] = SubSeq(@, 1, n - 1)], Goto(r, "count")
          PROVE  Shapes'
        <3>1. n \in 1..Len(idle[k])
            BY <2>1, <2>2 DEF Newest
        <3>2. idle[k][n] \in Conns /\ SubSeq(idle[k], 1, n - 1) \in Seq(Conns)
            BY <2>1, <3>1
        <3> QED BY <1>2, <2>1, <2>2, <3>2 DEF GetIdleConn, Goto, Shapes, Labels
    <2>3. CASE Newest(k) = {} /\ idle' = [idle EXCEPT ![k] = <<>>] /\ Goto(r, "dial") /\ UNCHANGED conn
        BY <1>2, <2>1, <2>3 DEF GetIdleConn, Goto, Shapes, Labels
    <2> QED BY <1>2, <2>2, <2>3 DEF GetIdleConn
<1>a. ASSUME NEW r \in Requests, NEW l \in Labels, Goto(r, l)
      PROVE  pc' \in [Requests -> Labels]
    BY <1>a DEF Goto, Shapes
<1>b. ASSUME NEW c, NEW l \in LoopLabels, LoopTo(c, l)
      PROVE  loop' \in [Conns -> LoopLabels]
    BY <1>b DEF LoopTo, Shapes
<1>3. ASSUME NEW r \in Requests, Dial(r) \/ DialFails(r) \/ SetupFails(r) \/ Count(r) \/ WriteFails(r)
                                   \/ Receive(r) \/ Notify(r) \/ Clear(r) \/ BodyEOF(r) \/ BodyClose(r)
      PROVE  Shapes'
    <2>1. pc' \in [Requests -> Labels]
        <3>1. \E l \in Labels : Goto(r, l)
            BY <1>3 DEF Dial, DialFails, SetupFails, Count, WriteFails, Receive, Notify, Clear, BodyEOF,
                BodyClose, Fail, Labels
        <3> QED BY <1>a, <3>1
    <2>2. loop' \in [Conns -> LoopLabels]
        <3>1. UNCHANGED loop \/ LoopTo(r, "peek") \/ LoopTo(conn[r], "peek") \/ LoopTo(conn[r], "gone")
            BY <1>3 DEF Dial, DialFails, SetupFails, Count, WriteFails, Receive, Notify, Clear, BodyEOF,
                BodyClose
        <3> QED BY <1>b, <3>1 DEF Shapes, LoopLabels
    <2>3. /\ reply' = reply \/ reply' = [reply EXCEPT ![r] = Failure]
          /\ conn' = conn \/ conn' = [conn EXCEPT ![r] = r]
          /\ fn' = fn \/ fn' = [fn EXCEPT ![r] = FALSE]
          /\ UNCHANGED <<released, idle, reqch, cur, lastbody, result, toServer, fromServer, unasked>>
        BY <1>3 DEF Dial, DialFails, SetupFails, Count, WriteFails, Receive, Notify, Clear, BodyEOF,
                BodyClose, Fail, CloseConn
    <2>4. reply' \in [Requests -> Sent \cup {Failure, NoReply}]
        BY <2>3 DEF Shapes
    <2>5. conn' \in [Requests -> Conns \cup {NoConn}]
        BY <1>n, <2>3 DEF Shapes
    <2>6. fn' \in [Requests -> BOOLEAN]
        BY <2>3 DEF Shapes
    <2> QED BY <2>1, <2>2, <2>3, <2>4, <2>5, <2>6 DEF Shapes
<1>4. ASSUME NEW r \in Requests, Write(r) PROVE Shapes'
    <2>1. \A c \in Conns : Append(toServer[c], r) \in Seq(Requests) /\ toServer[c] \in Seq(Requests)
        BY DEF Shapes
    <2>2. toServer' = [toServer EXCEPT ![conn[r]] =
                          IF Reaches(conn[r]) THEN Append(@, r) ELSE @]
        BY <1>4 DEF Write
    <2>3. toServer' \in [Conns -> Seq(Requests)]
        BY <2>1, <2>2 DEF Shapes
    <2>4. pc' \in [Requests -> Labels]
        BY <1>4, <1>a DEF Write, Labels
    <2> QED BY <1>4, <2>3, <2>4 DEF Write, Shapes
<1>5. ASSUME NEW r \in Requests, Enqueue(r) PROVE Shapes'
    <2>1. \A c \in Conns : Append(reqch[c], r) \in Seq(Requests)
        BY DEF Shapes
    <2>2. reqch' \in [Conns -> Seq(Requests)]
        BY <1>5, <2>1 DEF Enqueue, Shapes
    <2>3. pc' \in [Requests -> Labels]
        BY <1>5, <1>a DEF Enqueue, Labels
    <2> QED BY <1>5, <2>2, <2>3 DEF Enqueue, Shapes
<1>6. ASSUME NEW r \in Requests, Put(r) PROVE Shapes'
    <2>1. idle' \in [Keys -> Seq(Conns)] /\ released' = [released EXCEPT ![r] = TRUE]
        BY <1>6, PutEffect DEF Put, CallersHold
    <2> QED BY <1>6, <2>1 DEF Put, Goto, Shapes, Labels
<1>7. ASSUME NEW c \in Conns, Peek(c) \/ CheckExpected(c) \/ ReadFails(c) PROVE Shapes'
    <2>1. loop' \in [Conns -> LoopLabels]
        <3>1. \E l \in LoopLabels : LoopTo(c, l)
            BY <1>7 DEF Peek, CheckExpected, ReadFails, LoopLabels
        <3> QED BY <1>b, <3>1
    <2>2. /\ result' = result \/ result' = [result EXCEPT ![c] = Failure]
          /\ UNCHANGED <<callerVars, fn, idle, reqch, cur, lastbody, toServer, fromServer, unasked, released>>
        BY <1>7 DEF Peek, CheckExpected, ReadFails, CloseConn
    <2> QED BY <2>1, <2>2 DEF Shapes
<1>8. ASSUME NEW c \in Conns, TakeRequest(c) PROVE Shapes'
    <2>1. Head(reqch[c]) \in Requests /\ Tail(reqch[c]) \in Seq(Requests)
        BY <1>8 DEF TakeRequest, Shapes
    <2> QED BY <1>8, <2>1 DEF TakeRequest, LoopTo, Shapes, LoopLabels
<1>9. ASSUME NEW c \in Conns, CloseLastBody(c) PROVE Shapes'
    <2>1. CASE PutIdle(c, lastbody[c]) /\ LoopTo(c, "stuck") /\ UNCHANGED lastbody
        BY <1>9, <2>1, PutEffect DEF CloseLastBody, LoopTo, Shapes, LoopLabels
    <2>2. CASE lastbody' = [lastbody EXCEPT ![c] = Nobody] /\ LoopTo(c, "read") /\ UNCHANGED <<poolVars, released>>
        BY <1>9, <2>2 DEF CloseLastBody, LoopTo, Shapes, LoopLabels
    <2> QED BY <1>9, <2>1, <2>2 DEF CloseLastBody
<1>10. ASSUME NEW c \in Conns, ReadResponse(c) PROVE Shapes'
    <2>0. cur[c] \in Requests
        BY <1>10 DEF ReadResponse, LoopsHold, LoopHolds
    <2>1. Head(fromServer[c]) \in Sent /\ Tail(fromServer[c]) \in Seq(Sent)
        BY <1>10 DEF ReadResponse, Shapes
    <2>2. /\ fromServer' \in [Conns -> Seq(Sent)]
          /\ result' \in [Conns -> Sent \cup {Failure, NoReply}]
          /\ LoopTo(c, "deliver")
          /\ UNCHANGED <<callerVars, reqch, cur, toServer, unasked>>
        BY <1>10, <2>1 DEF ReadResponse, Shapes
    <2>3. fn' \in [Requests -> BOOLEAN] /\ lastbody' \in [Conns -> Requests \cup {Nobody}]
        BY <1>10, <2>0 DEF ReadResponse, Shapes
    <2>4. idle' \in [Keys -> Seq(Conns)] /\ released' \in [Requests -> BOOLEAN]
        BY <1>10, <2>0, PutEffect DEF ReadResponse, Shapes
    <2> QED BY <2>2, <2>3, <2>4 DEF LoopTo, Shapes, LoopLabels
<1>11. ASSUME NEW c \in Conns, Deliver(c) PROVE Shapes'
    BY <1>11, <1>n DEF Deliver, LoopTo, Shapes, LoopLabels
<1>12. ASSUME NEW c \in Conns, Respond(c) PROVE Shapes'
    <2>1. Head(toServer[c]) \in Requests /\ Tail(toServer[c]) \in Seq(Requests)
        BY <1>12 DEF Respond, Shapes
    <2>2. PICK close \in BOOLEAN, body \in Bodies :
              fromServer' = [fromServer EXCEPT ![c] =
                              Append(@, [to |-> Head(toServer[c]), close |-> close, body |-> body])]
        BY <1>12 DEF Respond
    <2>3. [to |-> Head(toServer[c]), close |-> close, body |-> body] \in Sent
        BY <2>1 DEF Response, Sent
    <2>4. fromServer' \in [Conns -> Seq(Sent)]
        BY <2>2, <2>3 DEF Shapes
    <2> QED BY <1>12, <2>1, <2>4 DEF Respond, Shapes
<1>13. ASSUME NEW c \in Conns, RespondUnasked(c) PROVE Shapes'
    <2>2. fromServer' \in [Conns -> Seq(Sent)]
        BY <1>13 DEF RespondUnasked, Unasked, Sent, Shapes
    <2> QED BY <1>13, <2>2 DEF RespondUnasked, Shapes
<1>14. ASSUME NEW c \in Conns, HangUp(c) PROVE Shapes'
    BY <1>14 DEF HangUp, Shapes
<1>15. CASE CloseIdleConnections
    BY <1>15 DEF CloseIdleConnections, Shapes
<1> QED BY <1>1, <1>2, <1>3, <1>4, <1>5, <1>6, <1>7, <1>8, <1>9, <1>10, <1>11, <1>12, <1>13, <1>14, <1>15
        DEF Next, CallerStep, LoopStep

-----------------------------------------------------------------------------
(* One connection, one user: the steps of the callers *)

LEMMA GotoPoint ==
    ASSUME Shapes, NEW r \in Requests, NEW l, Goto(r, l)
    PROVE  pc'[r] = l /\ \A q \in Requests \ {r} : pc'[q] = pc[q]
    BY DEF Shapes, Goto

LEMMA LoopPoint ==
    ASSUME Shapes, NEW c \in Conns, NEW l, LoopTo(c, l)
    PROVE  loop'[c] = l /\ \A d \in Conns \ {c} : loop'[d] = loop[d]
    BY DEF Shapes, LoopTo

(* Parts of the invariant that speak of what did not change. *)
LEMMA SamePool ==
    ASSUME PoolHolds, UNCHANGED idle,
           \A c \in Conns : loop[c] # "none" => loop'[c] # "none", Shapes
    PROVE  PoolHolds'
<1>1. \A k \in Keys : \A i \in DOMAIN idle[k] : idle[k][i] \in Conns
    BY DEF Shapes
<1> QED BY <1>1 DEF PoolHolds

LEMMA SameUsers ==
    ASSUME OneUserFlat, UNCHANGED <<conn, idle, released>>,
           \A c \in Conns : loop'[c] # "stuck" => loop[c] # "stuck"
    PROVE  OneUserFlat'
    BY DEF OneUserFlat, Owns, InPool

(* A caller that goes on, and is not waiting for its answer. *)
LEMMA CallerMoves ==
    ASSUME PoolInv, NEW r \in Requests, NEW l, Goto(r, l),
           pc[r] # "wait" \/ reply[r] # NoReply,
           UNCHANGED <<conn, released, idle, reqch, loop, cur, lastbody>>,
           \/ l = "done"
           \/ UNCHANGED <<fn, reply>> /\ l \in {"write", "enqueue"} /\ pc[r] \in {"count", "write"}
           \/ UNCHANGED <<fn, reply>> /\ l = "body" /\ pc[r] = "wait"
           \/ UNCHANGED <<fn, reply>> /\ l = "put" /\ pc[r] = "body" /\ fn[r],
           fn' = fn \/ fn' = [fn EXCEPT ![r] = FALSE],
           reply' = reply \/ reply' = [reply EXCEPT ![r] = Failure]
    PROVE  PoolHolds' /\ CallersHold' /\ LoopsHold' /\ OneUserFlat'
<1>1. pc'[r] = l /\ \A q \in Requests \ {r} : pc'[q] = pc[q]
    BY GotoPoint DEF PoolInv
<1>2. \A q \in Requests \ {r} : fn'[q] = fn[q] /\ reply'[q] = reply[q]
    BY DEF PoolInv, Shapes
<1>3. PoolHolds' /\ OneUserFlat'
    BY SamePool, SameUsers DEF PoolInv
<1>4. CallersHold'
    BY <1>1, <1>2 DEF PoolInv, CallersHold, Fresh
<1>5. \A q \in Requests, c \in Conns : Waits(q, c) => Waits(q, c)'
    BY <1>1, <1>2 DEF Waits, Fresh
<1>6. \A c \in Conns : \A i \in DOMAIN reqch[c] : reqch[c][i] \in Requests
    BY DEF PoolInv, Shapes
<1>7. LoopsHold'
    BY <1>1, <1>2, <1>5, <1>6 DEF PoolInv, LoopsHold, LoopHolds
<1> QED BY <1>3, <1>4, <1>7

LEMMA CallersKeep ==
    ASSUME PoolInv, NEW r \in Requests,
           DialFails(r) \/ SetupFails(r) \/ Count(r) \/ Write(r) \/ WriteFails(r) \/ Receive(r)
             \/ Clear(r) \/ BodyEOF(r) \/ BodyClose(r)
    PROVE  PoolHolds' /\ CallersHold' /\ LoopsHold' /\ OneUserFlat'
<1> USE DEF callerVars, bodyVars, poolVars, queueVars, loopVars, netVars
<1>1. CASE DialFails(r) \/ SetupFails(r) \/ WriteFails(r)
    BY <1>1, CallerMoves DEF DialFails, SetupFails, WriteFails, Fail, CloseConn
<1>2. CASE Count(r) \/ Write(r)
    BY <1>2, CallerMoves DEF Count, Write
<1>3. CASE Receive(r)
    BY <1>3, CallerMoves DEF Receive
<1>4. CASE Clear(r)
    BY <1>4, CallerMoves DEF Clear
<1>5. CASE BodyEOF(r) \/ BodyClose(r)
    BY <1>5, CallerMoves DEF BodyEOF, BodyClose
<1> QED BY <1>1, <1>2, <1>3, <1>4, <1>5

LEMMA GetIdleConnKeepsAll ==
    ASSUME PoolInv, NEW r \in Requests, GetIdleConn(r)
    PROVE  PoolHolds' /\ CallersHold' /\ LoopsHold' /\ OneUserFlat'
<1> USE DEF bodyVars, poolVars, queueVars, loopVars, netVars
<1> DEFINE k == KeyOf[r]
<1>1. k \in Keys /\ idle[k] \in Seq(Conns) /\ Conns = Requests /\ \A c \in Conns : KeyOf[c] \in Keys
    BY Names DEF PoolInv, Shapes
<1>2. pc[r] = "start" /\ conn[r] = NoConn /\ Fresh(r) /\ loop[r] = "none"
    BY DEF GetIdleConn, PoolInv, CallersHold
<1>3. UNCHANGED <<reply, fn, released, reqch, loop, cur, lastbody>>
    BY DEF GetIdleConn
<1>4. PICK l \in {"count", "dial"} : Goto(r, l)
    BY DEF GetIdleConn
<1>5. pc'[r] = l /\ \A q \in Requests \ {r} : pc'[q] = pc[q]
    BY <1>4, GotoPoint DEF PoolInv
<1>6. \A q \in Requests \ {r} : conn'[q] = conn[q]
    BY DEF GetIdleConn, PoolInv, Shapes
<1>7. LoopsHold'
    <2>1. \A q \in Requests, c \in Conns : Waits(q, c) => Waits(q, c)'
        BY <1>2, <1>3, <1>5, <1>6 DEF Waits, Fresh
    <2>2. \A c \in Conns : \A i \in DOMAIN reqch[c] : reqch[c][i] \in Requests
        BY DEF PoolInv, Shapes
    <2>3. ASSUME NEW c \in Conns, lastbody[c] = r PROVE FALSE
        <3>1. conn[r] = c
            BY <2>3 DEF PoolInv, LoopsHold, LoopHolds
        <3> QED BY <1>1, <1>2, <3>1, Names
    <2> QED BY <1>2, <1>3, <1>5, <1>6, <2>1, <2>2, <2>3 DEF PoolInv, LoopsHold, LoopHolds
<1>8. ASSUME NEW n \in Newest(k), conn' = [conn EXCEPT ![r] = idle[k][n]],
             idle' = [idle EXCEPT ![k] = SubSeq(@, 1, n - 1)], Goto(r, "count")
      PROVE  PoolHolds' /\ CallersHold' /\ OneUserFlat'
    <2> DEFINE c == idle[k][n]
    <2>1. n \in 1..Len(idle[k]) /\ DOMAIN idle[k] = 1..Len(idle[k]) /\ n \in DOMAIN idle[k]
        BY <1>1, <1>8 DEF Newest
    <2>2. c \in Conns /\ KeyOf[c] = k /\ loop[c] # "none" /\ InPool(c, n)
        BY <1>1, <2>1 DEF PoolInv, PoolHolds, InPool
    <2>3. /\ DOMAIN idle'[k] = 1..(n - 1) /\ \A i \in 1..(n - 1) : idle'[k][i] = idle[k][i]
          /\ \A j \in Keys \ {k} : idle'[j] = idle[j]
        <3>1. idle' = [idle EXCEPT ![k] = SubSeq(idle[k], 1, n - 1)] /\ k \in DOMAIN idle
            BY <1>1, <1>8 DEF PoolInv, Shapes
        <3>2. idle'[k] = SubSeq(idle[k], 1, n - 1) /\ \A j \in Keys \ {k} : idle'[j] = idle[j]
            BY <3>1, <1>1 DEF PoolInv, Shapes
        <3> QED BY <2>1, <3>2, SMTT(30)
    <2>4. pc'[r] = "count" /\ conn'[r] = c
        BY <1>8, GotoPoint DEF PoolInv, Shapes
    <2> HIDE DEF c, k
    <2>5. PoolHolds'
        BY <1>3, <2>1, <2>3 DEF PoolInv, PoolHolds
    <2>6. CallersHold'
        BY <1>2, <1>3, <1>5, <1>6, <2>2, <2>4 DEF PoolInv, CallersHold, Fresh
    <2>7. \A d \in Conns : \A i : InPool(d, i)' => InPool(d, i) /\ (d = c => i # n)
        BY <1>1, <2>1, <2>2, <2>3 DEF InPool
    <2>8. OneUserFlat'
        BY <1>3, <1>6, <2>2, <2>4, <2>7 DEF PoolInv, OneUserFlat, Owns
    <2> QED BY <2>5, <2>6, <2>8
<1>9. ASSUME UNCHANGED conn, idle' = [idle EXCEPT ![k] = <<>>], Goto(r, "dial")
      PROVE  PoolHolds' /\ CallersHold' /\ OneUserFlat'
    <2>1. idle'[k] = <<>> /\ \A j \in Keys \ {k} : idle'[j] = idle[j]
        BY <1>1, <1>9 DEF PoolInv, Shapes
    <2>2. pc'[r] = "dial"
        BY <1>9, GotoPoint DEF PoolInv
    <2> HIDE DEF k
    <2>3. PoolHolds'
        BY <1>3, <2>1 DEF PoolInv, PoolHolds
    <2>4. CallersHold'
        BY <1>2, <1>3, <1>5, <1>9, <2>2 DEF PoolInv, CallersHold, Fresh
    <2>5. \A d \in Conns : \A i : InPool(d, i)' => InPool(d, i)
        BY <1>1, <2>1 DEF InPool
    <2>6. OneUserFlat'
        BY <1>3, <1>9, <2>5 DEF PoolInv, OneUserFlat, Owns
    <2> QED BY <2>3, <2>4, <2>6
<1> QED BY <1>7, <1>8, <1>9 DEF GetIdleConn

(* The connection of a dial is new to everybody. *)
LEMMA DialKeeps ==
    ASSUME PoolInv, NEW r \in Requests, Dial(r)
    PROVE  PoolHolds' /\ CallersHold' /\ LoopsHold' /\ OneUserFlat'
<1> USE DEF bodyVars, queueVars, netVars
<1>0. Conns = Requests /\ r \in Conns
    BY Names
<1>1. pc[r] = "dial" /\ conn[r] = NoConn /\ Fresh(r) /\ loop[r] = "none"
    BY DEF Dial, PoolInv, CallersHold
<1>2. UNCHANGED <<reply, fn, released, idle, reqch, cur, lastbody>>
    BY DEF Dial
<1>3. pc'[r] = "count" /\ \A q \in Requests \ {r} : pc'[q] = pc[q]
    BY GotoPoint DEF Dial, PoolInv
<1>4. conn'[r] = r /\ \A q \in Requests \ {r} : conn'[q] = conn[q]
    BY DEF Dial, PoolInv, Shapes, Conns
<1>5. loop'[r] = "peek" /\ \A c \in Conns \ {r} : loop'[c] = loop[c]
    BY <1>0, LoopPoint DEF Dial, PoolInv
<1>6. PoolHolds'
    BY <1>0, <1>2, <1>5, SamePool DEF PoolInv
<1>7. \A q \in Requests : conn[q] # r
    BY <1>0, <1>1 DEF PoolInv, CallersHold
<1>8. \A i : ~InPool(r, i)
    BY <1>0, <1>1, Names DEF PoolInv, PoolHolds, InPool
<1>9. CallersHold'
    BY <1>0, <1>1, <1>2, <1>3, <1>4, <1>5, <1>7 DEF PoolInv, CallersHold, Fresh
<1>10. LoopsHold'
    <2>1. \A q \in Requests, c \in Conns : Waits(q, c) => Waits(q, c)'
        BY <1>1, <1>2, <1>3, <1>4 DEF Waits, Fresh
    <2>2. \A c \in Conns : \A i \in DOMAIN reqch[c] : reqch[c][i] \in Requests
        BY DEF PoolInv, Shapes
    <2>3. ASSUME NEW c \in Conns, lastbody[c] = r PROVE FALSE
        <3>1. conn[r] = c
            BY <2>3 DEF PoolInv, LoopsHold, LoopHolds
        <3> QED BY <1>0, <1>1, <3>1, Names
    <2> QED BY <1>0, <1>1, <1>2, <1>3, <1>4, <1>5, <2>1, <2>2, <2>3 DEF PoolInv, LoopsHold, LoopHolds
<1>11. \A c \in Conns : \A i : InPool(c, i)' <=> InPool(c, i)
    BY <1>2 DEF InPool
<1>12. OneUserFlat'
    BY <1>0, <1>2, <1>4, <1>5, <1>7, <1>8, <1>11 DEF PoolInv, OneUserFlat, Owns
<1> QED BY <1>6, <1>9, <1>10, <1>12

LEMMA EnqueueKeeps ==
    ASSUME PoolInv, NEW r \in Requests, Enqueue(r)
    PROVE  PoolHolds' /\ CallersHold' /\ LoopsHold' /\ OneUserFlat'
<1> USE DEF bodyVars, poolVars, loopVars, netVars
<1>0. PICK c \in Conns : c = conn[r]
    BY DEF Enqueue, PoolInv, CallersHold
<1>1. pc[r] = "enqueue" /\ c \in Conns /\ Fresh(r)
    BY DEF Enqueue, PoolInv, CallersHold
<1>2. UNCHANGED <<conn, reply, fn, released, idle, loop, cur, lastbody>>
    BY DEF Enqueue
<1>3. pc'[r] = "wait" /\ \A q \in Requests \ {r} : pc'[q] = pc[q]
    BY GotoPoint DEF Enqueue, PoolInv
<1>4. PoolHolds' /\ OneUserFlat'
    BY <1>2, SamePool, SameUsers DEF PoolInv
<1>5. CallersHold'
    BY <1>1, <1>2, <1>3 DEF PoolInv, CallersHold, Fresh
<1>6. reqch[c] \in Seq(Requests) /\ \A d \in Conns : reqch[d] \in Seq(Requests)
    BY <1>1 DEF PoolInv, Shapes
<1>7. /\ reqch'[c] = Append(reqch[c], r) /\ \A d \in Conns \ {c} : reqch'[d] = reqch[d]
    BY <1>0, <1>1 DEF Enqueue, PoolInv, Shapes
<1>8. /\ DOMAIN reqch'[c] = 1..Len(reqch[c]) + 1 /\ DOMAIN reqch[c] = 1..Len(reqch[c])
      /\ Len(reqch[c]) \in Nat
      /\ reqch'[c][Len(reqch[c]) + 1] = r /\ \A i \in 1..Len(reqch[c]) : reqch'[c][i] = reqch[c][i]
    BY <1>6, <1>7
<1>9. \A q \in Requests, d \in Conns : Waits(q, d) => q # r /\ Waits(q, d)'
    BY <1>1, <1>2, <1>3 DEF Waits, Fresh
<1>10. Waits(r, c)'
    BY <1>0, <1>1, <1>2, <1>3 DEF Waits, Fresh
<1>11. \A d \in Conns : loop[d] = "deliver" => cur[d] # r
    BY <1>1 DEF PoolInv, LoopsHold, LoopHolds
<1>a. LoopHolds(c) /\ \A d \in Conns : LoopHolds(d)
    BY <1>1 DEF PoolInv, LoopsHold
<1>12. \A d \in Conns \ {c} : LoopHolds(d)'
    BY <1>a, <1>2, <1>3, <1>6, <1>7, <1>9, <1>11 DEF LoopHolds
<1>13. LoopHolds(c)'
    <2>1. \A i \in 1..Len(reqch[c]) : reqch[c][i] \in Requests /\ Waits(reqch[c][i], c)
        BY <1>6, <1>8, <1>a DEF LoopHolds
    <2>2. cur[c] \in Requests /\ loop[c] \in {"closelast", "read", "deliver"} => cur[c] # r
        BY <1>1, <1>9, <1>11, <1>a DEF LoopHolds
    <2>3. \A i, j \in DOMAIN reqch'[c] : reqch'[c][i] = reqch'[c][j] => i = j
        <3>1. \A i \in 1..Len(reqch[c]) : reqch'[c][i] # r
            BY <1>1, <1>8, <1>9, <2>1
        <3>2. \A i, j \in 1..Len(reqch[c]) : reqch[c][i] = reqch[c][j] => i = j
            BY <1>8, <1>a DEF LoopHolds
        <3> QED BY <1>8, <3>1, <3>2
    <2>4. \A i \in DOMAIN reqch'[c] :
              /\ conn'[reqch'[c][i]] = c /\ pc'[reqch'[c][i]] = "wait" /\ ~released'[reqch'[c][i]]
              /\ ~fn'[reqch'[c][i]] /\ reply'[reqch'[c][i]] = NoReply
        BY <1>2, <1>3, <1>8, <1>10, <2>1 DEF Waits, Fresh
    <2>5. loop'[c] \in {"closelast", "read", "deliver"} => \A i \in DOMAIN reqch'[c] : reqch'[c][i] # cur'[c]
        BY <1>2, <1>8, <1>a, <2>2 DEF LoopHolds
    <2>6. loop'[c] \in {"closelast", "read"} => cur'[c] \in Requests /\ Waits(cur[c], c)'
        BY <1>1, <1>2, <1>9, <1>a DEF LoopHolds
    <2>7. /\ loop'[c] = "deliver" =>
               /\ cur'[c] \in Requests /\ conn'[cur'[c]] = c
               /\ pc'[cur'[c]] = "wait" /\ reply'[cur'[c]] = NoReply
          /\ lastbody'[c] \in Requests => conn'[lastbody'[c]] = c
        BY <1>2, <1>3, <1>11, <1>a DEF LoopHolds
    <2> QED BY <2>3, <2>4, <2>5, <2>6, <2>7 DEF LoopHolds, Waits, Fresh
<1>14. LoopsHold'
    BY <1>12, <1>13 DEF LoopsHold
<1> QED BY <1>4, <1>5, <1>14

(* The callback gives the connection back once: fn is still set. *)
LEMMA PutKeeps ==
    ASSUME PoolInv, NEW r \in Requests, Put(r)
    PROVE  PoolHolds' /\ CallersHold' /\ LoopsHold' /\ OneUserFlat'
<1> USE DEF bodyVars, queueVars, netVars
<1>0. PICK c \in Conns : c = conn[r]
    BY DEF Put, PoolInv, CallersHold
<1>1. pc[r] = "put" /\ c \in Conns /\ fn[r] /\ loop[c] # "none" /\ (~released[r] \/ loop[c] = "stuck")
    BY <1>0 DEF Put, PoolInv, CallersHold
<1>2. UNCHANGED <<conn, reply, fn, reqch, loop, cur, lastbody>> /\ PutIdle(c, r)
    BY <1>0 DEF Put
<1>3. pc'[r] = "notify" /\ \A q \in Requests \ {r} : pc'[q] = pc[q]
    BY GotoPoint DEF Put, PoolInv
<1>4. idle' = idle \/ idle' = [idle EXCEPT ![KeyOf[c]] = Append(@, c)]
    BY <1>1, <1>2, PutEffect DEF PoolInv
<1>5. released'[r] /\ \A q \in Requests \ {r} : released'[q] = released[q]
    BY <1>1, <1>2, PutEffect DEF PoolInv, Shapes
<1>6. /\ PoolHolds'
      /\ \A d \in Conns \ {c} : \A i : InPool(d, i)' <=> InPool(d, i)
      /\ (\A i : ~InPool(c, i)) => \A i, j : InPool(c, i)' /\ InPool(c, j)' => i = j
    <2>1. /\ \A k \in Keys : \A i \in DOMAIN idle'[k] :
                 KeyOf[idle'[k][i]] = k /\ loop[idle'[k][i]] # "none"
          /\ \A d \in Conns \ {c} : \A i : InPool(d, i)' <=> InPool(d, i)
          /\ (\A i : ~InPool(c, i)) => \A i, j : InPool(c, i)' /\ InPool(c, j)' => i = j
        BY <1>1, <1>4, PutPlaces DEF PoolInv
    <2> QED BY <1>2, <2>1 DEF PoolHolds
<1>7. CallersHold'
    BY <1>0, <1>1, <1>2, <1>3, <1>5 DEF PoolInv, CallersHold, Fresh
<1>8. LoopsHold'
    <2>1. \A q \in Requests, d \in Conns : Waits(q, d) => Waits(q, d)'
        BY <1>1, <1>2, <1>3, <1>5 DEF Waits, Fresh
    <2>2. \A d \in Conns : \A i \in DOMAIN reqch[d] : reqch[d][i] \in Requests
        BY DEF PoolInv, Shapes
    <2> QED BY <1>1, <1>2, <1>3, <2>1, <2>2 DEF PoolInv, LoopsHold, LoopHolds
<1>9. OneUserFlat'
    <2>1. ASSUME loop[c] # "stuck"
          PROVE  (\A i : ~InPool(c, i)) /\ \A q \in Requests : ~Owns(q, c)'
        BY <1>0, <1>1, <1>2, <1>5, <2>1 DEF PoolInv, OneUserFlat, Owns
    <2>2. \A q \in Requests, d \in Conns \ {c} : Owns(q, d)' <=> Owns(q, d)
        BY <1>0, <1>1, <1>2, <1>5 DEF Owns
    <2>3. \A d \in Conns \ {c} : loop'[d] # "stuck" =>
              /\ \A q, s \in Requests : Owns(q, d)' /\ Owns(s, d)' => q = s
              /\ \A i, j : InPool(d, i)' /\ InPool(d, j)' => i = j
              /\ \A q \in Requests : \A i : ~(Owns(q, d)' /\ InPool(d, i)')
        BY <1>2, <1>6, <2>2 DEF PoolInv, OneUserFlat
    <2>4. loop'[c] # "stuck" =>
              /\ \A q \in Requests : ~Owns(q, c)'
              /\ \A i, j : InPool(c, i)' /\ InPool(c, j)' => i = j
        BY <1>2, <1>6, <2>1
    <2> QED BY <2>3, <2>4 DEF OneUserFlat
<1> QED BY <1>6, <1>7, <1>8, <1>9

-----------------------------------------------------------------------------
(* One connection, one user: the steps of readLoop, the server and the pool *)

(* A step of readLoop that touches nothing else. *)
LEMMA LoopMoves ==
    ASSUME PoolInv, NEW c \in Conns, NEW l \in {"peek", "check", "take", "gone"}, LoopTo(c, l),
           loop[c] \notin {"none", "stuck"},
           UNCHANGED <<conn, reply, fn, released, idle, reqch, cur, lastbody>>,
           UNCHANGED pc \/ \E r \in Requests : pc[r] = "notify" /\ Goto(r, "clear")
    PROVE  PoolHolds' /\ CallersHold' /\ LoopsHold' /\ OneUserFlat'
<1>1. loop'[c] = l /\ \A d \in Conns \ {c} : loop'[d] = loop[d]
    BY LoopPoint DEF PoolInv
<1>2. \A q \in Requests : pc'[q] = pc[q] \/ (pc[q] = "notify" /\ pc'[q] = "clear")
    <2>1. CASE UNCHANGED pc
        BY <2>1
    <2>2. ASSUME NEW r \in Requests, pc[r] = "notify", Goto(r, "clear")
          PROVE  \A q \in Requests : pc'[q] = pc[q] \/ (pc[q] = "notify" /\ pc'[q] = "clear")
        BY <2>2, GotoPoint DEF PoolInv
    <2> QED BY <2>1, <2>2
<1>3. PoolHolds' /\ OneUserFlat'
    BY <1>1, SamePool, SameUsers DEF PoolInv
<1>4. CallersHold'
    BY <1>1, <1>2, Names DEF PoolInv, CallersHold, Fresh
<1>5. \A q \in Requests, d \in Conns : Waits(q, d) => Waits(q, d)'
    BY <1>2 DEF Waits, Fresh
<1>6. \A d \in Conns : \A i \in DOMAIN reqch[d] : reqch[d][i] \in Requests
    BY DEF PoolInv, Shapes
<1>7. \A d \in Conns : LoopHolds(d)'
    BY <1>1, <1>2, <1>5, <1>6 DEF PoolInv, LoopsHold, LoopHolds
<1> QED BY <1>3, <1>4, <1>7 DEF LoopsHold

LEMMA LoopsKeep ==
    ASSUME PoolInv, NEW c \in Conns, Peek(c) \/ CheckExpected(c)
    PROVE  PoolHolds' /\ CallersHold' /\ LoopsHold' /\ OneUserFlat'
<1> USE DEF callerVars, bodyVars, poolVars, queueVars, netVars
<1>1. CASE Peek(c)
    BY <1>1, LoopMoves DEF Peek
<1>2. CASE CheckExpected(c)
    BY <1>2, LoopMoves DEF CheckExpected, CloseConn
<1> QED BY <1>1, <1>2

LEMMA NotifyKeeps ==
    ASSUME PoolInv, NEW r \in Requests, Notify(r)
    PROVE  PoolHolds' /\ CallersHold' /\ LoopsHold' /\ OneUserFlat'
<1>1. PICK c \in Conns : c = conn[r]
    BY DEF Notify, PoolInv, CallersHold
<1> QED BY <1>1, LoopMoves DEF Notify, bodyVars, poolVars, queueVars, netVars

LEMMA TakeKeeps ==
    ASSUME PoolInv, NEW c \in Conns, TakeRequest(c)
    PROVE  PoolHolds' /\ CallersHold' /\ LoopsHold' /\ OneUserFlat'
<1> USE DEF callerVars, bodyVars, poolVars, netVars
<1>1. UNCHANGED <<pc, conn, reply, fn, released, idle, lastbody>> /\ loop[c] = "take"
    BY DEF TakeRequest
<1>2. PICK l \in {"read", "closelast"} : LoopTo(c, l)
    BY DEF TakeRequest
<1>3. loop'[c] = l /\ \A d \in Conns \ {c} : loop'[d] = loop[d]
    BY <1>2, LoopPoint DEF PoolInv
<1>4. /\ reqch[c] \in Seq(Requests) /\ reqch[c] # <<>>
      /\ reqch'[c] = Tail(reqch[c]) /\ \A d \in Conns \ {c} : reqch'[d] = reqch[d]
      /\ cur'[c] = Head(reqch[c]) /\ \A d \in Conns \ {c} : cur'[d] = cur[d]
    BY DEF TakeRequest, PoolInv, Shapes
<1>5. /\ DOMAIN reqch[c] = 1..Len(reqch[c]) /\ Len(reqch[c]) \in Nat \ {0}
      /\ cur'[c] = reqch[c][1]
      /\ DOMAIN reqch'[c] = 1..Len(reqch[c]) - 1
      /\ \A i \in 1..Len(reqch[c]) - 1 : reqch'[c][i] = reqch[c][i + 1]
    BY <1>4
<1>6. PoolHolds' /\ OneUserFlat'
    BY <1>1, <1>3, SamePool, SameUsers DEF PoolInv
<1>7. CallersHold'
    BY <1>1, <1>3, Names DEF PoolInv, CallersHold, Fresh
<1>8. \A q, d : Waits(q, d)' <=> Waits(q, d)
    BY <1>1 DEF Waits, Fresh
<1>a. \A d \in Conns : LoopHolds(d) /\ reqch[d] \in Seq(Requests)
    BY DEF PoolInv, LoopsHold, Shapes
<1>9. \A d \in Conns \ {c} : LoopHolds(d)'
    BY <1>1, <1>3, <1>4, <1>a DEF LoopHolds, Waits, Fresh
<1>10. LoopHolds(c)'
    <2>1. \A i \in 1..Len(reqch[c]) : reqch[c][i] \in Requests /\ Waits(reqch[c][i], c)
        BY <1>5, <1>a DEF LoopHolds
    <2>2. \A i, j \in 1..Len(reqch[c]) : reqch[c][i] = reqch[c][j] => i = j
        BY <1>5, <1>a DEF LoopHolds
    <2>3. ASSUME NEW i \in DOMAIN reqch'[c], NEW j \in DOMAIN reqch'[c], reqch'[c][i] = reqch'[c][j]
          PROVE  i = j
        <3>1. i + 1 \in 1..Len(reqch[c]) /\ j + 1 \in 1..Len(reqch[c]) /\ i \in Nat /\ j \in Nat
            BY <1>5
        <3>2. reqch[c][i + 1] = reqch[c][j + 1]
            BY <1>5, <2>3
        <3>3. i + 1 = j + 1
            BY <2>2, <3>1, <3>2
        <3> QED BY <3>1, <3>3
    <2>4. ASSUME NEW i \in DOMAIN reqch'[c] PROVE reqch'[c][i] # cur'[c]
        <3>1. i \in 1..Len(reqch[c]) - 1 /\ 1 \in 1..Len(reqch[c]) /\ i + 1 \in 1..Len(reqch[c]) /\ i + 1 # 1
            BY <1>5
        <3> QED BY <1>5, <2>2, <3>1
    <2>5. \A i \in DOMAIN reqch'[c] :
              /\ conn'[reqch'[c][i]] = c /\ pc'[reqch'[c][i]] = "wait" /\ ~released'[reqch'[c][i]]
              /\ ~fn'[reqch'[c][i]] /\ reply'[reqch'[c][i]] = NoReply
        BY <1>1, <1>5, <2>1 DEF Waits, Fresh
    <2>6. /\ cur'[c] \in Requests
          /\ conn'[cur'[c]] = c /\ pc'[cur'[c]] = "wait" /\ ~released'[cur'[c]]
          /\ ~fn'[cur'[c]] /\ reply'[cur'[c]] = NoReply
        BY <1>1, <1>5, <2>1 DEF Waits, Fresh
    <2>7. lastbody'[c] \in Requests => conn'[lastbody'[c]] = c
        BY <1>1, <1>a DEF LoopHolds
    <2> QED BY <1>3, <2>3, <2>4, <2>5, <2>6, <2>7 DEF LoopHolds, Waits, Fresh
<1> QED BY <1>6, <1>7, <1>9, <1>10 DEF LoopsHold

LEMMA CloseLastKeeps ==
    ASSUME PoolInv, NEW c \in Conns, CloseLastBody(c)
    PROVE  PoolHolds' /\ CallersHold' /\ LoopsHold' /\ OneUserFlat'
<1> USE DEF callerVars, poolVars, queueVars, netVars
<1>1. UNCHANGED <<pc, conn, reply, fn, reqch, cur>> /\ loop[c] = "closelast"
    BY DEF CloseLastBody
<1>a. \A d \in Conns : LoopHolds(d) /\ reqch[d] \in Seq(Requests)
    BY DEF PoolInv, LoopsHold, Shapes
<1>2. CASE fn[lastbody[c]] /\ PutIdle(c, lastbody[c]) /\ LoopTo(c, "stuck") /\ UNCHANGED lastbody
    <2>1. loop'[c] = "stuck" /\ \A d \in Conns \ {c} : loop'[d] = loop[d]
        BY <1>2, LoopPoint DEF PoolInv
    <2>2. /\ idle' = idle \/ idle' = [idle EXCEPT ![KeyOf[c]] = Append(@, c)]
          /\ released' = [released EXCEPT ![lastbody[c]] = TRUE]
        BY <1>2, PutEffect DEF PoolInv
    <2>3. /\ \A q \in Requests : released'[q] = released[q] \/ (released'[q] /\ q = lastbody[c])
          /\ lastbody[c] \in Requests => conn[lastbody[c]] = c
        BY <1>a, <2>2 DEF PoolInv, Shapes, LoopHolds
    <2>4. /\ \A k \in Keys : \A i \in DOMAIN idle'[k] :
                 KeyOf[idle'[k][i]] = k /\ loop[idle'[k][i]] # "none"
          /\ \A d \in Conns \ {c} : \A i : InPool(d, i)' <=> InPool(d, i)
        BY <1>1, <2>2, PutPlaces DEF PoolInv
    <2>5. \A k \in Keys : \A i \in DOMAIN idle'[k] : idle'[k][i] \in Conns
        <3>1. idle' \in [Keys -> Seq(Conns)]
            BY <1>2, PutEffect DEF PoolInv
        <3> QED BY <3>1
    <2>6. PoolHolds'
        BY <2>1, <2>4, <2>5 DEF PoolHolds
    <2>7. CallersHold'
        BY <1>1, <1>2, <2>1, <2>3, Names DEF PoolInv, CallersHold, Fresh
    <2>8. \A q \in Requests, d \in Conns : Waits(q, d) => Waits(q, d)'
        BY <1>1, <1>2, <2>3 DEF Waits, Fresh
    <2>9. \A d \in Conns : LoopHolds(d)'
        BY <1>1, <1>2, <1>a, <2>1, <2>8 DEF LoopHolds
    <2>10. \A q \in Requests, d \in Conns \ {c} : Owns(q, d)' => Owns(q, d)
        BY <1>1, <2>3 DEF Owns
    <2>11. OneUserFlat'
        BY <2>1, <2>4, <2>10 DEF PoolInv, OneUserFlat
    <2> QED BY <2>6, <2>7, <2>9, <2>11 DEF LoopsHold
<1>3. CASE lastbody' = [lastbody EXCEPT ![c] = Nobody] /\ LoopTo(c, "read") /\ UNCHANGED <<poolVars, released>>
    <2>1. loop'[c] = "read" /\ \A d \in Conns \ {c} : loop'[d] = loop[d]
        BY <1>3, LoopPoint DEF PoolInv
    <2>2. PoolHolds' /\ OneUserFlat'
        BY <1>1, <1>3, <2>1, SamePool, SameUsers DEF PoolInv
    <2>3. CallersHold'
        BY <1>1, <1>3, <2>1, Names DEF PoolInv, CallersHold, Fresh
    <2>4. lastbody'[c] = Nobody /\ \A d \in Conns \ {c} : lastbody'[d] = lastbody[d]
        BY <1>3 DEF PoolInv, Shapes
    <2>5. \A q \in Requests, d \in Conns : Waits(q, d) => Waits(q, d)'
        BY <1>1, <1>3 DEF Waits, Fresh
    <2>6. \A d \in Conns : LoopHolds(d)'
        BY <1>1, <1>3, <1>a, <2>1, <2>4, <2>5, Names DEF LoopHolds
    <2> QED BY <2>2, <2>3, <2>6 DEF LoopsHold
<1> QED BY <1>2, <1>3 DEF CloseLastBody

LEMMA ReadFailsKeeps ==
    ASSUME PoolInv, NEW c \in Conns, ReadFails(c)
    PROVE  PoolHolds' /\ CallersHold' /\ LoopsHold' /\ OneUserFlat'
<1>1. UNCHANGED <<pc, conn, reply, fn, released, idle, reqch, cur, lastbody>> /\ loop[c] = "read"
    BY DEF ReadFails, callerVars, bodyVars, poolVars, queueVars, netVars
<1>2. loop'[c] = "deliver" /\ \A d \in Conns \ {c} : loop'[d] = loop[d]
    BY LoopPoint DEF PoolInv, ReadFails
<1>3. PoolHolds' /\ OneUserFlat'
    BY <1>1, <1>2, SamePool, SameUsers DEF PoolInv
<1>4. CallersHold'
    BY <1>1, <1>2, Names DEF PoolInv, CallersHold, Fresh
<1>5. \A d \in Conns : LoopHolds(d)'
    BY <1>1, <1>2 DEF PoolInv, LoopsHold, LoopHolds, Waits, Fresh
<1> QED BY <1>3, <1>4, <1>5 DEF LoopsHold

LEMMA DeliverKeeps ==
    ASSUME PoolInv, NEW c \in Conns, Deliver(c)
    PROVE  PoolHolds' /\ CallersHold' /\ LoopsHold' /\ OneUserFlat'
<1>1. UNCHANGED <<pc, conn, fn, released, idle, reqch, cur, lastbody>> /\ loop[c] = "deliver"
    BY DEF Deliver, bodyVars, poolVars, queueVars, netVars
<1>2. PICK l \in {"gone", "waitbody", "peek"} : LoopTo(c, l)
    BY DEF Deliver
<1>3. loop'[c] = l /\ \A d \in Conns \ {c} : loop'[d] = loop[d]
    BY <1>2, LoopPoint DEF PoolInv
<1>a. \A d \in Conns : LoopHolds(d) /\ reqch[d] \in Seq(Requests)
    BY DEF PoolInv, LoopsHold, Shapes
<1>4. cur[c] \in Requests /\ conn[cur[c]] = c /\ pc[cur[c]] = "wait"
    BY <1>1, <1>a DEF LoopHolds
<1>5. \A q \in Requests \ {cur[c]} : reply'[q] = reply[q]
    BY DEF Deliver, PoolInv, Shapes
<1>6. PoolHolds' /\ OneUserFlat'
    BY <1>1, <1>3, SamePool, SameUsers DEF PoolInv
<1>7. CallersHold'
    BY <1>1, <1>3, <1>4, <1>5, Names DEF PoolInv, CallersHold, Fresh
<1>8. \A q \in Requests \ {cur[c]}, d \in Conns : Waits(q, d) => Waits(q, d)'
    BY <1>1, <1>5 DEF Waits, Fresh
<1>9. \A d \in Conns : \A i \in DOMAIN reqch[d] : reqch[d][i] \in Requests \ {cur[c]}
    BY <1>1, <1>4, <1>a DEF LoopHolds, Waits
<1>10. \A d \in Conns \ {c} : loop[d] \in {"closelast", "read", "deliver"} => cur[d] # cur[c]
    BY <1>4, <1>a DEF LoopHolds, Waits
<1>11. \A d \in Conns : LoopHolds(d)'
    BY <1>1, <1>3, <1>5, <1>8, <1>9, <1>10, <1>a DEF LoopHolds
<1> QED BY <1>6, <1>7, <1>11 DEF LoopsHold

(* A response without a body releases the connection before it is delivered; one with a
   body leaves that to the callback. *)
LEMMA ReadKeeps ==
    ASSUME PoolInv, NEW c \in Conns, ReadResponse(c)
    PROVE  PoolHolds' /\ CallersHold' /\ LoopsHold' /\ OneUserFlat'
<1> USE DEF callerVars, poolVars, queueVars
<1>1. UNCHANGED <<pc, conn, reply, reqch, cur>> /\ loop[c] = "read"
    BY DEF ReadResponse
<1>2. loop'[c] = "deliver" /\ \A d \in Conns \ {c} : loop'[d] = loop[d]
    BY LoopPoint DEF PoolInv, ReadResponse
<1>a. \A d \in Conns : LoopHolds(d) /\ reqch[d] \in Seq(Requests)
    BY DEF PoolInv, LoopsHold, Shapes
<1>3. cur[c] \in Requests /\ Waits(cur[c], c)
    BY <1>1, <1>a DEF LoopHolds
<1>4. PICK r \in Requests : r = cur[c] /\ Waits(r, c)
    BY <1>3
<1>5. /\ lastbody' = lastbody \/ lastbody' = [lastbody EXCEPT ![c] = r]
      /\ \/ UNCHANGED <<idle, released>> /\ (fn' = fn \/ fn' = [fn EXCEPT ![r] = TRUE])
         \/ PutIdle(c, r) /\ fn' = fn
    BY <1>4 DEF ReadResponse
<1>6. \A q \in Requests \ {r} : fn'[q] = fn[q]
    BY <1>5 DEF PoolInv, Shapes
<1>7. \A q \in Requests, d \in Conns : Waits(q, d) => q = r \/ ~released[q]
    BY DEF Waits, Fresh
<1>8. \A d \in Conns : \A i \in DOMAIN reqch[d] : reqch[d][i] \in Requests \ {r}
    BY <1>1, <1>4, <1>a DEF LoopHolds, Waits
<1>9. \A d \in Conns \ {c} : loop[d] \in {"closelast", "read", "deliver"} => cur[d] # r
    BY <1>4, <1>a DEF LoopHolds, Waits
<1>10. \A d \in Conns : lastbody'[d] \in Requests => conn'[lastbody'[d]] = d
    <2>1. \A d \in Conns : lastbody'[d] = lastbody[d] \/ (d = c /\ lastbody'[d] = r)
        BY <1>5 DEF PoolInv, Shapes
    <2>2. conn[r] = c /\ \A d \in Conns : lastbody[d] \in Requests => conn[lastbody[d]] = d
        BY <1>4, <1>a DEF LoopHolds, Waits
    <2> QED BY <1>1, <2>1, <2>2
<1>11. CASE UNCHANGED <<idle, released>>
    <2>1. PoolHolds' /\ OneUserFlat'
        BY <1>1, <1>2, <1>11, SamePool, SameUsers DEF PoolInv
    <2>2. CallersHold'
        BY <1>1, <1>2, <1>4, <1>6, <1>11, Names DEF PoolInv, CallersHold, Fresh, Waits
    <2>3. \A q \in Requests \ {r}, d \in Conns : Waits(q, d) => Waits(q, d)'
        BY <1>1, <1>6, <1>11 DEF Waits, Fresh
    <2>4. \A d \in Conns \ {c} : LoopHolds(d)'
        BY <1>1, <1>2, <1>8, <1>9, <1>10, <1>a, <2>3 DEF LoopHolds
    <2>5. LoopHolds(c)'
        BY <1>1, <1>2, <1>4, <1>8, <1>10, <1>a, <2>3 DEF LoopHolds, Waits, Fresh
    <2> QED BY <2>1, <2>2, <2>4, <2>5 DEF LoopsHold
<1>12. CASE PutIdle(c, r) /\ fn' = fn
    <2>1. /\ idle' = idle \/ idle' = [idle EXCEPT ![KeyOf[c]] = Append(@, c)]
          /\ idle' \in [Keys -> Seq(Conns)]
          /\ released' = [released EXCEPT ![r] = TRUE]
        BY <1>12, PutEffect DEF PoolInv
    <2>2. released'[r] /\ \A q \in Requests \ {r} : released'[q] = released[q]
        BY <2>1 DEF PoolInv, Shapes
    <2>3. /\ \A k \in Keys : \A i \in DOMAIN idle'[k] :
                 KeyOf[idle'[k][i]] = k /\ loop[idle'[k][i]] # "none"
          /\ \A d \in Conns \ {c} : \A i : InPool(d, i)' <=> InPool(d, i)
          /\ (\A i : ~InPool(c, i)) => \A i, j : InPool(c, i)' /\ InPool(c, j)' => i = j
        BY <1>1, <2>1, PutPlaces DEF PoolInv
    <2>4. \A k \in Keys : \A i \in DOMAIN idle'[k] : idle'[k][i] \in Conns
        BY <2>1
    <2>5. PoolHolds'
        BY <1>2, <2>3, <2>4 DEF PoolHolds
    <2>6. CallersHold'
        BY <1>1, <1>2, <1>4, <1>12, <2>2, Names DEF PoolInv, CallersHold, Fresh, Waits
    <2>7. \A q \in Requests \ {r}, d \in Conns : Waits(q, d) => Waits(q, d)'
        BY <1>1, <1>12, <2>2 DEF Waits, Fresh
    <2>8. \A d \in Conns \ {c} : LoopHolds(d)'
        BY <1>1, <1>2, <1>8, <1>9, <1>10, <1>a, <2>7 DEF LoopHolds
    <2>9. LoopHolds(c)'
        BY <1>1, <1>2, <1>4, <1>8, <1>10, <1>a, <2>7 DEF LoopHolds, Waits, Fresh
    <2>10. (\A i : ~InPool(c, i)) /\ \A q \in Requests : ~Owns(q, c)'
        BY <1>1, <1>4, <2>2 DEF PoolInv, OneUserFlat, Owns, Waits, Fresh
    <2>11. \A q \in Requests, d \in Conns \ {c} : Owns(q, d)' => Owns(q, d)
        BY <1>1, <1>4, <2>2 DEF Owns, Waits
    <2>12. \A d \in Conns \ {c} : loop'[d] # "stuck" =>
              /\ \A q, s \in Requests : Owns(q, d)' /\ Owns(s, d)' => q = s
              /\ \A i, j : InPool(d, i)' /\ InPool(d, j)' => i = j
              /\ \A q \in Requests : \A i : ~(Owns(q, d)' /\ InPool(d, i)')
        BY <1>2, <2>3, <2>11 DEF PoolInv, OneUserFlat
    <2>13. OneUserFlat'
        BY <2>3, <2>10, <2>12 DEF OneUserFlat
    <2> QED BY <2>5, <2>6, <2>8, <2>9, <2>13 DEF LoopsHold
<1> QED BY <1>5, <1>11, <1>12

LEMMA OthersKeep ==
    ASSUME PoolInv,
           (\E c \in Conns : Respond(c) \/ HangUp(c) \/ RespondUnasked(c)) \/ UNCHANGED vars
    PROVE  PoolHolds' /\ CallersHold' /\ LoopsHold' /\ OneUserFlat'
<1>1. UNCHANGED <<pc, conn, reply, fn, released, idle, reqch, loop, cur, lastbody>>
    BY DEF Respond, HangUp, RespondUnasked, vars, callerVars, bodyVars, poolVars, queueVars, loopVars
<1>2. PoolHolds' /\ OneUserFlat'
    BY <1>1, SamePool, SameUsers DEF PoolInv
<1>3. CallersHold'
    BY <1>1 DEF PoolInv, CallersHold, Fresh
<1>4. LoopsHold'
    BY <1>1 DEF PoolInv, LoopsHold, LoopHolds, Waits, Fresh
<1> QED BY <1>2, <1>3, <1>4

LEMMA CloseIdleKeeps ==
    ASSUME PoolInv, CloseIdleConnections
    PROVE  PoolHolds' /\ CallersHold' /\ LoopsHold' /\ OneUserFlat'
<1>1. UNCHANGED <<pc, conn, reply, fn, released, reqch, loop, cur, lastbody>>
    BY DEF CloseIdleConnections, callerVars, bodyVars, queueVars, loopVars
<1>2. \A k \in Keys : idle'[k] = <<>>
    BY DEF CloseIdleConnections
<1>3. PoolHolds'
    BY <1>2 DEF PoolHolds
<1>4. CallersHold'
    BY <1>1 DEF PoolInv, CallersHold, Fresh
<1>5. LoopsHold'
    BY <1>1 DEF PoolInv, LoopsHold, LoopHolds, Waits, Fresh
<1>6. \A c \in Conns : \A i : ~InPool(c, i)'
    BY <1>2, Names DEF InPool
<1>7. OneUserFlat'
    BY <1>1, <1>6 DEF PoolInv, OneUserFlat, Owns
<1> QED BY <1>3, <1>4, <1>5, <1>7

LEMMA InitPool == Init => PoolInv
<1> SUFFICES ASSUME Init PROVE PoolInv
    OBVIOUS
<1>1. /\ pc = [r \in Requests |-> "start"] /\ conn = [r \in Requests |-> NoConn]
      /\ reply = [r \in Requests |-> NoReply]
      /\ fn = [r \in Requests |-> FALSE] /\ released = [r \in Requests |-> FALSE]
      /\ loop = [c \in Conns |-> "none"] /\ lastbody = [c \in Conns |-> Nobody]
      /\ idle = [k \in Keys |-> <<>>] /\ reqch = [c \in Conns |-> <<>>]
    BY DEF Init
<1>2. PoolHolds
    BY <1>1 DEF PoolHolds
<1>3. CallersHold
    BY <1>1, Names DEF CallersHold, Fresh
<1>4. LoopsHold
    <2>1. \A c \in Conns : reqch[c] = <<>> /\ loop[c] = "none" /\ lastbody[c] \notin Requests
        BY <1>1, Names
    <2> QED BY <2>1 DEF LoopsHold, LoopHolds
<1>5. OneUserFlat
    BY <1>1, Names DEF OneUserFlat, Owns, InPool
<1> QED BY <1>2, <1>3, <1>4, <1>5, InitShapes DEF PoolInv

LEMMA NextPool == PoolInv /\ [Next]_vars => PoolInv'
<1> SUFFICES ASSUME PoolInv, [Next]_vars PROVE PoolInv'
    OBVIOUS
<1>1. Shapes'
    BY NextShapes DEF PoolInv
<1>2. PoolHolds' /\ CallersHold' /\ LoopsHold' /\ OneUserFlat'
    BY CallersKeep, GetIdleConnKeepsAll, DialKeeps, EnqueueKeeps, PutKeeps, NotifyKeeps, LoopsKeep,
       TakeKeeps, CloseLastKeeps, ReadKeeps, ReadFailsKeeps, DeliverKeeps, OthersKeep, CloseIdleKeeps
       DEF Next, CallerStep, LoopStep
<1> QED BY <1>1, <1>2 DEF PoolInv

(* OneUser for every number of requests and hosts and every size of the pool: a connection
   has one user or is once in the pool. *)
THEOREM ConnectionsHaveOneUser == Spec => []OneUser
<1>1. PoolInv => OneUser
    BY OneUserIsFlat DEF PoolInv
<1> QED BY InitPool, NextPool, <1>1, PTL DEF Spec

-----------------------------------------------------------------------------
(* The answer to the one user *)

(* What is under way stays its user's until readLoop has read it. *)
LEMMA UserStays ==
    ASSUME PoolInv, Next, NEW c \in Conns, NEW q \in Requests, User(c, q),
           loop'[c] # "stuck", ~ReadResponse(c)
    PROVE  User(c, q)'
<1> USE DEF callerVars, bodyVars, poolVars, queueVars, loopVars, netVars
<1>1. conn[q] = c /\ ~released[q] /\ pc[q] \in After /\ ~fn[q]
    BY DEF User, Owns
<1>2. ASSUME NEW r \in Requests, r # q,
             GetIdleConn(r) \/ Dial(r) \/ DialFails(r) \/ SetupFails(r) \/ Count(r) \/ Write(r) \/ WriteFails(r)
               \/ Enqueue(r) \/ Receive(r) \/ Notify(r) \/ Clear(r) \/ BodyEOF(r) \/ BodyClose(r)
      PROVE  User(c, q)'
    <2>1. pc'[q] = pc[q]
        <3>1. \E l : Goto(r, l)
            BY <1>2 DEF GetIdleConn, Dial, DialFails, SetupFails, Count, Write, WriteFails, Enqueue,
                Receive, Notify, Clear, BodyEOF, BodyClose, Fail
        <3> QED BY <1>2, <3>1, GotoPoint DEF PoolInv
    <2>2. released' = released
        BY <1>2 DEF GetIdleConn, Dial, DialFails, SetupFails, Count, Write, WriteFails, Enqueue,
            Receive, Notify, Clear, BodyEOF, BodyClose
    <2>3. conn'[q] = conn[q]
        BY <1>2 DEF GetIdleConn, Dial, DialFails, SetupFails, Count, Write, WriteFails, Enqueue,
            Receive, Notify, Clear, BodyEOF, BodyClose, PoolInv, Shapes
    <2>4. fn'[q] = fn[q]
        BY <1>2 DEF GetIdleConn, Dial, DialFails, SetupFails, Count, Write, WriteFails, Enqueue,
            Receive, Notify, Clear, BodyEOF, BodyClose, PoolInv, Shapes
    <2> QED BY <1>1, <2>1, <2>2, <2>3, <2>4 DEF User, Owns
<1>3. CASE GetIdleConn(q) \/ Dial(q) \/ DialFails(q) \/ SetupFails(q) \/ Count(q) \/ Write(q) \/ WriteFails(q)
            \/ Notify(q) \/ Clear(q) \/ Put(q)
    BY <1>1, <1>3 DEF GetIdleConn, Dial, DialFails, SetupFails, Count, Write, WriteFails, Notify, Clear,
        Put, After
<1>4. CASE Enqueue(q) \/ Receive(q) \/ BodyEOF(q) \/ BodyClose(q)
    <2>1. UNCHANGED <<conn, released, fn>>
        BY <1>4 DEF Enqueue, Receive, BodyEOF, BodyClose
    <2>2. \E l \in After : Goto(q, l)
        BY <1>1, <1>4 DEF Enqueue, Receive, BodyEOF, BodyClose, After
    <2>3. pc'[q] \in After
        BY <2>2, GotoPoint DEF PoolInv
    <2> QED BY <1>1, <2>1, <2>3 DEF User, Owns
<1>5. ASSUME NEW r \in Requests, r # q, Put(r) PROVE User(c, q)'
    <2>1. UNCHANGED <<conn, fn>> /\ released' = [released EXCEPT ![r] = TRUE] /\ Goto(r, "notify")
        BY <1>5 DEF Put, PutIdle
    <2>2. released'[q] = released[q] /\ pc'[q] = pc[q]
        BY <1>5, <2>1, GotoPoint DEF PoolInv, Shapes
    <2> QED BY <1>1, <2>1, <2>2 DEF User, Owns
<1>6. ASSUME NEW d \in Conns, Peek(d) \/ CheckExpected(d) \/ TakeRequest(d) \/ ReadFails(d) \/ Deliver(d)
                                 \/ Respond(d) \/ HangUp(d) \/ RespondUnasked(d)
      PROVE  User(c, q)'
    <2>1. UNCHANGED <<pc, conn, released, fn>>
        BY <1>6 DEF Peek, CheckExpected, TakeRequest, ReadFails, Deliver, Respond, HangUp, RespondUnasked
    <2> QED BY <1>1, <2>1 DEF User, Owns
<1>7. ASSUME NEW d \in Conns, CloseLastBody(d) PROVE User(c, q)'
    <2>1. UNCHANGED <<pc, conn, fn>>
        BY <1>7 DEF CloseLastBody
    <2>2. CASE UNCHANGED released
        BY <1>1, <2>1, <2>2 DEF User, Owns
    <2>3. CASE PutIdle(d, lastbody[d]) /\ LoopTo(d, "stuck")
        <3>1. d # c
            BY <2>3, LoopPoint DEF PoolInv
        <3>2. lastbody[d] # q
            BY <1>1, <3>1 DEF PoolInv, LoopsHold, LoopHolds
        <3>3. released'[q] = released[q]
            BY <2>3, <3>2 DEF PutIdle, PoolInv, Shapes
        <3> QED BY <1>1, <2>1, <3>3 DEF User, Owns
    <2> QED BY <1>7, <2>2, <2>3 DEF CloseLastBody
<1>8. ASSUME NEW d \in Conns \ {c}, ReadResponse(d) PROVE User(c, q)'
    <2>1. UNCHANGED <<pc, conn>>
        BY <1>8 DEF ReadResponse
    <2>2. cur[d] \in Requests /\ conn[cur[d]] = d
        BY <1>8 DEF ReadResponse, PoolInv, LoopsHold, LoopHolds, Waits
    <2>3. cur[d] # q
        BY <1>1, <2>2
    <2>4. fn'[q] = fn[q] /\ released'[q] = released[q]
        BY <1>8, <2>3 DEF ReadResponse, PutIdle, PoolInv, Shapes
    <2> QED BY <1>1, <2>1, <2>4 DEF User, Owns
<1>9. CASE CloseIdleConnections
    BY <1>1, <1>9 DEF CloseIdleConnections, User, Owns
<1> QED BY <1>2, <1>3, <1>4, <1>5, <1>6, <1>7, <1>8, <1>9 DEF Next, CallerStep, LoopStep

(* What is under way changes when it is written, answered and read. *)
LEMMA NetSteps ==
    ASSUME PoolInv, Next
    PROVE  \/ UNCHANGED <<toServer, fromServer, unasked>>
           \/ (\E r \in Requests : Write(r)) \/ \E c \in Conns : ReadResponse(c) \/ Respond(c) \/ RespondUnasked(c)
    BY DEF Next, CallerStep, LoopStep, GetIdleConn, Dial, DialFails, SetupFails, Count, WriteFails,
        Enqueue, Receive, Put, Notify, Clear, BodyEOF, BodyClose, Peek, CheckExpected, TakeRequest,
        CloseLastBody, ReadFails, Deliver, HangUp, CloseIdleConnections, netVars

LEMMA StuckStays ==
    ASSUME PoolInv, Next, NEW c \in Conns, loop[c] = "stuck"
    PROVE  loop'[c] = "stuck"
<1>1. PICK l, d : UNCHANGED loop \/ (LoopTo(d, l) /\ (d \in Conns => loop[d] # "stuck"))
    <2>1. ASSUME NEW r \in Requests, Dial(r) PROVE loop[r] # "stuck"
        BY <2>1 DEF Dial, PoolInv, CallersHold
    <2> QED BY ZenonT(30), <2>1, Names DEF Next, CallerStep, LoopStep, GetIdleConn, Dial, DialFails, SetupFails, Count, Write,
        WriteFails, Enqueue, Receive, Put, Notify, Clear, BodyEOF, BodyClose, Peek, CheckExpected,
        TakeRequest, CloseLastBody, ReadResponse, ReadFails, Deliver, Respond, RespondUnasked,
        HangUp, CloseIdleConnections, loopVars
<1> QED BY <1>1 DEF LoopTo, PoolInv, Shapes

LEMMA NextUnderWay ==
    ASSUME PoolInv, OneUnderWay, Next
    PROVE  OneUnderWay'
<1> SUFFICES ASSUME NEW c \in Conns, loop'[c] # "stuck", ~unasked'[c]
             PROVE  Quiet(c)' \/ \E r \in Requests : User(c, r)' /\ UnderWay(c, r)'
    BY DEF OneUnderWay
<1>1. loop[c] # "stuck"
    BY StuckStays
<1>2. ~unasked[c]
    <2>1. CASE \E d \in Conns : RespondUnasked(d)
        BY <2>1 DEF RespondUnasked, PoolInv, Shapes
    <2>2. CASE ~\E d \in Conns : RespondUnasked(d)
        BY <2>2, NetSteps DEF Write, ReadResponse, Respond, loopVars
    <2> QED BY <2>1, <2>2
<1>3. Quiet(c) \/ \E r \in Requests : User(c, r) /\ UnderWay(c, r)
    BY <1>1, <1>2 DEF OneUnderWay
<1>4. CASE toServer'[c] = toServer[c] /\ fromServer'[c] = fromServer[c] /\ ~ReadResponse(c)
    BY <1>3, <1>4, UserStays DEF Quiet, UnderWay
<1>5. ASSUME NEW r \in Requests, Write(r), conn[r] = c, toServer'[c] # toServer[c]
      PROVE  Quiet(c)' \/ \E q \in Requests : User(c, q)' /\ UnderWay(c, q)'
    <2>1. pc[r] = "write" /\ Owns(r, c) /\ ~fn[r]
        BY <1>5 DEF Write, PoolInv, CallersHold, Fresh, Owns
    <2>2. ASSUME NEW q \in Requests, User(c, q) PROVE FALSE
        <3>1. q = r
            BY <1>1, <2>1, <2>2 DEF User, PoolInv, OneUserFlat
        <3> QED BY <2>1, <2>2, <3>1 DEF User, After
    <2>3. Quiet(c)
        BY <1>3, <2>2
    <2>4. toServer'[c] = <<r>> /\ fromServer'[c] = <<>>
        BY <1>5, <2>3 DEF Write, Quiet, PoolInv, Shapes
    <2>5. UNCHANGED <<conn, fn, released>> /\ pc'[r] = "enqueue"
        BY <1>5, GotoPoint DEF Write, PoolInv, bodyVars
    <2> QED BY <2>1, <2>4, <2>5 DEF User, UnderWay, Owns, After
<1>6. CASE ReadResponse(c)
    <2>1. /\ fromServer[c] # <<>> /\ fromServer'[c] = Tail(fromServer[c]) /\ toServer' = toServer
        BY <1>6 DEF ReadResponse, PoolInv, Shapes
    <2>2. toServer[c] = <<>> /\ Len(fromServer[c]) = 1
        BY <1>3, <2>1 DEF Quiet, UnderWay
    <2>3. fromServer[c] \in Seq(Sent)
        BY DEF PoolInv, Shapes
    <2>4. fromServer'[c] = <<>>
        <3>1. \A q \in Seq(Sent) : Len(q) = 1 => Tail(q) \in Seq(Sent) /\ Len(Tail(q)) = 0
            OBVIOUS
        <3>2. \A q \in Seq(Sent) : Len(q) = 0 => q = <<>>
            OBVIOUS
        <3> QED BY <2>1, <2>2, <2>3, <3>1, <3>2
    <2> QED BY <2>1, <2>2, <2>4 DEF Quiet
<1>7. CASE Respond(c)
    <2>1. toServer[c] # <<>>
        BY <1>7 DEF Respond
    <2>2. PICK r \in Requests : User(c, r) /\ toServer[c] = <<r>> /\ fromServer[c] = <<>>
        BY <1>3, <2>1 DEF Quiet, UnderWay
    <2>3. PICK close \in BOOLEAN, body \in Bodies :
              fromServer' = [fromServer EXCEPT ![c] =
                              Append(@, [to |-> Head(toServer[c]), close |-> close, body |-> body])]
        BY <1>7 DEF Respond
    <2>4. fromServer'[c] = Append(<<>>, [to |-> r, close |-> close, body |-> body])
        BY <2>2, <2>3 DEF PoolInv, Shapes
    <2>5. fromServer'[c] = <<[to |-> r, close |-> close, body |-> body]>>
        BY <2>4
    <2>6. Len(fromServer'[c]) = 1 /\ fromServer'[c][1].to = r
        BY <2>5
    <2>7. toServer'[c] = <<>>
        BY <1>7, <2>2 DEF Respond, PoolInv, Shapes
    <2>8. ~ReadResponse(c)
        BY <2>2 DEF ReadResponse
    <2> QED BY <2>2, <2>6, <2>7, <2>8, UserStays DEF UnderWay
<1>8. \/ toServer'[c] = toServer[c] /\ fromServer'[c] = fromServer[c] /\ ~ReadResponse(c)
      \/ \E r \in Requests : Write(r) /\ conn[r] = c /\ toServer'[c] # toServer[c]
      \/ ReadResponse(c) \/ Respond(c)
    <2>1. CASE UNCHANGED <<toServer, fromServer, unasked>>
        BY <2>1
    <2>2. ASSUME NEW r \in Requests, Write(r)
          PROVE  fromServer' = fromServer /\ (conn[r] # c => toServer'[c] = toServer[c])
        BY <2>2 DEF Write, PoolInv, Shapes
    <2>3. ASSUME NEW d \in Conns \ {c}, ReadResponse(d) \/ Respond(d) \/ RespondUnasked(d)
          PROVE  toServer'[c] = toServer[c] /\ fromServer'[c] = fromServer[c]
        BY <2>3 DEF ReadResponse, Respond, RespondUnasked, PoolInv, Shapes
    <2>4. ~RespondUnasked(c)
        BY DEF RespondUnasked, PoolInv, Shapes
    <2> QED BY <2>1, <2>2, <2>3, <2>4, NetSteps
<1> QED BY <1>4, <1>5, <1>6, <1>7, <1>8

LEMMA NextRead ==
    ASSUME PoolInv, OneUnderWay, ReadIsMine, Next
    PROVE  ReadIsMine'
<1> USE DEF callerVars, bodyVars, poolVars, queueVars, loopVars, netVars
<1> SUFFICES ASSUME NEW c \in Conns, loop'[c] = "deliver", result'[c] \in Response
             PROVE  result'[c].to = cur'[c] \/ unasked'[c]
    BY DEF ReadIsMine
<1>1. unasked[c] => unasked'[c]
    BY NetSteps DEF Write, ReadResponse, Respond, RespondUnasked, PoolInv, Shapes
<1>2. CASE ReadResponse(c)
    <2>1. loop[c] = "read" /\ fromServer[c] # <<>> /\ result'[c] = Head(fromServer[c]) /\ UNCHANGED <<cur, unasked>>
        BY <1>2 DEF ReadResponse, PoolInv, Shapes
    <2>2. cur[c] \in Requests /\ Owns(cur[c], c)
        BY <2>1 DEF PoolInv, LoopsHold, LoopHolds, Waits, Fresh, Owns
    <2>3. CASE ~unasked[c]
        <3>1. PICK q \in Requests : Owns(q, c) /\ Len(fromServer[c]) = 1 /\ fromServer[c][1].to = q
            BY <2>1, <2>3 DEF OneUnderWay, Quiet, User, UnderWay
        <3>2. q = cur[c]
            BY <2>1, <2>2, <3>1 DEF PoolInv, OneUserFlat
        <3>3. Head(fromServer[c]) = fromServer[c][1]
            BY <3>1 DEF PoolInv, Shapes
        <3> QED BY <2>1, <3>1, <3>2, <3>3
    <2>4. CASE unasked[c]
        BY <1>1, <2>4
    <2> QED BY <2>3, <2>4
<1>3. CASE ReadFails(c)
    <2>1. result'[c] = Failure
        BY <1>3 DEF ReadFails, PoolInv, Shapes
    <2> QED BY <2>1, Names
<1>4. CASE loop[c] = "deliver" /\ result'[c] = result[c] /\ cur'[c] = cur[c]
    BY <1>1, <1>4 DEF ReadIsMine
<1>5. ReadResponse(c) \/ ReadFails(c) \/ (loop[c] = "deliver" /\ result'[c] = result[c] /\ cur'[c] = cur[c])
    <2>1. ASSUME NEW r \in Requests, CallerStep(r) \/ BodyEOF(r) \/ BodyClose(r)
          PROVE  UNCHANGED <<result, cur>> /\ loop[c] = "deliver"
        <3>1. UNCHANGED <<result, cur>>
            BY <2>1 DEF CallerStep, GetIdleConn, Dial, DialFails, SetupFails, Count, Write, WriteFails,
                Enqueue, Receive, Put, Notify, Clear, BodyEOF, BodyClose
        <3>2. loop' = loop \/ \E d, l : l # "deliver" /\ LoopTo(d, l)
            BY <2>1 DEF CallerStep, GetIdleConn, Dial, DialFails, SetupFails, Count, Write, WriteFails,
                Enqueue, Receive, Put, Notify, Clear, BodyEOF, BodyClose
        <3>3. loop[c] = "deliver"
            BY <3>2 DEF LoopTo, PoolInv, Shapes
        <3> QED BY <3>1, <3>3
    <2>2. ASSUME NEW d \in Conns, LoopStep(d), d # c PROVE loop[c] = "deliver" /\ result'[c] = result[c] /\ cur'[c] = cur[c]
        <3>1. \E l : LoopTo(d, l)
            BY <2>2 DEF LoopStep, Peek, CheckExpected, TakeRequest, CloseLastBody, ReadResponse, ReadFails, Deliver
        <3>2. result'[c] = result[c] /\ cur'[c] = cur[c]
            BY <2>2 DEF LoopStep, Peek, CheckExpected, TakeRequest, CloseLastBody, ReadResponse, ReadFails,
                Deliver, PoolInv, Shapes
        <3> QED BY <2>2, <3>1, <3>2, LoopPoint DEF PoolInv
    <2>3. CASE LoopStep(c) /\ ~ReadResponse(c) /\ ~ReadFails(c)
        <3>1. \E l : l # "deliver" /\ LoopTo(c, l)
            BY <2>3 DEF LoopStep, Peek, CheckExpected, TakeRequest, CloseLastBody, Deliver
        <3> QED BY <3>1, LoopPoint DEF PoolInv
    <2>4. ASSUME (\E d \in Conns : Respond(d) \/ HangUp(d) \/ RespondUnasked(d)) \/ CloseIdleConnections
          PROVE  UNCHANGED <<loop, result, cur>>
        BY <2>4 DEF Respond, HangUp, RespondUnasked, CloseIdleConnections
    <2> QED BY <2>1, <2>2, <2>3, <2>4 DEF Next
<1> QED BY <1>2, <1>3, <1>4, <1>5

LEMMA NextReply ==
    ASSUME PoolInv, ReadIsMine, ReplyIsMine, Next
    PROVE  ReplyIsMine'
<1> USE DEF callerVars, bodyVars, poolVars, queueVars, loopVars, netVars
<1> SUFFICES ASSUME NEW r \in Requests, reply'[r] \in Response
             PROVE  conn'[r] \in Conns /\ (reply'[r].to = r \/ unasked'[conn'[r]])
    BY DEF ReplyIsMine
<1>1. \A c \in Conns : unasked[c] => unasked'[c]
    BY NetSteps DEF Write, ReadResponse, Respond, RespondUnasked, PoolInv, Shapes
<1>2. ASSUME NEW c \in Conns, Deliver(c), cur[c] = r
      PROVE  conn'[r] \in Conns /\ (reply'[r].to = r \/ unasked'[conn'[r]])
    <2>1. reply'[r] = result[c] /\ UNCHANGED <<conn, unasked>> /\ loop[c] = "deliver"
        BY <1>2 DEF Deliver, PoolInv, Shapes
    <2>2. conn[r] = c
        BY <1>2, <2>1 DEF PoolInv, LoopsHold, LoopHolds
    <2> QED BY <1>2, <2>1, <2>2 DEF ReadIsMine
<1>3. CASE \A c \in Conns : ~(Deliver(c) /\ cur[c] = r)
    <2>1. reply'[r] = reply[r]
        <3>1. \/ UNCHANGED reply
              \/ \E q \in Requests : reply' = [reply EXCEPT ![q] = Failure]
              \/ \E c \in Conns : Deliver(c)
            BY DEF Next, CallerStep, LoopStep, GetIdleConn, Dial, DialFails, SetupFails, Count, Write,
                WriteFails, Enqueue, Receive, Put, Notify, Clear, BodyEOF, BodyClose, Peek, CheckExpected,
                TakeRequest, CloseLastBody, ReadResponse, ReadFails, Respond, RespondUnasked,
                HangUp, CloseIdleConnections, Fail
        <3>2. ASSUME NEW c \in Conns, Deliver(c) PROVE reply'[r] = reply[r]
            BY <1>3, <3>2 DEF Deliver, PoolInv, Shapes
        <3>3. ASSUME NEW q \in Requests, reply' = [reply EXCEPT ![q] = Failure] PROVE reply'[r] = reply[r]
            BY <3>3, Names DEF PoolInv, Shapes
        <3> QED BY <3>1, <3>2, <3>3
    <2>2. conn[r] \in Conns /\ (reply[r].to = r \/ unasked[conn[r]]) /\ reply[r] # NoReply
        BY <2>1, Names DEF ReplyIsMine
    <2>3. conn'[r] = conn[r]
        <3>1. UNCHANGED conn \/ \E q \in Requests : GetIdleConn(q) \/ Dial(q)
            BY DEF Next, CallerStep, LoopStep, DialFails, SetupFails, Count, Write,
                WriteFails, Enqueue, Receive, Put, Notify, Clear, BodyEOF, BodyClose, Peek, CheckExpected,
                TakeRequest, CloseLastBody, ReadResponse, ReadFails, Deliver, Respond, RespondUnasked,
                HangUp, CloseIdleConnections
        <3>2. ASSUME NEW q \in Requests, GetIdleConn(q) \/ Dial(q) PROVE conn'[r] = conn[r]
            <4>1. q # r
                BY <2>2, <3>2 DEF GetIdleConn, Dial, PoolInv, CallersHold, Fresh
            <4> QED BY <3>2, <4>1 DEF GetIdleConn, Dial, PoolInv, Shapes
        <3> QED BY <3>1, <3>2
    <2> QED BY <1>1, <2>1, <2>2, <2>3
<1> QED BY <1>2, <1>3

LEMMA InitAnswer == Init => AnswerInv
<1> SUFFICES ASSUME Init PROVE OneUnderWay /\ ReadIsMine /\ ReplyIsMine
    BY InitPool DEF AnswerInv
<1>1. /\ reply = [r \in Requests |-> NoReply] /\ loop = [c \in Conns |-> "none"]
      /\ toServer = [c \in Conns |-> <<>>] /\ fromServer = [c \in Conns |-> <<>>]
    BY DEF Init
<1> QED BY <1>1, Names DEF OneUnderWay, Quiet, ReadIsMine, ReplyIsMine

LEMMA NextAnswer == AnswerInv /\ [Next]_vars => AnswerInv'
<1> SUFFICES ASSUME AnswerInv, [Next]_vars PROVE OneUnderWay' /\ ReadIsMine' /\ ReplyIsMine'
    BY NextPool DEF AnswerInv
<1>1. CASE UNCHANGED vars
    BY <1>1 DEF AnswerInv, vars, callerVars, bodyVars, loopVars, netVars, OneUnderWay, Quiet, User, UnderWay,
        Owns, ReadIsMine, ReplyIsMine
<1>2. CASE Next
    BY <1>2, NextUnderWay, NextRead, NextReply DEF AnswerInv
<1> QED BY <1>1, <1>2

(* AnswerIsMine for every number of requests and hosts and every size of the pool: the
   response a caller gets is the one to its request, whoever used the connection before. *)
THEOREM AnswersAreMine == Spec => []AnswerIsMine
<1>1. AnswerInv => AnswerIsMine
    BY DEF AnswerInv, ReplyIsMine, AnswerIsMine
<1> QED BY InitAnswer, NextAnswer, <1>1, PTL DEF Spec
-----------------------------------------------------------------------------
(* Where the transport may stop *)

NetShapes ==
    /\ sock \in [Conns -> {"none", "open", "closed"}] /\ hungUp \in [Conns -> BOOLEAN]
    /\ alive \in [Conns -> BOOLEAN]

(* While readLoop waits for a body to be read, the callback of that body is set and whoever
   reads it has the connection; and whoever has a callback to run, readLoop waits for it. *)
BodyOf(c, r) ==
    /\ r \in Requests /\ conn[r] = c /\ fn[r] /\ reply[r] # NoReply
    /\ pc[r] \in {"wait", "body", "put", "notify", "done"}
    /\ pc[r] # "notify" => ~released[r]
LoopReady(c) ==
    /\ loop[c] \in {"none", "peek", "check", "take", "closelast", "read"} => alive[c]
    /\ loop[c] = "read" => lastbody[c] = Nobody
    /\ loop[c] = "deliver" =>
          /\ result[c] # NoReply
          /\ fn[cur[c]] => alive[c] /\ lastbody[c] = cur[c]
          /\ lastbody[c] = cur[c] => fn[cur[c]]
    /\ loop[c] = "waitbody" => BodyOf(c, cur[c])
Reads(r) ==
    fn[r] /\ (pc[r] \in {"body", "put", "notify"} \/ (pc[r] = "wait" /\ reply[r] # NoReply))
CallbackHeard(r) ==
    /\ pc[r] = "notify" => fn[r]
    /\ Reads(r) => loop[conn[r]] = "waitbody" /\ cur[conn[r]] = r
BodyInv == (\A c \in Conns : LoopReady(c)) /\ \A r \in Requests : CallbackHeard(r)

(* A request that waits is before readLoop or with it. *)
Running(c) == loop[c] \notin {"gone", "stuck"}
Unanswered(r, c) == conn[r] = c /\ pc[r] = "wait" /\ reply[r] = NoReply
Queued(r, c) == \E i \in DOMAIN reqch[c] : reqch[c][i] = r
TookUp ==
    \A r \in Requests, c \in Conns :
        Unanswered(r, c) /\ Running(c) =>
            Queued(r, c) \/ (cur[c] = r /\ loop[c] \in {"closelast", "read", "deliver"})

(* A request that was written and whose response was not read is with the server, or the
   response to it, or to another, has come back: unless the connection is broken. *)
Pending(r, c) ==
    \/ conn[r] = c /\ pc[r] = "enqueue"
    \/ Unanswered(r, c) /\ ~(loop[c] = "deliver" /\ cur[c] = r)
OnTheWay ==
    \A r \in Requests, c \in Conns :
        Pending(r, c) /\ Running(c) /\ Reaches(c) => toServer[c] # <<>> \/ fromServer[c] # <<>>

StopInv == PoolInv /\ NetShapes /\ BodyInv /\ TookUp /\ OnTheWay

LEMMA InitStop == Init => StopInv
<1> SUFFICES ASSUME Init PROVE NetShapes /\ BodyInv /\ TookUp /\ OnTheWay
    BY InitPool DEF StopInv
<1>1. /\ pc = [r \in Requests |-> "start"] /\ fn = [r \in Requests |-> FALSE]
      /\ loop = [c \in Conns |-> "none"] /\ alive = [c \in Conns |-> TRUE]
      /\ sock = [c \in Conns |-> "none"] /\ hungUp = [c \in Conns |-> FALSE]
    BY DEF Init
<1>2. NetShapes
    BY <1>1 DEF NetShapes
<1>3. BodyInv
    BY <1>1 DEF BodyInv, LoopReady, CallbackHeard, Reads
<1>4. TookUp /\ OnTheWay
    BY <1>1 DEF TookUp, OnTheWay, Unanswered, Pending
<1> QED BY <1>2, <1>3, <1>4

LEMMA NextNetShapes ==
    ASSUME PoolInv, NetShapes, Next
    PROVE  NetShapes'
<1> USE DEF poolVars, loopVars, netVars
<1>n. Conns = Requests
    BY Names
<1>1. sock' \in [Conns -> {"none", "open", "closed"}]
    <2>1. \/ UNCHANGED sock \/ \E c : sock' = [sock EXCEPT ![c] = "closed"]
          \/ \E c : sock' = [sock EXCEPT ![c] = "open"]
          \/ CloseIdleConnections
        BY ZenonT(30) DEF Next, CallerStep, LoopStep, GetIdleConn, Dial, DialFails, SetupFails, Count, Write, WriteFails,
            Enqueue, Receive, Put, Notify, Clear, BodyEOF, BodyClose, Peek, CheckExpected, TakeRequest,
            CloseLastBody, ReadResponse, ReadFails, Deliver, Respond, HangUp, RespondUnasked, PutIdle, CloseConn
    <2>2. CASE CloseIdleConnections
        <3>1. PICK pooled \in SUBSET Conns :
                  sock' = [c \in Conns |-> IF c \in pooled THEN "closed" ELSE sock[c]]
            BY <2>2 DEF CloseIdleConnections
        <3> QED BY <3>1 DEF NetShapes
    <2> QED BY <2>1, <2>2 DEF NetShapes
<1>2. hungUp' \in [Conns -> BOOLEAN]
    <2>1. ASSUME NEW c \in Conns, Respond(c) PROVE hungUp' \in [Conns -> BOOLEAN]
        BY <2>1 DEF Respond, NetShapes
    <2>2. UNCHANGED hungUp \/ (\E c \in Conns : HangUp(c) \/ Respond(c))
        BY DEF Next, CallerStep, LoopStep, GetIdleConn, Dial, DialFails, SetupFails, Count, Write, WriteFails,
            Enqueue, Receive, Put, Notify, Clear, BodyEOF, BodyClose, Peek, CheckExpected, TakeRequest,
            CloseLastBody, ReadResponse, ReadFails, Deliver, RespondUnasked, CloseIdleConnections
    <2> QED BY <2>1, <2>2 DEF HangUp, NetShapes
<1>3. alive' \in [Conns -> BOOLEAN]
    <2>1. \A c : Kept(c) \in BOOLEAN
        BY DEF Kept
    <2>2. UNCHANGED alive \/ \E c : \E b \in BOOLEAN : alive' = [alive EXCEPT ![c] = b]
        BY <2>1, ZenonT(30) DEF Next, CallerStep, LoopStep, GetIdleConn, Dial, DialFails, SetupFails, Count, Write, WriteFails,
            Enqueue, Receive, Put, Notify, Clear, BodyEOF, BodyClose, Peek, CheckExpected, TakeRequest,
            CloseLastBody, ReadResponse, ReadFails, Deliver, Respond, HangUp, RespondUnasked, CloseIdleConnections
    <2> QED BY <2>2 DEF NetShapes
<1> QED BY <1>1, <1>2, <1>3 DEF NetShapes
(* A caller before its answer is neither served nor read from. *)
LEMMA EarlyBody ==
    ASSUME PoolInv, BodyInv, NEW r \in Requests,
           GetIdleConn(r) \/ Dial(r) \/ DialFails(r) \/ SetupFails(r) \/ Count(r) \/ Write(r) \/ WriteFails(r)
             \/ Enqueue(r)
    PROVE  BodyInv'
<1> USE DEF callerVars, bodyVars, poolVars, queueVars, loopVars, netVars
<1>n. Conns = Requests
    BY Names
<1>1. pc[r] \in {"start", "dial", "count", "write", "enqueue"} /\ ~fn[r] /\ reply[r] = NoReply
    BY DEF GetIdleConn, Dial, DialFails, SetupFails, Count, Write, WriteFails, Enqueue, PoolInv, CallersHold, Fresh
<1>2. PICK l \in {"count", "dial", "done", "write", "enqueue", "wait"} : Goto(r, l)
    BY DEF GetIdleConn, Dial, DialFails, SetupFails, Count, Write, WriteFails, Enqueue, Fail
<1>3. pc'[r] = l /\ \A q \in Requests \ {r} : pc'[q] = pc[q]
    BY <1>2, GotoPoint DEF PoolInv
<1>4. UNCHANGED <<fn, released, cur, lastbody, alive, result>>
    BY DEF GetIdleConn, Dial, DialFails, SetupFails, Count, Write, WriteFails, Enqueue
<1>5. \A q \in Requests \ {r} : conn'[q] = conn[q] /\ reply'[q] = reply[q]
    BY DEF GetIdleConn, Dial, DialFails, SetupFails, Count, Write, WriteFails, Enqueue, Fail, PoolInv, Shapes
<1>6. \A c \in Conns : loop'[c] = loop[c] \/ (loop[c] = "none" /\ loop'[c] = "peek")
    <2>1. CASE Dial(r)
        <3>1. loop[r] = "none" /\ LoopTo(r, "peek")
            BY <2>1 DEF Dial, PoolInv, CallersHold
        <3> QED BY <1>n, <3>1, LoopPoint DEF PoolInv
    <2>2. CASE ~Dial(r)
        BY <2>2 DEF GetIdleConn, DialFails, SetupFails, Count, Write, WriteFails, Enqueue
    <2> QED BY <2>1, <2>2
<1>7. ASSUME NEW c \in Conns PROVE LoopReady(c)'
    <2>1. LoopReady(c)
        BY DEF BodyInv
    <2>2. loop[c] = "waitbody" => BodyOf(c, cur[c]) /\ cur[c] # r
        BY <1>1, <2>1 DEF LoopReady, BodyOf
    <2>3. loop[c] = "waitbody" => BodyOf(c, cur[c])'
        BY <1>3, <1>4, <1>5, <2>2 DEF BodyOf
    <2> QED BY <1>4, <1>6, <2>1, <2>3 DEF LoopReady
<1>8. ASSUME NEW q \in Requests \ {r} PROVE CallbackHeard(q)'
    <2>1. CallbackHeard(q) /\ (Reads(q)' <=> Reads(q))
        BY <1>3, <1>4, <1>5 DEF BodyInv, Reads
    <2>2. Reads(q) => conn[q] \in Conns
        BY DEF Reads, PoolInv, CallersHold
    <2> QED BY <1>3, <1>4, <1>5, <1>6, <2>1, <2>2 DEF CallbackHeard
<1>9. CallbackHeard(r)'
    BY <1>1, <1>3, <1>4 DEF CallbackHeard, Reads
<1> QED BY <1>7, <1>8, <1>9 DEF BodyInv

(* The reader of a body, up to its callback. *)
LEMMA ReaderBody ==
    ASSUME PoolInv, BodyInv, NEW r \in Requests,
           Receive(r) \/ BodyEOF(r) \/ BodyClose(r) \/ Clear(r)
    PROVE  BodyInv'
<1> USE DEF bodyVars, poolVars, queueVars, loopVars
<1>1. /\ UNCHANGED <<conn, reply, released, loop, cur, lastbody, alive, result>>
      /\ \/ pc[r] = "wait" /\ reply[r] # NoReply /\ fn' = fn /\ \E l \in {"body", "done"} : Goto(r, l)
         \/ pc[r] = "body" /\ fn' = fn /\ (Goto(r, "done") \/ (fn[r] /\ Goto(r, "put")))
         \/ pc[r] = "clear" /\ fn' = [fn EXCEPT ![r] = FALSE] /\ Goto(r, "done")
    BY DEF Receive, BodyEOF, BodyClose, Clear
<1>2. /\ pc'[r] \in {"body", "done", "put"} /\ \A q \in Requests \ {r} : pc'[q] = pc[q]
      /\ pc'[r] = "body" => pc[r] = "wait" /\ reply[r] # NoReply
      /\ pc'[r] = "put" => pc[r] = "body" /\ fn[r]
    <2>1. PICK l \in {"body", "done", "put"} :
              /\ Goto(r, l) /\ (l = "body" => pc[r] = "wait" /\ reply[r] # NoReply)
              /\ l = "put" => pc[r] = "body" /\ fn[r]
        BY <1>1
    <2> QED BY <2>1, GotoPoint DEF PoolInv
<1>3. /\ \A q \in Requests \ {r} : fn'[q] = fn[q]
      /\ fn'[r] = fn[r] \/ pc[r] = "clear"
    BY <1>1 DEF PoolInv, Shapes
<1>4. ASSUME NEW c \in Conns PROVE LoopReady(c)'
    <2>1. LoopReady(c)
        BY DEF BodyInv
    <2>2. loop[c] = "deliver" => cur[c] \in Requests /\ pc[cur[c]] = "wait"
        BY DEF PoolInv, LoopsHold, LoopHolds
    <2>3. loop[c] = "deliver" => fn'[cur[c]] = fn[cur[c]]
        BY <1>1, <1>3, <2>2
    <2>4. loop[c] = "waitbody" => BodyOf(c, cur[c])'
        BY <1>1, <1>2, <1>3, <2>1 DEF LoopReady, BodyOf
    <2> QED BY <1>1, <2>1, <2>3, <2>4 DEF LoopReady
<1>5. ASSUME NEW q \in Requests PROVE CallbackHeard(q)'
    <2>1. CallbackHeard(q)
        BY DEF BodyInv
    <2>2. Reads(q)' => Reads(q)
        BY <1>1, <1>2, <1>3 DEF Reads
    <2>3. pc'[q] = "notify" => q # r
        BY <1>2
    <2> QED BY <1>1, <1>2, <1>3, <2>1, <2>2, <2>3 DEF CallbackHeard
<1> QED BY <1>4, <1>5 DEF BodyInv

LEMMA PutBody ==
    ASSUME PoolInv, BodyInv, NetShapes, NEW r \in Requests, Put(r)
    PROVE  BodyInv'
<1> USE DEF bodyVars, queueVars
<1>0. PICK c \in Conns : c = conn[r]
    BY DEF Put, PoolInv, CallersHold
<1>1. pc[r] = "put" /\ fn[r] /\ loop[c] = "waitbody" /\ cur[c] = r
    BY <1>0 DEF Put, PoolInv, CallersHold, BodyInv, CallbackHeard, Reads
<1>2. /\ UNCHANGED <<conn, reply, fn, loop, cur, lastbody, result>>
      /\ \A q \in Requests \ {r} : released'[q] = released[q]
      /\ \A d \in Conns \ {c} : alive'[d] = alive[d]
    BY <1>0 DEF Put, PutIdle, PoolInv, Shapes, NetShapes
<1>3. pc'[r] = "notify" /\ \A q \in Requests \ {r} : pc'[q] = pc[q]
    BY GotoPoint DEF Put, PoolInv
<1>4. LoopReady(c)'
    BY <1>1, <1>2, <1>3 DEF BodyInv, LoopReady, BodyOf
<1>5. ASSUME NEW d \in Conns \ {c} PROVE LoopReady(d)'
    <2>1. LoopReady(d)
        BY DEF BodyInv
    <2>2. loop[d] = "waitbody" => cur[d] # r
        BY <1>0, <2>1 DEF LoopReady, BodyOf
    <2>3. loop[d] = "waitbody" => BodyOf(d, cur[d])'
        BY <1>2, <1>3, <2>1, <2>2 DEF LoopReady, BodyOf
    <2> QED BY <1>2, <2>1, <2>3 DEF LoopReady
<1>6. ASSUME NEW q \in Requests PROVE CallbackHeard(q)'
    <2>1. CallbackHeard(q) /\ (Reads(q)' => Reads(q))
        BY <1>1, <1>2, <1>3 DEF BodyInv, Reads
    <2> QED BY <1>1, <1>2, <1>3, <2>1 DEF CallbackHeard
<1> QED BY <1>4, <1>5, <1>6 DEF BodyInv

LEMMA NotifyBody ==
    ASSUME PoolInv, BodyInv, NEW r \in Requests, Notify(r)
    PROVE  BodyInv'
<1> USE DEF bodyVars, poolVars, queueVars
<1>0. PICK c \in Conns : c = conn[r]
    BY DEF Notify, PoolInv, CallersHold
<1>1. pc[r] = "notify" /\ fn[r] /\ loop[c] = "waitbody" /\ cur[c] = r
    BY <1>0 DEF Notify, BodyInv, CallbackHeard, Reads
<1>2. UNCHANGED <<conn, reply, fn, released, cur, lastbody, alive, result>>
    BY DEF Notify
<1>3. pc'[r] = "clear" /\ \A q \in Requests \ {r} : pc'[q] = pc[q]
    BY GotoPoint DEF Notify, PoolInv
<1>4. /\ loop'[c] = (IF alive[c] THEN "peek" ELSE "gone")
      /\ \A d \in Conns \ {c} : loop'[d] = loop[d]
    BY <1>0, LoopPoint DEF Notify, PoolInv
<1>5. LoopReady(c)'
    BY <1>2, <1>4 DEF LoopReady
<1>6. ASSUME NEW d \in Conns \ {c} PROVE LoopReady(d)'
    <2>1. LoopReady(d)
        BY DEF BodyInv
    <2>2. loop[d] = "waitbody" => cur[d] # r
        BY <1>0, <2>1 DEF LoopReady, BodyOf
    <2>3. loop[d] = "waitbody" => BodyOf(d, cur[d])'
        BY <1>2, <1>3, <2>1, <2>2 DEF LoopReady, BodyOf
    <2> QED BY <1>2, <1>4, <2>1, <2>3 DEF LoopReady
<1>7. ASSUME NEW q \in Requests \ {r} PROVE CallbackHeard(q)'
    <2>1. CallbackHeard(q) /\ (Reads(q)' <=> Reads(q))
        BY <1>2, <1>3 DEF BodyInv, Reads
    <2>2. Reads(q) => conn[q] \in Conns /\ conn[q] # c
        <3>1. Reads(q) => conn[q] \in Conns
            BY DEF Reads, PoolInv, CallersHold
        <3>2. Reads(q) => cur[conn[q]] = q
            BY <2>1 DEF CallbackHeard
        <3> QED BY <1>1, <3>1, <3>2
    <2> QED BY <1>2, <1>3, <1>4, <2>1, <2>2 DEF CallbackHeard
<1>8. CallbackHeard(r)'
    BY <1>3 DEF CallbackHeard, Reads
<1> QED BY <1>5, <1>6, <1>7, <1>8 DEF BodyInv
(* The steps of readLoop before it reads. *)
LEMMA BeforeBody ==
    ASSUME PoolInv, BodyInv, NEW c \in Conns,
           Peek(c) \/ CheckExpected(c) \/ TakeRequest(c) \/ CloseLastBody(c)
    PROVE  BodyInv'
<1> USE DEF callerVars, bodyVars, poolVars, queueVars, netVars
<1>1. /\ UNCHANGED <<pc, conn, reply, fn, alive, result>>
      /\ loop[c] \in {"peek", "check", "take", "closelast"}
    BY DEF Peek, CheckExpected, TakeRequest, CloseLastBody
<1>2. PICK l \in {"check", "gone", "take", "read", "closelast", "stuck"} :
          /\ LoopTo(c, l)
          /\ l = "read" => IF loop[c] = "take" THEN lastbody[c] = Nobody /\ lastbody' = lastbody
                                              ELSE lastbody' = [lastbody EXCEPT ![c] = Nobody]
    BY DEF Peek, CheckExpected, TakeRequest, CloseLastBody
<1>3. loop'[c] = l /\ \A d \in Conns \ {c} : loop'[d] = loop[d]
    BY <1>2, LoopPoint DEF PoolInv
<1>4. \A d \in Conns \ {c} : cur'[d] = cur[d] /\ lastbody'[d] = lastbody[d]
    BY DEF Peek, CheckExpected, TakeRequest, CloseLastBody, PoolInv, Shapes
<1>5. released' = released \/ (released' = [released EXCEPT ![lastbody[c]] = TRUE])
    BY DEF Peek, CheckExpected, TakeRequest, CloseLastBody, PutIdle
<1>6. LoopReady(c)'
    <2>1. alive[c]
        BY <1>1 DEF BodyInv, LoopReady
    <2>2. l = "read" => lastbody'[c] = Nobody
        BY <1>2 DEF PoolInv, Shapes
    <2> QED BY <1>1, <1>2, <1>3, <2>1, <2>2 DEF LoopReady
<1>7. ASSUME NEW d \in Conns \ {c} PROVE LoopReady(d)'
    <2>1. LoopReady(d)
        BY DEF BodyInv
    <2>2. loop[d] = "waitbody" => cur[d] \in Requests /\ cur[d] # lastbody[c]
        <3>1. lastbody[c] \in Requests => conn[lastbody[c]] = c
            BY DEF PoolInv, LoopsHold, LoopHolds
        <3> QED BY <2>1, <3>1 DEF LoopReady, BodyOf
    <2>3. loop[d] = "waitbody" => released'[cur[d]] = released[cur[d]]
        BY <1>5, <2>2 DEF PoolInv, Shapes
    <2>4. loop[d] = "waitbody" => BodyOf(d, cur[d])'
        BY <1>1, <1>4, <2>1, <2>3 DEF LoopReady, BodyOf
    <2> QED BY <1>1, <1>3, <1>4, <2>1, <2>4 DEF LoopReady
<1>8. ASSUME NEW q \in Requests PROVE CallbackHeard(q)'
    <2>1. CallbackHeard(q) /\ (Reads(q)' <=> Reads(q))
        BY <1>1 DEF BodyInv, Reads
    <2>2. Reads(q) => conn[q] \in Conns
        BY DEF Reads, PoolInv, CallersHold
    <2>3. Reads(q) => conn[q] # c
        BY <1>1, <2>1 DEF CallbackHeard
    <2> QED BY <1>1, <1>3, <1>4, <2>1, <2>2, <2>3 DEF CallbackHeard
<1> QED BY <1>6, <1>7, <1>8 DEF BodyInv

(* What a server sends is not the empty answer. *)
LEMMA SomeReply == \A res \in Sent : res # NoReply
<1>1. Unasked # NoReply
    <2>1. Unasked.body = "none" /\ NoReply.body = "nothing yet"
        BY Zenon DEF Unasked, NoReply
    <2> QED BY <2>1
<1> QED BY <1>1, Names DEF Sent

LEMMA ReadBody ==
    ASSUME PoolInv, BodyInv, NetShapes, NEW c \in Conns, ReadResponse(c) \/ ReadFails(c)
    PROVE  BodyInv'
<1> USE DEF callerVars, queueVars
<1>1. UNCHANGED <<pc, conn, reply, cur>> /\ loop[c] = "read"
    BY DEF ReadResponse, ReadFails
<1>2. loop'[c] = "deliver" /\ \A d \in Conns \ {c} : loop'[d] = loop[d]
    BY LoopPoint DEF ReadResponse, ReadFails, PoolInv
<1>3. PICK r \in Requests : r = cur[c] /\ Waits(r, c)
    BY <1>1 DEF PoolInv, LoopsHold, LoopHolds
<1>4. conn[r] = c /\ pc[r] = "wait" /\ ~fn[r] /\ reply[r] = NoReply /\ lastbody[c] = Nobody /\ alive[c]
    BY <1>1, <1>3 DEF Waits, Fresh, BodyInv, LoopReady
<1>5. \A d \in Conns \ {c} : alive'[d] = alive[d] /\ lastbody'[d] = lastbody[d] /\ result'[d] = result[d]
    BY DEF ReadResponse, ReadFails, PoolInv, Shapes, NetShapes
<1>6. \A q \in Requests \ {r} : fn'[q] = fn[q] /\ released'[q] = released[q]
    BY <1>3 DEF ReadResponse, ReadFails, PutIdle, bodyVars, PoolInv, Shapes
<1>7. result'[c] # NoReply
    <2>1. CASE ReadFails(c)
        <3>1. result'[c] = Failure
            BY <2>1 DEF ReadFails, PoolInv, Shapes
        <3> QED BY <3>1, Names
    <2>2. CASE ReadResponse(c)
        <3>1. fromServer[c] \in Seq(Sent) /\ fromServer[c] # <<>> /\ result'[c] = Head(fromServer[c])
            BY <2>2 DEF ReadResponse, PoolInv, Shapes
        <3>2. Head(fromServer[c]) \in Sent
            BY <3>1
        <3> QED BY <3>1, <3>2, SomeReply
    <2> QED BY <2>1, <2>2
<1>8. \/ fn'[r] = fn[r] /\ lastbody' = lastbody
      \/ fn'[r] = TRUE /\ lastbody'[c] = r /\ alive'[c] = alive[c]
    BY <1>3 DEF ReadResponse, ReadFails, bodyVars, PoolInv, Shapes
<1>9. LoopReady(c)'
    <2>1. Nobody # r
        BY Names
    <2> QED BY <1>1, <1>2, <1>3, <1>4, <1>7, <1>8, <2>1 DEF LoopReady
<1>10. ASSUME NEW d \in Conns \ {c} PROVE LoopReady(d)'
    <2>1. LoopReady(d)
        BY DEF BodyInv
    <2>2. loop[d] \in {"waitbody", "deliver"} => cur[d] \in Requests \ {r}
        BY <1>4, <2>1 DEF LoopReady, BodyOf, PoolInv, LoopsHold, LoopHolds
    <2>3. loop[d] = "waitbody" => BodyOf(d, cur[d])'
        BY <1>1, <1>6, <2>1, <2>2 DEF LoopReady, BodyOf
    <2> QED BY <1>1, <1>2, <1>5, <1>6, <2>1, <2>2, <2>3 DEF LoopReady
<1>11. ASSUME NEW q \in Requests \ {r} PROVE CallbackHeard(q)'
    <2>1. CallbackHeard(q) /\ (Reads(q)' <=> Reads(q))
        BY <1>1, <1>6 DEF BodyInv, Reads
    <2>2. Reads(q) => conn[q] \in Conns
        BY DEF Reads, PoolInv, CallersHold
    <2>3. Reads(q) => conn[q] # c
        BY <1>1, <2>1 DEF CallbackHeard
    <2> QED BY <1>1, <1>2, <1>6, <2>1, <2>2, <2>3 DEF CallbackHeard
<1>12. CallbackHeard(r)'
    BY <1>1, <1>4 DEF CallbackHeard, Reads
<1> QED BY <1>9, <1>10, <1>11, <1>12 DEF BodyInv

LEMMA DeliverBody ==
    ASSUME PoolInv, BodyInv, NEW c \in Conns, Deliver(c)
    PROVE  BodyInv'
<1>1. UNCHANGED <<pc, conn, fn, released, cur, lastbody, alive, result>> /\ loop[c] = "deliver"
    BY DEF Deliver, bodyVars, poolVars, queueVars, netVars
<1>2. PICK r \in Requests :
          /\ r = cur[c] /\ conn[r] = c /\ pc[r] = "wait" /\ reply[r] = NoReply
    BY <1>1 DEF PoolInv, LoopsHold, LoopHolds
<1>3. reply'[r] = result[c] /\ \A q \in Requests \ {r} : reply'[q] = reply[q]
    BY <1>2 DEF Deliver, PoolInv, Shapes
<1>4. LoopReady(c) /\ result[c] # NoReply
    BY <1>1 DEF BodyInv, LoopReady
<1>5. /\ loop'[c] = (IF ~alive[c] THEN "gone" ELSE IF lastbody[c] = cur[c] THEN "waitbody" ELSE "peek")
      /\ \A d \in Conns \ {c} : loop'[d] = loop[d]
    BY LoopPoint DEF Deliver, PoolInv
<1>6. fn[r] => ~released[r]
    BY <1>1, <1>2 DEF PoolInv, CallersHold
<1>7. LoopReady(c)'
    <2>1. loop'[c] = "waitbody" => BodyOf(c, r)'
        BY <1>1, <1>2, <1>3, <1>4, <1>5, <1>6 DEF LoopReady, BodyOf
    <2> QED BY <1>1, <1>2, <1>5, <2>1 DEF LoopReady
<1>8. ASSUME NEW d \in Conns \ {c} PROVE LoopReady(d)'
    <2>1. LoopReady(d)
        BY DEF BodyInv
    <2>2. loop[d] = "waitbody" => cur[d] # r
        BY <1>2, <2>1 DEF LoopReady, BodyOf
    <2>3. loop[d] = "waitbody" => BodyOf(d, cur[d])'
        BY <1>1, <1>3, <2>1, <2>2 DEF LoopReady, BodyOf
    <2> QED BY <1>1, <1>5, <2>1, <2>3 DEF LoopReady
<1>9. ASSUME NEW q \in Requests \ {r} PROVE CallbackHeard(q)'
    <2>1. CallbackHeard(q) /\ (Reads(q)' <=> Reads(q))
        BY <1>1, <1>3 DEF BodyInv, Reads
    <2>2. Reads(q) => conn[q] \in Conns
        BY DEF Reads, PoolInv, CallersHold
    <2>3. Reads(q) => conn[q] # c
        BY <1>1, <2>1 DEF CallbackHeard
    <2> QED BY <1>1, <1>5, <2>1, <2>2, <2>3 DEF CallbackHeard
<1>10. CallbackHeard(r)'
    <2>1. fn[r] => loop'[c] = "waitbody"
        BY <1>1, <1>2, <1>4, <1>5 DEF LoopReady
    <2> QED BY <1>1, <1>2, <2>1 DEF CallbackHeard, Reads
<1> QED BY <1>7, <1>8, <1>9, <1>10 DEF BodyInv

LEMMA NextBody ==
    ASSUME PoolInv, NetShapes, BodyInv, Next
    PROVE  BodyInv'
<1>1. ASSUME (\E c \in Conns : Respond(c) \/ HangUp(c) \/ RespondUnasked(c)) \/ CloseIdleConnections
      PROVE  BodyInv'
    <2>1. UNCHANGED <<pc, conn, reply, fn, released, loop, cur, lastbody, alive, result>>
        BY <1>1 DEF Respond, HangUp, RespondUnasked, CloseIdleConnections, callerVars, bodyVars, loopVars
    <2> QED BY <2>1 DEF BodyInv, LoopReady, BodyOf, CallbackHeard, Reads
<1> QED BY <1>1, EarlyBody, ReaderBody, PutBody, NotifyBody, BeforeBody, ReadBody, DeliverBody
        DEF Next, CallerStep, LoopStep
(* What a connection is not yet, or no more. *)
LEMMA RunningBefore ==
    ASSUME PoolInv, Next, NEW c \in Conns, Running(c)'
    PROVE  Running(c)
<1>1. PICK l, d : UNCHANGED loop \/ (LoopTo(d, l) /\ (d \in Conns => loop[d] # "gone"))
    <2>1. ASSUME NEW r \in Requests, Dial(r) PROVE loop[r] # "gone"
        BY <2>1 DEF Dial, PoolInv, CallersHold
    <2> QED BY ZenonT(30), <2>1, Names DEF Next, CallerStep, LoopStep, GetIdleConn, Dial, DialFails, SetupFails, Count, Write,
        WriteFails, Enqueue, Receive, Put, Notify, Clear, BodyEOF, BodyClose, Peek, CheckExpected,
        TakeRequest, CloseLastBody, ReadResponse, ReadFails, Deliver, Respond, RespondUnasked,
        HangUp, CloseIdleConnections, loopVars
<1>2. loop[c] # "gone"
    BY <1>1 DEF LoopTo, Running, PoolInv, Shapes
<1> QED BY <1>2, StuckStays DEF Running

LEMMA ReachesBefore ==
    ASSUME PoolInv, NetShapes, Next, NEW c \in Conns, Reaches(c)', loop[c] # "none"
    PROVE  Reaches(c)
<1> USE DEF poolVars, netVars
<1>1. hungUp[c] => hungUp'[c]
    BY DEF Next, CallerStep, LoopStep, GetIdleConn, Dial, DialFails, SetupFails, Count, Write, WriteFails,
        Enqueue, Receive, Put, Notify, Clear, BodyEOF, BodyClose, Peek, CheckExpected, TakeRequest,
        CloseLastBody, ReadResponse, ReadFails, Deliver, Respond, RespondUnasked, HangUp, CloseIdleConnections,
        NetShapes
<1>2. sock'[c] = "open" => sock[c] = "open"
    <2>1. ASSUME NEW r \in Requests, Dial(r) \/ SetupFails(r) PROVE sock'[c] = sock[c]
        <3>1. r # c
            BY <2>1 DEF Dial, SetupFails, PoolInv, CallersHold
        <3> QED BY <2>1, <3>1 DEF Dial, SetupFails, NetShapes
    <2>2. UNCHANGED sock \/ (\E d : sock' = [sock EXCEPT ![d] = "closed"])
          \/ (\E r \in Requests : Dial(r) \/ SetupFails(r)) \/ CloseIdleConnections
        BY ZenonT(30) DEF Next, CallerStep, LoopStep, GetIdleConn, DialFails, Count, Write, WriteFails,
            Enqueue, Receive, Put, Notify, Clear, BodyEOF, BodyClose, Peek, CheckExpected, TakeRequest,
            CloseLastBody, ReadResponse, ReadFails, Deliver, Respond, HangUp, RespondUnasked, PutIdle, CloseConn
    <2>3. ASSUME NEW d, sock' = [sock EXCEPT ![d] = "closed"] PROVE sock'[c] = "open" => sock[c] = "open"
        BY <2>3 DEF NetShapes
    <2>4. CASE CloseIdleConnections
        BY <2>4 DEF CloseIdleConnections, NetShapes
    <2> QED BY <2>1, <2>2, <2>3, <2>4
<1> QED BY <1>1, <1>2 DEF Reaches

(* Who waits for an answer did so before, or has just left its request for readLoop. *)
LEMMA UnansweredBefore ==
    ASSUME PoolInv, BodyInv, Next, NEW r \in Requests, NEW c \in Conns, Unanswered(r, c)'
    PROVE  Unanswered(r, c) \/ (Enqueue(r) /\ conn[r] = c)
<1> USE DEF callerVars
<1>1. ASSUME NEW q \in Requests, CallerStep(q) \/ BodyEOF(q) \/ BodyClose(q), q # r
      PROVE  Unanswered(r, c)
    <2>1. \E l : Goto(q, l)
        BY <1>1 DEF CallerStep, GetIdleConn, Dial, DialFails, SetupFails, Count, Write, WriteFails,
            Enqueue, Receive, Put, Notify, Clear, BodyEOF, BodyClose, Fail
    <2>2. pc'[r] = pc[r]
        BY <1>1, <2>1, GotoPoint DEF PoolInv
    <2>3. conn'[r] = conn[r] /\ reply'[r] = reply[r]
        BY <1>1 DEF CallerStep, GetIdleConn, Dial, DialFails, SetupFails, Count, Write, WriteFails,
            Enqueue, Receive, Put, Notify, Clear, BodyEOF, BodyClose, Fail, PoolInv, Shapes
    <2> QED BY <2>2, <2>3 DEF Unanswered
<1>2. ASSUME CallerStep(r) \/ BodyEOF(r) \/ BodyClose(r)
      PROVE  Enqueue(r) /\ conn[r] = c
    <2>1. pc'[r] = "wait"
        BY DEF Unanswered
    <2>2. Enqueue(r) \/ \E l : l # "wait" /\ Goto(r, l)
        BY <1>2 DEF CallerStep, GetIdleConn, Dial, DialFails, SetupFails, Count, Write, WriteFails,
            Receive, Put, Notify, Clear, BodyEOF, BodyClose, Fail
    <2>3. Enqueue(r)
        BY <2>1, <2>2, GotoPoint DEF PoolInv
    <2> QED BY <2>3 DEF Enqueue, Unanswered
<1>3. ASSUME NEW d \in Conns, LoopStep(d) \/ Respond(d) \/ HangUp(d) \/ RespondUnasked(d)
      PROVE  Unanswered(r, c)
    <2>1. UNCHANGED <<pc, conn>>
        BY <1>3 DEF LoopStep, Peek, CheckExpected, TakeRequest, CloseLastBody, ReadResponse, ReadFails, Deliver,
            Respond, HangUp, RespondUnasked
    <2>2. CASE Deliver(d)
        <3>1. loop[d] = "deliver" /\ result[d] # NoReply
            BY <2>2 DEF Deliver, BodyInv, LoopReady
        <3>2. reply'[r] = reply[r] \/ reply'[r] = result[d]
            BY <2>2 DEF Deliver, PoolInv, Shapes
        <3> QED BY <2>1, <3>1, <3>2 DEF Unanswered
    <2>3. CASE ~Deliver(d)
        <3>1. reply' = reply
            BY <1>3, <2>3 DEF LoopStep, Peek, CheckExpected, TakeRequest, CloseLastBody, ReadResponse, ReadFails,
                Respond, HangUp, RespondUnasked
        <3> QED BY <2>1, <3>1 DEF Unanswered
    <2> QED BY <2>2, <2>3
<1>4. CASE CloseIdleConnections
    BY <1>4 DEF CloseIdleConnections, Unanswered
<1> QED BY <1>1, <1>2, <1>3, <1>4 DEF Next

(* Where a request is that readLoop has yet to answer. *)
LEMMA NextTookUp ==
    ASSUME PoolInv, BodyInv, TookUp, Next
    PROVE  TookUp'
<1> USE DEF poolVars, queueVars, loopVars
<1> SUFFICES ASSUME NEW r \in Requests, NEW c \in Conns, Unanswered(r, c)', Running(c)'
             PROVE  \/ Queued(r, c)'
                    \/ cur'[c] = r /\ loop'[c] \in {"closelast", "read", "deliver"}
    BY DEF TookUp
<1>s. reqch \in [Conns -> Seq(Requests)] /\ reqch[c] \in Seq(Requests)
    BY DEF PoolInv, Shapes
<1>1. CASE Enqueue(r) /\ conn[r] = c
    <2>1. reqch'[c] = Append(reqch[c], r)
        BY <1>1, <1>s DEF Enqueue
    <2>2. Len(reqch[c]) + 1 \in DOMAIN reqch'[c] /\ reqch'[c][Len(reqch[c]) + 1] = r
        BY <1>s, <2>1
    <2> QED BY <2>2 DEF Queued
<1>2. CASE Unanswered(r, c)
    <2>0. Running(c)
        BY RunningBefore
    <2>1. Queued(r, c) \/ (cur[c] = r /\ loop[c] \in {"closelast", "read", "deliver"})
        BY <1>2, <2>0 DEF TookUp
    <2>2. ASSUME ~TakeRequest(c), Queued(r, c) PROVE Queued(r, c)'
        <3>1. \/ reqch'[c] = reqch[c]
              \/ \E q \in Requests : reqch'[c] = Append(reqch[c], q)
            <4>1. ASSUME NEW q \in Requests, Enqueue(q)
                  PROVE  reqch'[c] = reqch[c] \/ reqch'[c] = Append(reqch[c], q)
                BY <4>1, <1>s DEF Enqueue
            <4>2. ASSUME NEW d \in Conns \ {c}, TakeRequest(d) PROVE reqch'[c] = reqch[c]
                BY <4>2, <1>s DEF TakeRequest
            <4>3. UNCHANGED reqch \/ (\E q \in Requests : Enqueue(q)) \/ \E d \in Conns \ {c} : TakeRequest(d)
                BY <2>2 DEF Next, CallerStep, LoopStep, GetIdleConn, Dial, DialFails, SetupFails, Count, Write,
                    WriteFails, Receive, Put, Notify, Clear, BodyEOF, BodyClose, Peek, CheckExpected,
                    CloseLastBody, ReadResponse, ReadFails, Deliver, Respond, HangUp, RespondUnasked,
                    CloseIdleConnections
            <4> QED BY <4>1, <4>2, <4>3
        <3>2. PICK i \in DOMAIN reqch[c] : reqch[c][i] = r
            BY <2>2 DEF Queued
        <3>3. i \in DOMAIN reqch'[c] /\ reqch'[c][i] = r
            BY <1>s, <3>1, <3>2
        <3> QED BY <3>3 DEF Queued
    <2>3. CASE TakeRequest(c)
        <3>1. /\ reqch[c] # <<>> /\ cur'[c] = Head(reqch[c]) /\ reqch'[c] = Tail(reqch[c])
              /\ loop[c] = "take" /\ \E l \in {"closelast", "read"} : LoopTo(c, l)
            BY <2>3 DEF TakeRequest, PoolInv, Shapes
        <3>2. PICK i \in DOMAIN reqch[c] : reqch[c][i] = r
            BY <2>1, <3>1 DEF Queued
        <3>3. CASE i = 1
            BY <1>s, <3>1, <3>2, <3>3, LoopPoint DEF PoolInv
        <3>4. CASE i # 1
            <4>1. i - 1 \in DOMAIN reqch'[c] /\ reqch'[c][i - 1] = r
                BY <1>s, <3>1, <3>2, <3>4
            <4> QED BY <4>1 DEF Queued
        <3> QED BY <3>3, <3>4
    <2>4. ASSUME ~TakeRequest(c), cur[c] = r, loop[c] \in {"closelast", "read", "deliver"}
          PROVE  cur'[c] = r /\ loop'[c] \in {"closelast", "read", "deliver"}
        <3>1. cur'[c] = cur[c]
            <4>1. UNCHANGED cur \/ \E d \in Conns \ {c} : TakeRequest(d)
                BY <2>4 DEF Next, CallerStep, LoopStep, GetIdleConn, Dial, DialFails, SetupFails, Count, Write,
                    WriteFails, Enqueue, Receive, Put, Notify, Clear, BodyEOF, BodyClose, Peek, CheckExpected,
                    CloseLastBody, ReadResponse, ReadFails, Deliver, Respond, HangUp, RespondUnasked,
                    CloseIdleConnections
            <4> QED BY <4>1 DEF TakeRequest, PoolInv, Shapes
        <3>2. ~Deliver(c)
            <4> SUFFICES ASSUME Deliver(c) PROVE FALSE
                OBVIOUS
            <4>1. reply'[r] = result[c] /\ result[c] # NoReply
                BY <2>4 DEF Deliver, PoolInv, Shapes, BodyInv, LoopReady
            <4> QED BY <4>1 DEF Unanswered
        <3>3. \/ loop'[c] = loop[c] \/ loop'[c] \in {"read", "deliver", "stuck"}
            <4>1. ASSUME NEW q \in Requests, CallerStep(q) \/ BodyEOF(q) \/ BodyClose(q) PROVE loop'[c] = loop[c]
                <5>1. UNCHANGED loop \/ (Dial(q) /\ LoopTo(q, "peek")) \/ (Notify(q) /\ \E l : LoopTo(conn[q], l))
                    BY <4>1 DEF CallerStep, GetIdleConn, Dial, DialFails, SetupFails, Count, Write,
                        WriteFails, Enqueue, Receive, Put, Notify, Clear, BodyEOF, BodyClose
                <5>2. Dial(q) => q # c
                    BY <2>4 DEF Dial, PoolInv, CallersHold
                <5>3. Notify(q) => conn[q] # c
                    BY <2>4 DEF Notify
                <5> QED BY <5>1, <5>2, <5>3 DEF LoopTo, PoolInv, Shapes
            <4>2. ASSUME NEW d \in Conns \ {c}, LoopStep(d) PROVE loop'[c] = loop[c]
                <5>1. \E l : LoopTo(d, l)
                    BY <4>2 DEF LoopStep, Peek, CheckExpected, TakeRequest, CloseLastBody, ReadResponse, ReadFails, Deliver
                <5> QED BY <5>1, LoopPoint DEF PoolInv
            <4>3. ASSUME LoopStep(c) PROVE loop'[c] \in {"read", "deliver", "stuck"}
                <5>1. \E l \in {"read", "deliver", "stuck"} : LoopTo(c, l)
                    BY <2>4, <3>2, <4>3 DEF LoopStep, Peek, CheckExpected, TakeRequest, CloseLastBody, ReadResponse, ReadFails
                <5> QED BY <5>1, LoopPoint DEF PoolInv
            <4>4. ASSUME (\E d \in Conns : Respond(d) \/ HangUp(d) \/ RespondUnasked(d)) \/ CloseIdleConnections
                  PROVE  loop' = loop
                BY <4>4 DEF Respond, HangUp, RespondUnasked, CloseIdleConnections
            <4> QED BY <4>1, <4>2, <4>3, <4>4 DEF Next
        <3> QED BY <2>4, <3>1, <3>3 DEF Running
    <2> QED BY <2>1, <2>2, <2>3, <2>4
<1> QED BY <1>1, <1>2, UnansweredBefore
(* A request under way is its connection's one user's. *)
LEMMA PendingOwns ==
    ASSUME PoolInv, TookUp, NEW r \in Requests, NEW c \in Conns, Pending(r, c), Running(c)
    PROVE  Owns(r, c)
<1>1. CASE conn[r] = c /\ pc[r] = "enqueue"
    BY <1>1 DEF PoolInv, CallersHold, Fresh, Owns
<1>2. CASE Unanswered(r, c) /\ ~(loop[c] = "deliver" /\ cur[c] = r)
    <2>1. Queued(r, c) \/ (cur[c] = r /\ loop[c] \in {"closelast", "read"})
        BY <1>2 DEF TookUp
    <2>2. Waits(r, c)
        BY <2>1 DEF Queued, PoolInv, LoopsHold, LoopHolds
    <2> QED BY <2>2 DEF Waits, Fresh, Owns
<1> QED BY <1>1, <1>2 DEF Pending

LEMMA PendingBefore ==
    ASSUME PoolInv, BodyInv, Next, NEW r \in Requests, NEW c \in Conns, Pending(r, c)'
    PROVE  Pending(r, c) \/ (Write(r) /\ conn[r] = c)
<1> USE DEF callerVars, loopVars
<1>1. CASE conn'[r] = c /\ pc'[r] = "enqueue"
    <2>1. ASSUME NEW q \in Requests, CallerStep(q) \/ BodyEOF(q) \/ BodyClose(q), q # r
          PROVE  pc'[r] = pc[r] /\ conn'[r] = conn[r]
        <3>1. \E l : Goto(q, l)
            BY <2>1 DEF CallerStep, GetIdleConn, Dial, DialFails, SetupFails, Count, Write, WriteFails,
                Enqueue, Receive, Put, Notify, Clear, BodyEOF, BodyClose, Fail
        <3>2. conn'[r] = conn[r]
            BY <2>1 DEF CallerStep, GetIdleConn, Dial, DialFails, SetupFails, Count, Write, WriteFails,
                Enqueue, Receive, Put, Notify, Clear, BodyEOF, BodyClose, PoolInv, Shapes
        <3> QED BY <2>1, <3>1, <3>2, GotoPoint DEF PoolInv
    <2>2. ASSUME CallerStep(r) \/ BodyEOF(r) \/ BodyClose(r) PROVE Write(r) /\ conn[r] = c
        <3>1. Write(r) \/ \E l : l # "enqueue" /\ Goto(r, l)
            BY <2>2 DEF CallerStep, GetIdleConn, Dial, DialFails, SetupFails, Count, WriteFails,
                Enqueue, Receive, Put, Notify, Clear, BodyEOF, BodyClose, Fail
        <3>2. Write(r)
            BY <1>1, <3>1, GotoPoint DEF PoolInv
        <3> QED BY <1>1, <3>2 DEF Write
    <2>3. ASSUME (\E d \in Conns : LoopStep(d) \/ Respond(d) \/ HangUp(d) \/ RespondUnasked(d)) \/ CloseIdleConnections
          PROVE  pc' = pc /\ conn' = conn
        BY <2>3 DEF LoopStep, Peek, CheckExpected, TakeRequest, CloseLastBody, ReadResponse, ReadFails, Deliver,
            Respond, HangUp, RespondUnasked, CloseIdleConnections
    <2> QED BY <1>1, <2>1, <2>2, <2>3 DEF Next, Pending
<1>2. CASE Unanswered(r, c)' /\ ~(loop'[c] = "deliver" /\ cur'[c] = r)
    <2>1. CASE Enqueue(r) /\ conn[r] = c
        BY <2>1 DEF Enqueue, Pending
    <2>2. CASE Unanswered(r, c)
        <3> SUFFICES ASSUME loop[c] = "deliver", cur[c] = r PROVE FALSE
            BY <2>2 DEF Pending
        <3>1. ~Deliver(c)
            <4> SUFFICES ASSUME Deliver(c) PROVE FALSE
                OBVIOUS
            <4>1. reply'[r] = result[c] /\ result[c] # NoReply
                BY DEF Deliver, PoolInv, Shapes, BodyInv, LoopReady
            <4> QED BY <1>2, <4>1 DEF Unanswered
        <3>2. cur'[c] = cur[c]
            <4>1. UNCHANGED cur \/ \E d \in Conns : TakeRequest(d)
                BY DEF Next, CallerStep, LoopStep, GetIdleConn, Dial, DialFails, SetupFails, Count, Write,
                    WriteFails, Enqueue, Receive, Put, Notify, Clear, BodyEOF, BodyClose, Peek, CheckExpected,
                    CloseLastBody, ReadResponse, ReadFails, Deliver, Respond, HangUp, RespondUnasked,
                    CloseIdleConnections
            <4> QED BY <4>1 DEF TakeRequest, PoolInv, Shapes
        <3>3. loop'[c] = loop[c]
            <4>1. ASSUME NEW q \in Requests, CallerStep(q) \/ BodyEOF(q) \/ BodyClose(q) PROVE loop'[c] = loop[c]
                <5>1. UNCHANGED loop \/ (Dial(q) /\ LoopTo(q, "peek")) \/ (Notify(q) /\ \E l : LoopTo(conn[q], l))
                    BY <4>1 DEF CallerStep, GetIdleConn, Dial, DialFails, SetupFails, Count, Write,
                        WriteFails, Enqueue, Receive, Put, Notify, Clear, BodyEOF, BodyClose
                <5>2. Dial(q) => q # c
                    BY DEF Dial, PoolInv, CallersHold
                <5>3. Notify(q) => conn[q] # c
                    BY DEF Notify
                <5> QED BY <5>1, <5>2, <5>3 DEF LoopTo, PoolInv, Shapes
            <4>2. ASSUME NEW d \in Conns, LoopStep(d) PROVE loop'[c] = loop[c]
                <5>1. \E l : LoopTo(d, l)
                    BY <4>2 DEF LoopStep, Peek, CheckExpected, TakeRequest, CloseLastBody, ReadResponse, ReadFails, Deliver
                <5>2. d # c
                    BY <3>1, <4>2 DEF LoopStep, Peek, CheckExpected, TakeRequest, CloseLastBody, ReadResponse, ReadFails
                <5> QED BY <5>1, <5>2, LoopPoint DEF PoolInv
            <4>3. ASSUME (\E d \in Conns : Respond(d) \/ HangUp(d) \/ RespondUnasked(d)) \/ CloseIdleConnections
                  PROVE  loop' = loop
                BY <4>3 DEF Respond, HangUp, RespondUnasked, CloseIdleConnections
            <4> QED BY <4>1, <4>2, <4>3 DEF Next
        <3> QED BY <1>2, <3>2, <3>3
    <2> QED BY <1>2, <2>1, <2>2, UnansweredBefore
<1> QED BY <1>1, <1>2 DEF Pending

LEMMA AppendedSome ==
    ASSUME NEW S, NEW q \in Seq(S), NEW x
    PROVE  Append(q, x) # <<>>
<1>1. Len(Append(q, x)) = Len(q) + 1 /\ Len(q) \in Nat
    OBVIOUS
<1>2. ASSUME Append(q, x) = <<>> PROVE FALSE
    <2>1. Len(Append(q, x)) = 0
        BY <1>2
    <2> QED BY <1>1, <2>1
<1> QED BY <1>2

(* readLoop reads for the connection's one user, and what others wrote is not there yet. *)
LEMMA NextOnTheWay ==
    ASSUME PoolInv, NetShapes, BodyInv, TookUp, OnTheWay, Next
    PROVE  OnTheWay'
<1> SUFFICES ASSUME NEW r \in Requests, NEW c \in Conns, Pending(r, c)', Running(c)', Reaches(c)'
             PROVE  toServer'[c] # <<>> \/ fromServer'[c] # <<>>
    BY DEF OnTheWay
<1>s. /\ toServer \in [Conns -> Seq(Requests)] /\ fromServer \in [Conns -> Seq(Sent)]
      /\ toServer[c] \in Seq(Requests) /\ fromServer[c] \in Seq(Sent)
    BY DEF PoolInv, Shapes
<1>1. CASE Write(r) /\ conn[r] = c
    <2>1. UNCHANGED <<sock, hungUp>>
        BY <1>1 DEF Write, poolVars
    <2>2. toServer'[c] = Append(toServer[c], r)
        BY <1>1, <1>s, <2>1 DEF Write, Reaches
    <2> QED BY <1>s, <2>2, AppendedSome
<1>2. CASE Pending(r, c)
    <2>1. loop[c] # "none"
        BY <1>2 DEF Pending, Unanswered, PoolInv, CallersHold
    <2>2. Running(c) /\ Reaches(c)
        BY <2>1, RunningBefore, ReachesBefore
    <2>3. toServer[c] # <<>> \/ fromServer[c] # <<>>
        BY <1>2, <2>2 DEF OnTheWay
    <2>4. CASE UNCHANGED <<toServer, fromServer>>
        BY <2>3, <2>4
    <2>5. ASSUME NEW q \in Requests, Write(q) PROVE toServer'[c] # <<>> \/ fromServer'[c] # <<>>
        <3>1. fromServer' = fromServer /\ (toServer'[c] = toServer[c] \/ toServer'[c] = Append(toServer[c], q))
            BY <1>s, <2>5 DEF Write
        <3>2. Append(toServer[c], q) # <<>>
            BY <1>s, AppendedSome
        <3> QED BY <2>3, <3>1, <3>2
    <2>6. ASSUME NEW d \in Conns, ReadResponse(d) PROVE toServer'[c] # <<>> \/ fromServer'[c] # <<>>
        <3>1. d # c
            <4> SUFFICES ASSUME ReadResponse(c) PROVE FALSE
                BY <2>6
            <4>1. loop[c] = "read" /\ loop'[c] = "deliver" /\ UNCHANGED <<pc, conn, cur>>
                BY LoopPoint DEF ReadResponse, callerVars, PoolInv
            <4>2. cur[c] \in Requests /\ Waits(cur[c], c)
                BY <4>1 DEF PoolInv, LoopsHold, LoopHolds
            <4>3. Owns(r, c) /\ Owns(cur[c], c)
                BY <1>2, <2>2, <4>2, PendingOwns DEF Waits, Fresh, Owns
            <4>4. cur[c] = r
                BY <2>2, <4>2, <4>3 DEF PoolInv, OneUserFlat, Running
            <4> QED BY <4>1, <4>2, <4>4 DEF Pending, Waits
        <3>2. toServer'[c] = toServer[c] /\ fromServer'[c] = fromServer[c]
            BY <1>s, <2>6, <3>1 DEF ReadResponse
        <3> QED BY <2>3, <3>2
    <2>7. ASSUME NEW d \in Conns, Respond(d) \/ RespondUnasked(d) PROVE toServer'[c] # <<>> \/ fromServer'[c] # <<>>
        <3>1. CASE d = c
            <4>1. PICK res : fromServer' = [fromServer EXCEPT ![c] = Append(@, res)]
                BY <2>7, <3>1 DEF Respond, RespondUnasked
            <4>2. fromServer'[c] = Append(fromServer[c], res)
                BY <1>s, <4>1
            <4> QED BY <1>s, <4>2, AppendedSome
        <3>2. CASE d # c
            <4>1. toServer'[c] = toServer[c] /\ fromServer'[c] = fromServer[c]
                BY <1>s, <2>7, <3>2 DEF Respond, RespondUnasked
            <4> QED BY <2>3, <4>1
        <3> QED BY <3>1, <3>2
    <2> QED BY <2>4, <2>5, <2>6, <2>7, NetSteps
<1> QED BY <1>1, <1>2, PendingBefore

LEMMA NextStop == StopInv /\ [Next]_vars => StopInv'
<1> SUFFICES ASSUME StopInv, [Next]_vars PROVE StopInv'
    OBVIOUS
<1>1. CASE UNCHANGED vars
    <2>1. UNCHANGED <<pc, conn, reply, fn, released, loop, cur, lastbody, alive, result, sock, hungUp, reqch,
                      toServer, fromServer>>
        BY <1>1 DEF vars, callerVars, bodyVars, poolVars, queueVars, loopVars, netVars
    <2>2. NetShapes' /\ BodyInv' /\ TookUp' /\ OnTheWay'
        BY <2>1 DEF StopInv, NetShapes, BodyInv, LoopReady, BodyOf, CallbackHeard, Reads, TookUp, Unanswered,
            Running, Queued, OnTheWay, Pending, Reaches
    <2> QED BY <2>2, NextPool DEF StopInv
<1>2. CASE Next
    BY <1>2, NextPool, NextNetShapes, NextBody, NextTookUp, NextOnTheWay DEF StopInv
<1> QED BY <1>1, <1>2

LEMMA WhereItStops == StopInv => StopsAnswered
<1> SUFFICES ASSUME StopInv, ~Moves, NEW r \in Requests, pc[r] \notin {"start", "body", "done"}
             PROVE  Abandoned(r)
    BY DEF StopsAnswered
<1>1. pc[r] \in {"wait", "notify"} /\ conn[r] \in Conns
    <2>1. pc[r] \in Labels /\ ~CallerGoes(r)
        BY DEF StopInv, PoolInv, Shapes, Moves
    <2> QED BY <2>1 DEF Labels, CallerGoes, StopInv, PoolInv, CallersHold
<1>2. PICK c \in Conns : c = conn[r]
    BY <1>1
<1>3. pc[r] = "wait" /\ reply[r] = NoReply
    <2>1. ~CallerGoes(r) /\ CallbackHeard(r)
        BY DEF StopInv, BodyInv, Moves
    <2> QED BY <1>1, <2>1 DEF CallerGoes, CallbackHeard, Reads
<1>4. SUFFICES ASSUME Running(c) PROVE FALSE
    BY <1>2, <1>3 DEF Abandoned, Running
<1>5. /\ ~LoopGoes(c) /\ ~ServerGoes(c) /\ LoopReady(c)
      /\ loop[c] \in LoopLabels \ {"none", "gone", "stuck"}
    BY <1>2, <1>4 DEF Moves, StopInv, BodyInv, PoolInv, Shapes, CallersHold, Running
<1>6. loop[c] \in {"peek", "take", "read", "waitbody"}
    BY <1>5 DEF LoopGoes, LoopLabels
<1>7. Unanswered(r, c) /\ Pending(r, c)
    BY <1>2, <1>3, <1>6 DEF Unanswered, Pending
<1>8. CASE loop[c] \in {"peek", "read"}
    <2>1. fromServer[c] = <<>> /\ Reaches(c)
        BY <1>5, <1>8 DEF LoopGoes
    <2>2. toServer[c] # <<>>
        BY <1>4, <1>7, <2>1 DEF StopInv, OnTheWay
    <2> QED BY <1>5, <2>1, <2>2 DEF ServerGoes, Reaches
<1>9. CASE loop[c] = "take"
    <2>1. Queued(r, c) /\ reqch[c] = <<>>
        BY <1>4, <1>5, <1>7, <1>9 DEF StopInv, TookUp, LoopGoes
    <2> QED BY <2>1 DEF Queued
<1>10. CASE loop[c] = "waitbody"
    <2>1. PICK s \in Requests : s = cur[c] /\ BodyOf(c, s)
        BY <1>5, <1>10 DEF LoopReady, BodyOf
    <2>2. ~CallerGoes(s)
        BY DEF Moves
    <2>3. pc[s] # "notify"
        BY <1>10, <2>1, <2>2 DEF BodyOf, CallerGoes
    <2>4. Owns(s, c)
        BY <2>1, <2>3 DEF BodyOf, Owns
    <2>5. Owns(r, c)
        BY <1>4, <1>7, PendingOwns DEF StopInv
    <2>6. r = s
        BY <1>10, <2>4, <2>5 DEF StopInv, PoolInv, OneUserFlat
    <2> QED BY <1>3, <2>1, <2>6 DEF BodyOf
<1> QED BY <1>6, <1>8, <1>9, <1>10

(* StopsAnswered for every number of requests, hosts and pooled connections: callers,
   readLoops and servers never wait for each other in a circle, except where readLoop waits
   for the callback that it runs itself. *)
THEOREM StopsOnlyAnswered == Spec => []StopsAnswered
BY InitStop, NextStop, WhereItStops, PTL DEF Spec
=============================================================================
