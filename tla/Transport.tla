------------------------------ MODULE Transport ------------------------------
(***************************************************************************)
(* goproxy's HTTP transport (goproxy/transport/transport.go): the pool of  *)
(* idle connections, a readLoop goroutine per connection, the callers of   *)
(* RoundTrip, and the callback at the end of a response's body, which puts *)
(* the connection back into the pool from the reader's own goroutine.      *)
(*                                                                         *)
(* A request dials at most one connection, which goes by its name.  A      *)
(* region under a lock is one step: none of them blocks.                   *)
(***************************************************************************)
EXTENDS Naturals, Sequences

CONSTANTS
    Requests,    \* one caller of RoundTrip each
    Keys,        \* the values of connectMethod.String
    KeyOf,       \* KeyOf[r]: that of request r
    Secure,      \* the keys of https targets: TLS after the dial
    ViaProxy,    \* the keys with a proxy: with TLS, a CONNECT first
    KeepAlives,  \* ~DisableKeepAlives
    MaxIdle,     \* MaxIdleConnsPerHost, or its default
    Bodies,      \* which bodies the server sends
    MayAct       \* which of "unasked", "hangup", "closeidle" may happen

Conns == Requests
NoConn == "no connection"
Nobody == "nobody"
ASSUME KeyAssumption ==
    /\ KeyOf \in [Requests -> Keys] /\ Secure \subseteq Keys /\ ViaProxy \subseteq Keys
    /\ MaxIdle \in Nat
ASSUME NameAssumption ==
    /\ {NoConn, Nobody} \cap Requests = {}
    /\ KeepAlives \in BOOLEAN
    /\ Bodies \subseteq {"none", "full", "cut", "bad"}

(* What a server sends: the request it answers, whether it or the request says
   Connection: close, and the body: none, one that ends, one that the connection's
   end cuts, or a response that cannot be read (malformed, or not the gzip it claims). *)
Response == [to : Requests \cup {Nobody}, close : BOOLEAN, body : Bodies]
Failure == [to |-> Nobody, close |-> FALSE, body |-> "error"]
NoReply == [to |-> Nobody, close |-> FALSE, body |-> "nothing yet"]

VARIABLES
    pc, conn,       \* of each caller: where it is, the connection it took
    reply,          \* responseAndError, the channel of capacity 1 of each request
    fn, isClosed,   \* bodyEOFSignal of each response: is the callback set, was Close called?
    idle,           \* idleConn: each key's connections
    sock,           \* persistConn.conn of each connection
    broken, expected, reqch,
    loop,           \* where the connection's readLoop is
    cur, result,    \* the request it serves, and what it read for it
    lastbody,       \* whose response body, if any, it returned last
    alive,
    toServer, fromServer, hungUp, \* the network, and whether the server closed it
    unasked,        \* history: did the server send a response to nothing?
    released        \* history: was the connection put back, or tried, for this request?

callerVars == <<pc, conn, reply>>
bodyVars == <<fn, isClosed>>
poolVars == <<idle, sock, broken>>
queueVars == <<expected, reqch>>
loopVars == <<loop, cur, result, lastbody, alive>>
netVars == <<toServer, fromServer, hungUp, unasked>>
vars == <<callerVars, bodyVars, poolVars, queueVars, loopVars, netVars, released>>

Init ==
    /\ pc = [r \in Requests |-> "start"] /\ conn = [r \in Requests |-> NoConn]
    /\ reply = [r \in Requests |-> NoReply]
    /\ fn = [r \in Requests |-> FALSE] /\ isClosed = [r \in Requests |-> FALSE]
    /\ idle = [k \in Keys |-> <<>>]
    /\ sock = [c \in Conns |-> "none"] /\ broken = [c \in Conns |-> FALSE]
    /\ expected = [c \in Conns |-> 0] /\ reqch = [c \in Conns |-> <<>>]
    /\ loop = [c \in Conns |-> "none"]
    /\ cur = [c \in Conns |-> Nobody] /\ lastbody = [c \in Conns |-> Nobody]
    /\ result = [c \in Conns |-> NoReply] /\ alive = [c \in Conns |-> TRUE]
    /\ toServer = [c \in Conns |-> <<>>] /\ fromServer = [c \in Conns |-> <<>>]
    /\ hungUp = [c \in Conns |-> FALSE] /\ unasked = [c \in Conns |-> FALSE]
    /\ released = [r \in Requests |-> FALSE]

Goto(r, l) == pc' = [pc EXCEPT ![r] = l]
LoopTo(c, l) == loop' = [loop EXCEPT ![c] = l]

-----------------------------------------------------------------------------
(* The pool *)

(* closeLocked *)
CloseConn(c) ==
    /\ sock' = [sock EXCEPT ![c] = "closed"]
    /\ broken' = [broken EXCEPT ![c] = TRUE]

(* Will putIdleConn keep c?  If not, it closes it. *)
Kept(c) == KeepAlives /\ ~broken[c] /\ Len(idle[KeyOf[c]]) < MaxIdle
PutIdle(c, r) ==
    /\ \/ /\ Kept(c)
          /\ idle' = [idle EXCEPT ![KeyOf[c]] = Append(@, c)]
          /\ UNCHANGED <<sock, broken>>
       \/ /\ ~Kept(c)
          /\ CloseConn(c)
          /\ UNCHANGED idle
    /\ released' = [released EXCEPT ![r] = TRUE]

(* What getIdleConn may return: the last connection of the pool that is not broken. *)
Newest(k) == {n \in DOMAIN idle[k] : /\ ~broken[idle[k][n]]
                                    /\ \A m \in DOMAIN idle[k] : m > n => broken[idle[k][m]]}

(* A mutant, as are DialPooled and ReadFailsRetries below: slips that the
   run is shown to catch. *)
GetIdleConnKeeps(r) ==
    /\ pc[r] = "start"
    /\ LET k == KeyOf[r] IN
       \/ \E n \in Newest(k) :
              /\ conn' = [conn EXCEPT ![r] = idle[k][n]]
              /\ Goto(r, "count")
              /\ UNCHANGED idle
       \/ /\ Newest(k) = {}
          /\ Goto(r, "dial")
          /\ UNCHANGED <<conn, idle>>
    /\ UNCHANGED <<reply, bodyVars, sock, broken, queueVars, loopVars, netVars, released>>

(* getIdleConn drops the broken connections it meets. *)
GetIdleConn(r) ==
    /\ pc[r] = "start"
    /\ LET k == KeyOf[r] IN
       \/ \E n \in Newest(k) :
              /\ conn' = [conn EXCEPT ![r] = idle[k][n]]
              /\ idle' = [idle EXCEPT ![k] = SubSeq(@, 1, n - 1)]
              /\ Goto(r, "count")
       \/ /\ Newest(k) = {}
          /\ idle' = [idle EXCEPT ![k] = <<>>]
          /\ Goto(r, "dial")
          /\ UNCHANGED conn
    /\ UNCHANGED <<reply, bodyVars, sock, broken, queueVars, loopVars, netVars, released>>

CloseIdleConnections ==
    /\ "closeidle" \in MayAct
    /\ LET pooled == {c \in Conns : \E k \in Keys : \E i \in DOMAIN idle[k] : idle[k][i] = c} IN
       /\ pooled # {}
       /\ sock' = [c \in Conns |-> IF c \in pooled THEN "closed" ELSE sock[c]]
       /\ broken' = [c \in Conns |-> broken[c] \/ c \in pooled]
    /\ idle' = [k \in Keys |-> <<>>]
    /\ UNCHANGED <<callerVars, bodyVars, queueVars, loopVars, netVars, released>>

-----------------------------------------------------------------------------
(* getConn: the dial, the CONNECT of a proxied https target, and TLS *)

Fail(r) == reply' = [reply EXCEPT ![r] = Failure] /\ Goto(r, "done")

DialPooled(r) ==
    /\ pc[r] = "dial"
    /\ conn' = [conn EXCEPT ![r] = r]
    /\ sock' = [sock EXCEPT ![r] = "open"]
    /\ LoopTo(r, "peek")
    /\ Goto(r, "count")
    /\ idle' = [idle EXCEPT ![KeyOf[r]] = Append(@, r)]
    /\ UNCHANGED <<reply, bodyVars, broken, queueVars, cur, result, lastbody, alive, netVars, released>>

Dial(r) ==
    /\ pc[r] = "dial"
    /\ conn' = [conn EXCEPT ![r] = r]
    /\ sock' = [sock EXCEPT ![r] = "open"]
    /\ LoopTo(r, "peek")
    /\ Goto(r, "count")
    /\ UNCHANGED <<reply, bodyVars, idle, broken, queueVars, cur, result, lastbody, alive, netVars, released>>

DialFails(r) ==
    /\ pc[r] = "dial"
    /\ Fail(r)
    /\ UNCHANGED <<conn, bodyVars, poolVars, queueVars, loopVars, netVars, released>>

(* A refused CONNECT closes the connection, a failed TLS handshake leaves it. *)
SetupFails(r) ==
    /\ pc[r] = "dial"
    /\ KeyOf[r] \in Secure
    /\ \/ /\ KeyOf[r] \in ViaProxy
          /\ sock' = [sock EXCEPT ![r] = "closed"]
       \/ sock' = [sock EXCEPT ![r] = "open"]
    /\ Fail(r)
    /\ UNCHANGED <<conn, bodyVars, idle, broken, queueVars, loopVars, netVars, released>>

-----------------------------------------------------------------------------
(* persistConn.roundTrip *)

Count(r) ==
    /\ pc[r] = "count"
    /\ expected' = [expected EXCEPT ![conn[r]] = @ + 1]
    /\ Goto(r, "write")
    /\ UNCHANGED <<conn, reply, bodyVars, poolVars, reqch, loopVars, netVars, released>>

Reaches(c) == sock[c] = "open" /\ ~hungUp[c]

(* A small request is buffered and the error of the Flush is not looked at: to a
   connection that is closed, it is lost without a word. *)
Write(r) ==
    /\ pc[r] = "write"
    /\ toServer' = [toServer EXCEPT ![conn[r]] = IF Reaches(conn[r]) THEN Append(@, r) ELSE @]
    /\ Goto(r, "enqueue")
    /\ UNCHANGED <<conn, reply, bodyVars, poolVars, queueVars, loopVars, fromServer, hungUp,
                   unasked, released>>

(* numExpectedResponses stays as it is. *)
WriteFails(r) ==
    /\ pc[r] = "write"
    /\ ~Reaches(conn[r])
    /\ CloseConn(conn[r])
    /\ Fail(r)
    /\ UNCHANGED <<conn, bodyVars, idle, queueVars, loopVars, netVars, released>>

Enqueue(r) ==
    /\ pc[r] = "enqueue"
    /\ reqch' = [reqch EXCEPT ![conn[r]] = Append(@, r)]
    /\ Goto(r, "wait")
    /\ UNCHANGED <<conn, reply, bodyVars, poolVars, expected, loopVars, netVars, released>>

Receive(r) ==
    /\ pc[r] = "wait"
    /\ reply[r] # NoReply
    /\ expected' = [expected EXCEPT ![conn[r]] = @ - 1]
    /\ Goto(r, IF reply[r].body \in {"full", "cut"} THEN "body" ELSE "done")
    /\ UNCHANGED <<conn, reply, bodyVars, poolVars, reqch, loopVars, netVars, released>>

-----------------------------------------------------------------------------
(* bodyEOFSignal, in the goroutine of whoever reads the response *)

BodyEOF(r) ==
    /\ pc[r] = "body"
    /\ reply[r].body = "full"
    /\ Goto(r, IF fn[r] THEN "put" ELSE "done")
    /\ UNCHANGED <<conn, reply, bodyVars, poolVars, queueVars, loopVars, netVars, released>>

(* Close discards what is left; if that fails, the callback never runs. *)
BodyClose(r) ==
    /\ pc[r] = "body"
    /\ isClosed' = [isClosed EXCEPT ![r] = TRUE]
    /\ Goto(r, IF reply[r].body = "full" /\ fn[r] THEN "put" ELSE "done")
    /\ UNCHANGED <<conn, reply, fn, poolVars, queueVars, loopVars, netVars, released>>

(* The callback, up to its send on waitForBodyRead. *)
Put(r) ==
    /\ pc[r] = "put"
    /\ PutIdle(conn[r], r)
    /\ alive' = [alive EXCEPT ![conn[r]] = Kept(conn[r])]
    /\ Goto(r, "notify")
    /\ UNCHANGED <<conn, reply, bodyVars, queueVars, loop, cur, result, lastbody, netVars>>

Notify(r) ==
    /\ pc[r] = "notify"
    /\ loop[conn[r]] = "waitbody"
    /\ LoopTo(conn[r], IF alive[conn[r]] THEN "peek" ELSE "gone")
    /\ Goto(r, "clear")
    /\ UNCHANGED <<conn, reply, bodyVars, poolVars, queueVars, cur, result, lastbody, alive, netVars, released>>

(* Only now is the callback taken out. *)
Clear(r) ==
    /\ pc[r] = "clear"
    /\ fn' = [fn EXCEPT ![r] = FALSE]
    /\ Goto(r, "done")
    /\ UNCHANGED <<conn, reply, isClosed, poolVars, queueVars, loopVars, netVars, released>>

-----------------------------------------------------------------------------
(* readLoop *)

Peek(c) ==
    /\ loop[c] = "peek"
    /\ fromServer[c] # <<>> \/ ~Reaches(c)
    /\ LoopTo(c, "check")
    /\ UNCHANGED <<callerVars, bodyVars, poolVars, queueVars, cur, result, lastbody, alive, netVars, released>>

CheckExpected(c) ==
    /\ loop[c] = "check"
    /\ \/ /\ expected[c] = 0
          /\ CloseConn(c)
          /\ LoopTo(c, "gone")
       \/ /\ expected[c] # 0
          /\ LoopTo(c, "take")
          /\ UNCHANGED <<sock, broken>>
    /\ UNCHANGED <<callerVars, bodyVars, idle, queueVars, cur, result, lastbody, alive, netVars, released>>

TakeRequest(c) ==
    /\ loop[c] = "take"
    /\ reqch[c] # <<>>
    /\ cur' = [cur EXCEPT ![c] = Head(reqch[c])]
    /\ reqch' = [reqch EXCEPT ![c] = Tail(@)]
    /\ LoopTo(c, IF lastbody[c] = Nobody THEN "read" ELSE "closelast")
    /\ UNCHANGED <<callerVars, bodyVars, poolVars, expected, result, lastbody, alive, netVars, released>>

(* lastbody.Close(), "assumed idempotent".  Whoever read that body may not have come to
   Clear: then the callback runs again, here, and waits for readLoop, which is itself. *)
CloseLastBody(c) ==
    /\ loop[c] = "closelast"
    /\ LET b == lastbody[c] IN
       /\ isClosed' = [isClosed EXCEPT ![b] = TRUE]
       /\ \/ /\ fn[b] /\ ~isClosed[b]
             /\ PutIdle(c, b)
             /\ LoopTo(c, "stuck")
             /\ UNCHANGED lastbody
          \/ /\ ~fn[b] \/ isClosed[b]
             /\ lastbody' = [lastbody EXCEPT ![c] = Nobody]
             /\ LoopTo(c, "read")
             /\ UNCHANGED <<poolVars, released>>
    /\ UNCHANGED <<callerVars, fn, queueVars, cur, result, alive, netVars>>

(* A response with a body leaves its callback; one without goes straight to the pool. *)
ReadResponse(c) ==
    /\ loop[c] = "read"
    /\ fromServer[c] # <<>>
    /\ LET res == Head(fromServer[c])
           r == cur[c] IN
       /\ res.body # "bad"
       /\ result' = [result EXCEPT ![c] = res]
       /\ \/ /\ res.close
             /\ alive' = [alive EXCEPT ![c] = FALSE]
             /\ UNCHANGED <<fn, lastbody, poolVars, released>>
          \/ /\ ~res.close /\ res.body \in {"full", "cut"}
             /\ fn' = [fn EXCEPT ![r] = TRUE]
             /\ lastbody' = [lastbody EXCEPT ![c] = r]
             /\ UNCHANGED <<alive, poolVars, released>>
          \/ /\ ~res.close /\ res.body = "none"
             /\ PutIdle(c, r)
             /\ alive' = [alive EXCEPT ![c] = Kept(c)]
             /\ UNCHANGED <<fn, lastbody>>
    /\ fromServer' = [fromServer EXCEPT ![c] = Tail(@)]
    /\ LoopTo(c, "deliver")
    /\ UNCHANGED <<callerVars, isClosed, queueVars, cur, toServer, hungUp, unasked>>

ReadFailsRetries(c) ==
    /\ loop[c] = "read"
    /\ \/ /\ fromServer[c] # <<>>
          /\ sock[c] = "closed" \/ Head(fromServer[c]).body = "bad"
       \/ fromServer[c] = <<>> /\ ~Reaches(c)
    /\ result' = [result EXCEPT ![c] = Failure]
    /\ CloseConn(c)
    /\ LoopTo(c, "peek")
    /\ UNCHANGED <<callerVars, bodyVars, idle, queueVars, cur, lastbody, alive, netVars, released>>

ReadFails(c) ==
    /\ loop[c] = "read"
    /\ \/ /\ fromServer[c] # <<>>
          /\ sock[c] = "closed" \/ Head(fromServer[c]).body = "bad"
       \/ fromServer[c] = <<>> /\ ~Reaches(c)
    /\ result' = [result EXCEPT ![c] = Failure]
    /\ CloseConn(c)
    /\ alive' = [alive EXCEPT ![c] = FALSE]
    /\ LoopTo(c, "deliver")
    /\ UNCHANGED <<callerVars, bodyVars, idle, queueVars, cur, lastbody, netVars, released>>

(* The send on rc.ch, and what comes of the loop. *)
Deliver(c) ==
    /\ loop[c] = "deliver"
    /\ reply' = [reply EXCEPT ![cur[c]] = result[c]]
    /\ LoopTo(c, IF ~alive[c] THEN "gone" ELSE IF lastbody[c] = cur[c] THEN "waitbody" ELSE "peek")
    /\ UNCHANGED <<pc, conn, bodyVars, poolVars, queueVars, cur, result, lastbody, alive,
                   netVars, released>>

-----------------------------------------------------------------------------
(* The server *)

Respond(c) ==
    /\ toServer[c] # <<>> /\ ~hungUp[c]
    /\ \E close \in BOOLEAN, body \in Bodies :
       /\ fromServer' = [fromServer EXCEPT ![c] =
                          Append(@, [to |-> Head(toServer[c]), close |-> close, body |-> body])]
       /\ hungUp' = [hungUp EXCEPT ![c] = body = "cut"]
    /\ toServer' = [toServer EXCEPT ![c] = Tail(@)]
    /\ UNCHANGED <<callerVars, bodyVars, poolVars, queueVars, loopVars, unasked, released>>

HangUp(c) ==
    /\ sock[c] # "none" /\ ~hungUp[c]
    /\ "hangup" \in MayAct \/ sock[c] = "closed"
    /\ hungUp' = [hungUp EXCEPT ![c] = TRUE]
    /\ UNCHANGED <<callerVars, bodyVars, poolVars, queueVars, loopVars, toServer, fromServer,
                   unasked, released>>

(* On a quiet connection, as a server does that has waited long enough. *)
RespondUnasked(c) ==
    /\ "unasked" \in MayAct
    /\ Reaches(c) /\ toServer[c] = <<>> /\ fromServer[c] = <<>> /\ ~unasked[c]
    /\ fromServer' = [fromServer EXCEPT ![c] =
                       Append(@, [to |-> Nobody, close |-> FALSE, body |-> "none"])]
    /\ unasked' = [unasked EXCEPT ![c] = TRUE]
    /\ UNCHANGED <<callerVars, bodyVars, poolVars, queueVars, loopVars, toServer, hungUp, released>>

-----------------------------------------------------------------------------

CallerStep(r) ==
    \/ GetIdleConn(r) \/ Dial(r) \/ DialFails(r) \/ SetupFails(r)
    \/ Count(r) \/ Write(r) \/ WriteFails(r) \/ Enqueue(r) \/ Receive(r)
    \/ Put(r) \/ Notify(r) \/ Clear(r)
LoopStep(c) ==
    \/ Peek(c) \/ CheckExpected(c) \/ TakeRequest(c) \/ CloseLastBody(c)
    \/ ReadResponse(c) \/ ReadFails(c) \/ Deliver(c)
Next ==
    \/ \E r \in Requests : CallerStep(r) \/ BodyEOF(r) \/ BodyClose(r)
    \/ \E c \in Conns : LoopStep(c) \/ Respond(c) \/ HangUp(c) \/ RespondUnasked(c)
    \/ CloseIdleConnections

Spec == Init /\ [][Next]_vars

(* A goroutine that can go on does, once a user has begun a request; a server answers what it
   was asked, or hangs up, and hangs up on a closed connection.  Nobody is obliged to begin a
   request, to read a body, or to end a connection that is quiet. *)
Fairness ==
    /\ \A r \in Requests : WF_vars(pc[r] # "start" /\ CallerStep(r))
    /\ \A c \in Conns :
          /\ WF_vars(LoopStep(c))
          /\ WF_vars((toServer[c] # <<>> \/ sock[c] = "closed") /\ (Respond(c) \/ HangUp(c)))
FairSpec == Spec /\ Fairness

-----------------------------------------------------------------------------
(* Properties *)

Owners(c) == {r \in Requests : conn[r] = c /\ ~released[r]}
Places(c) == {i \in DOMAIN idle[KeyOf[c]] : idle[KeyOf[c]][i] = c}

(* A connection has one user or is once in the pool, never both: nobody writes a request
   on a connection whose response is still being read.  It holds until the callback of a
   body runs a second time (CloseLastBody), which leaves readLoop stuck. *)
OneUser ==
    \A c \in Conns :
        loop[c] # "stuck" =>
            /\ \A r, s \in Owners(c) : r = s
            /\ \A i, j \in Places(c) : i = j
            /\ Owners(c) = {} \/ Places(c) = {}

(* RoundTrip returns the response to its own request, however connections are shared, if
   the server sent nothing that was not asked for. *)
AnswerIsMine ==
    \A r \in Requests :
        reply[r] \in Response => reply[r].to = r \/ unasked[conn[r]]

(* A caller of RoundTrip is answered, unless the readLoop of the connection it took has
   ended or waits for itself. *)
AnsweredUnlessLoopEnded ==
    \A r \in Requests :
        pc[r] = "wait" ~> (pc[r] # "wait" \/ loop[conn[r]] \in {"gone", "stuck"})

(* What can go on by itself: a caller, a readLoop, or a server that has a request to answer
   or whose connection was closed.  Nobody needs to begin a request, to read a body, or to
   hang up. *)
CallerGoes(r) ==
    \/ pc[r] \in {"dial", "count", "write", "enqueue", "put", "clear"}
    \/ pc[r] = "wait" /\ reply[r] # NoReply
    \/ pc[r] = "notify" /\ loop[conn[r]] = "waitbody"
LoopGoes(c) ==
    \/ loop[c] \in {"peek", "read"} /\ (fromServer[c] # <<>> \/ ~Reaches(c))
    \/ loop[c] = "take" /\ reqch[c] # <<>>
    \/ loop[c] \in {"check", "closelast", "deliver"}
ServerGoes(c) == ~hungUp[c] /\ (toServer[c] # <<>> \/ sock[c] = "closed")
Moves ==
    \/ \E r \in Requests : CallerGoes(r)
    \/ \E c \in Conns : LoopGoes(c) \/ ServerGoes(c)

Abandoned(r) == pc[r] = "wait" /\ loop[conn[r]] \in {"gone", "stuck"}

(* Where nothing can go on, no caller waits, be it for its answer or for readLoop to hear
   that its body was read, but one whose readLoop has ended or waits for itself. *)
StopsAnswered ==
    Moves \/ \A r \in Requests : pc[r] \in {"start", "body", "done"} \/ Abandoned(r)

(* What the comment of bodyEOFSignal says: the callback runs at most once. *)
CallbackOnce == \A c \in Conns : loop[c] # "stuck"
=============================================================================
