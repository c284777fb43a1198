------------------------------- MODULE Proxy -------------------------------
(***************************************************************************)
(* One client connection of goproxy, as ServeHTTP (proxy.go) and           *)
(* handleHttps (https.go) serve it: plain requests, or after a CONNECT a   *)
(* blind tunnel, a hijacked connection, requests read from a tunnel        *)
(* assumed to be plain HTTP or TLS, or a refusal; each request goes        *)
(* through the registered handlers (dispatcher.go).                        *)
(*                                                                         *)
(* A side is the client or the target.  What a side sends is a sequence of *)
(* items: bytes of a tunnel, or requests.  An item is a number, its place  *)
(* among those its side sent, and a kind, which is all a condition sees.   *)
(***************************************************************************)
EXTENDS Integers, Sequences, SequencesExt

CONSTANTS
    HttpsHandlers, \* the chains of CONNECT handlers: each says an action or "nil"
    ReqHandlers,   \* the request handlers: the kinds they match and what they do
    RespHandlers,  \* the response handlers, alike
    Kinds,         \* the kinds of requests
    Upstream,      \* is HTTPS_PROXY set?
    Window,        \* items a side's connection takes while the side reads none
    MaxItems       \* bound: items each side sends

Actions == {"accept", "hijack", "httpmitm", "mitm", "reject"}
ASSUME HandlerAssumption ==
    /\ HttpsHandlers \subseteq Seq(Actions \cup {"nil"})
    /\ ReqHandlers \in Seq([when : SUBSET (Kinds \cup {"CONNECT"}), does : {"pass", "edit", "answer"}])
    /\ RespHandlers \in Seq([when : SUBSET (Kinds \cup {"CONNECT"}), does : {"mark", "rescue"}])
ASSUME BoundAssumption ==
    Window \in Nat \ {0} /\ MaxItems \in Nat /\ Upstream \in BOOLEAN

VARIABLES
    mode,        \* what the proxy does with the connection
    pc,          \* of the handler, and of the copier from each side
    sent,        \* what each side sent
    taken, lost, \* how many items the proxy has read of it, and how many of
                 \* these it dropped with a reader, the first ones
    ends,        \* has a side sent its end, or closed its connection?
    opened,      \* is the proxy's end of the connection open?
    ahead,       \* requests read from the client ahead of the one at hand
    hand,        \* what each copier holds
    got, seen,   \* what the proxy wrote to each side, and how much a side read
    req, resp,   \* the request at hand, and its response
    forwarded,   \* history: requests sent on
    pipelined    \* history: did the client ask again before it was answered?

sideVars == <<sent, ends, seen, pipelined>>
copyVars == <<taken, lost, hand>>
loopVars == <<ahead, req, resp, forwarded>>
vars == <<mode, pc, sideVars, opened, got, copyVars, loopVars>>

Sides == {"client", "target"}
Other(s) == IF s = "client" THEN "target" ELSE "client"
Goto(t, l) == pc' = [pc EXCEPT ![t] = l]
NoItem == [no |-> 0, kind |-> "none"]
NoResp == [to |-> 0, by |-> "none", through |-> <<>>]

Init ==
    /\ mode = "new"
    /\ pc = [t \in {"serve"} \cup Sides |-> IF t = "serve" THEN "start" ELSE "unborn"]
    /\ sent = [s \in Sides |-> <<>>] /\ taken = [s \in Sides |-> 0]
    /\ lost = [s \in Sides |-> 0]
    /\ ends = [s \in Sides |-> "open"]
    /\ opened = [s \in Sides |-> s = "client"]
    /\ ahead = <<>> /\ hand = [s \in Sides |-> <<>>]
    /\ got = [s \in Sides |-> <<>>] /\ seen = [s \in Sides |-> 0]
    /\ req = NoItem /\ resp = NoResp
    /\ forwarded = <<>> /\ pipelined = FALSE

-----------------------------------------------------------------------------
(* The two sides *)

Unread(s) == Len(sent[s]) - taken[s]
Room(s) == Len(got[s]) - seen[s] < Window
Answered == Len(got["client"])

(* Where the proxy reads requests the client sends some, and bytes elsewhere. *)
Speech(m) == IF m \in {"plain", "mitm", "httpmitm"} THEN Kinds ELSE {"byte"}

(* The client need not wait for the answer to its CONNECT. *)
SideSends(s) ==
    /\ ends[s] = "open" /\ Len(sent[s]) < MaxItems
    /\ s = "target" => opened[s] /\ mode = "accept"
    /\ \E k \in (IF mode = "new" THEN Kinds \cup {"byte"} ELSE Speech(mode)) :
          sent' = [sent EXCEPT ![s] = Append(@, [no |-> Len(@) + 1, kind |-> k])]
    /\ pipelined' = (pipelined \/ (s = "client" /\ Len(sent[s]) > seen[s]))
    /\ UNCHANGED <<mode, pc, ends, seen, opened, got, copyVars, loopVars>>

SideReads(s) ==
    /\ seen[s] < Len(got[s])
    /\ seen' = [seen EXCEPT ![s] = @ + 1]
    /\ UNCHANGED <<mode, pc, sent, ends, pipelined, opened, got, copyVars, loopVars>>

SideEnds(s) ==
    /\ s = "target" => opened[s]
    /\ \/ ends[s] = "open" /\ ends' = [ends EXCEPT ![s] = "fin"]
       \/ ends[s] # "gone" /\ ends' = [ends EXCEPT ![s] = "gone"]
    /\ UNCHANGED <<mode, pc, sent, seen, pipelined, opened, got, copyVars, loopVars>>

-----------------------------------------------------------------------------
(* The handlers *)

(* The last handler that has an opinion wins. *)
ConnectAction(chain) ==
    LET decided == {i \in DOMAIN chain : chain[i] # "nil"} IN
        IF decided = {} THEN "accept" ELSE chain[Max(decided)]

(* What ReqProxyConds.Do registers: the handler, if all conditions hold. *)
HandleReq(h, r) ==
    CASE r.kind \notin h.when \/ h.does = "pass" -> [req |-> r, resp |-> NoResp]
      [] r.kind \in h.when /\ h.does = "edit" -> [req |-> [r EXCEPT !.kind = "edited"], resp |-> NoResp]
      [] r.kind \in h.when /\ h.does = "answer" ->
            [req |-> NoItem, resp |-> [NoResp EXCEPT !.to = r.no, !.by = "handler"]]

(* filterRequest gives every handler the client's request r, not what the
   one before it made of it, and stops at the first response; without one the
   last handler's request counts.  LastHandler alone is the loop without its
   break, the mutant. *)
Answerers(r) == {i \in DOMAIN ReqHandlers : HandleReq(ReqHandlers[i], r).resp # NoResp}
Unfiltered(r) == [req |-> r, resp |-> NoResp]

LastHandler(r) ==
    IF ReqHandlers = <<>> THEN Unfiltered(r) ELSE HandleReq(Last(ReqHandlers), r)

FilterRequest(r) ==
    IF Answerers(r) = {} THEN LastHandler(r) ELSE HandleReq(ReqHandlers[Min(Answerers(r))], r)

(* The request that conditions on a response see: in a tunnel ctx.Req is
   the CONNECT for as long as the tunnel is there. *)
CtxReq == IF mode = "plain" THEN sent["client"][req.no].kind ELSE "CONNECT"

(* What ProxyConds.Do registers: the handlers whose conditions hold, in turn. *)
Heard == SelectSeq([i \in DOMAIN RespHandlers |-> i], LAMBDA i : CtxReq \in RespHandlers[i].when)

(* filterResponse: all of them hear a response; a missing one is as it was
   until the first that makes one of it, and the rest hear that. *)
FilterResponse(a) ==
    LET rescuers == {k \in DOMAIN Heard : RespHandlers[Heard[k]].does = "rescue"} IN
        IF a.by # "none" THEN [a EXCEPT !.through = @ \o Heard]
        ELSE IF rescuers = {} THEN a
        ELSE [to |-> req.no, by |-> "handler", through |-> SubSeq(Heard, Min(rescuers), Len(Heard))]

-----------------------------------------------------------------------------
(* handleHttps: the answer to a CONNECT *)

(* A reader of what s sends is dropped with what it had read. *)
DropReader(s) ==
    \E n \in 0..Unread(s) :
        taken' = [taken EXCEPT ![s] = @ + n] /\ lost' = [lost EXCEPT ![s] = @ + n]

(* The proxy reads plain requests, or a CONNECT and does what its handlers
   say.  Hijack returns the connection, and the reader of net/http, which may
   have read behind the CONNECT: that is dropped. *)
Start ==
    /\ pc["serve"] = "start"
    /\ \/ mode' = "plain" /\ Goto("serve", "request") /\ UNCHANGED <<taken, lost>>
       \/ \E chain \in HttpsHandlers :
             /\ mode' = ConnectAction(chain)
             /\ DropReader("client")
             /\ Goto("serve", CASE mode' \in {"accept", "httpmitm"} -> "dial"
                                [] mode' = "mitm" -> "shake"
                                [] mode' = "hijack" -> "done"
                                [] mode' = "reject" -> "close")
    /\ \A i \in DOMAIN sent["client"] : sent["client"][i].kind \in Speech(mode')
    /\ UNCHANGED <<sideVars, opened, got, hand, loopVars>>

(* connectDial; on failure httpError closes the client of a tunnel, and
   ConnectHTTPMitm returns with it open.  Through an upstream proxy the
   response to the proxy's CONNECT comes first. *)
Dial ==
    /\ pc["serve"] = "dial"
    /\ \/ /\ opened' = [opened EXCEPT !["target"] = TRUE]
          /\ Goto("serve", IF Upstream THEN "upstream"
                           ELSE IF mode = "accept" THEN "tunnel" ELSE "request")
       \/ /\ Goto("serve", IF mode = "accept" THEN "close" ELSE "done")
          /\ UNCHANGED opened
    /\ UNCHANGED <<mode, sideVars, got, copyVars, loopVars>>

(* NewConnectDialToProxy: the reader of the response is dropped with what it
   had read behind it. *)
DialUpstream ==
    /\ pc["serve"] = "upstream"
    /\ \/ /\ DropReader("target")
          /\ Goto("serve", IF mode = "accept" THEN "tunnel" ELSE "request")
          /\ UNCHANGED opened
       \/ /\ opened' = [opened EXCEPT !["target"] = FALSE]
          /\ Goto("serve", IF mode = "accept" THEN "close" ELSE "done")
          /\ UNCHANGED <<taken, lost>>
    /\ UNCHANGED <<mode, sideVars, got, hand, loopVars>>

(* The two copiers of ConnectAccept *)
Tunnel ==
    /\ pc["serve"] = "tunnel"
    /\ pc' = [serve |-> "done", client |-> "copy", target |-> "copy"]
    /\ UNCHANGED <<mode, sideVars, opened, got, copyVars, loopVars>>

(* signHost and the TLS handshake, which fails where the head of what the
   client sent is lost; a failure leaves the client open. *)
MitmHandshake ==
    /\ pc["serve"] = "shake"
    /\ \/ lost["client"] = 0 /\ Goto("serve", "request")
       \/ Goto("serve", "done")
    /\ UNCHANGED <<mode, sideVars, opened, got, copyVars, loopVars>>

(* Close of the client's connection, after a refusal, by httpError, by
   the deferred Close of the TLS connection, or by net/http. *)
CloseClient ==
    /\ pc["serve"] = "close"
    /\ opened' = [opened EXCEPT !["client"] = FALSE]
    /\ Goto("serve", "done")
    /\ UNCHANGED <<mode, sideVars, got, copyVars, loopVars>>

-----------------------------------------------------------------------------
(* copyAndClose(from side s to the other) *)

CopyRead(s) ==
    /\ pc[s] = "copy" /\ hand[s] = <<>> /\ opened[s]
    /\ \E n \in 1..Unread(s) :
          /\ hand' = [hand EXCEPT ![s] = SubSeq(sent[s], taken[s] + 1, taken[s] + n)]
          /\ taken' = [taken EXCEPT ![s] = @ + n]
    /\ UNCHANGED <<mode, pc, sideVars, opened, got, lost, loopVars>>

(* Mutants, here and below, are the slips the run is shown to catch. *)
WriteKept(s) == hand[s]
WriteDone(s) == Tail(hand[s])

CopyWrite(s) ==
    /\ pc[s] = "copy" /\ hand[s] # <<>>
    /\ opened[Other(s)] /\ Room(Other(s))
    /\ got' = [got EXCEPT ![Other(s)] = Append(@, Head(hand[s]))]
    /\ hand' = [hand EXCEPT ![s] = WriteDone(s)]
    /\ UNCHANGED <<mode, pc, sideVars, opened, taken, lost, loopVars>>

(* io.Copy ends at the end of what s sends, or with an error of either
   connection. *)
CopyEnds(s) ==
    /\ pc[s] = "copy"
    /\ \/ hand[s] = <<>> /\ (~opened[s] \/ ends[s] = "gone" \/ (ends[s] = "fin" /\ Unread(s) = 0))
       \/ hand[s] # <<>> /\ (~opened[Other(s)] \/ ends[Other(s)] = "gone")
    /\ Goto(s, "close")
    /\ UNCHANGED <<mode, sideVars, opened, got, copyVars, loopVars>>

CloseUnlessFailed(s) ==
    /\ pc[s] = "close"
    /\ opened' = IF hand[s] # <<>> THEN opened ELSE [opened EXCEPT ![Other(s)] = FALSE]
    /\ Goto(s, "done")
    /\ UNCHANGED <<mode, sideVars, got, copyVars, loopVars>>
CopyClose(s) ==
    /\ pc[s] = "close"
    /\ opened' = [opened EXCEPT ![Other(s)] = FALSE]
    /\ Goto(s, "done")
    /\ UNCHANGED <<mode, sideVars, got, copyVars, loopVars>>

-----------------------------------------------------------------------------
(* The loops over requests: http.Serve calling ServeHTTP, and those of the
   two kinds of man in the middle *)

(* ConnectHTTPMitm makes a new reader for every request. *)
AlwaysFresh == <<>>
Ahead == IF mode = "httpmitm" THEN <<>> ELSE ahead

(* A relative URL is answered by ServeHTTP itself. *)
Filtered(r) ==
    IF mode = "plain" /\ r.kind = "relative"
    THEN [req |-> r, resp |-> [NoResp EXCEPT !.to = r.no, !.by = "proxy"]]
    ELSE FilterRequest(r)

ReadRequest ==
    /\ pc["serve"] = "request"
    /\ \E n \in 0..Unread("client") :
          /\ Ahead = <<>> <=> n > 0
          /\ LET items == Ahead \o SubSeq(sent["client"], taken["client"] + 1, taken["client"] + n)
                 f == Filtered(Head(items)) IN
                /\ ahead' = Tail(items)
                /\ req' = IF f.resp = NoResp THEN f.req ELSE Head(items)
                /\ resp' = f.resp
                /\ Goto("serve", CASE f.resp = NoResp -> "send"
                                   [] f.resp.by = "proxy" -> "write"
                                   [] OTHER -> "filter")
          /\ taken' = [taken EXCEPT !["client"] = @ + n]
    /\ UNCHANGED <<mode, sideVars, opened, got, lost, hand, forwarded>>

(* The client has no more requests: ConnectHTTPMitm returns. *)
LastRequest ==
    /\ pc["serve"] = "request"
    /\ Ahead = <<>> /\ Unread("client") = 0 /\ ends["client"] # "open"
    /\ Goto("serve", IF mode = "httpmitm" THEN "done" ELSE "close")
    /\ UNCHANGED <<mode, sideVars, opened, got, copyVars, loopVars>>

RoundTrip ==
    /\ pc["serve"] = "send"
    /\ ends["target"] # "gone"
    /\ forwarded' = Append(forwarded, req.no)
    /\ resp' = [NoResp EXCEPT !.to = req.no, !.by = "server"]
    /\ Goto("serve", "filter")
    /\ UNCHANGED <<mode, sideVars, opened, got, copyVars, ahead, req>>

(* ServeHTTP filters the missing response, and what comes of that is
   filtered once more as any response; the others give up. *)
RoundTripFails ==
    /\ pc["serve"] = "send"
    /\ forwarded' = Append(forwarded, req.no)
    /\ IF mode = "plain"
       THEN LET a == FilterResponse(NoResp) IN
            /\ resp' = IF a = NoResp THEN [NoResp EXCEPT !.to = req.no, !.by = "proxy"] ELSE a
            /\ Goto("serve", IF a = NoResp THEN "write" ELSE "filter")
       ELSE Goto("serve", "close") /\ UNCHANGED resp
    /\ UNCHANGED <<mode, sideVars, opened, got, copyVars, ahead, req>>

Filter ==
    /\ pc["serve"] = "filter"
    /\ resp' = FilterResponse(resp)
    /\ Goto("serve", "write")
    /\ UNCHANGED <<mode, sideVars, opened, got, copyVars, ahead, req, forwarded>>

WriteResponse ==
    /\ pc["serve"] = "write"
    /\ \/ /\ Room("client")
          /\ got' = [got EXCEPT !["client"] = Append(@, resp)]
          /\ Goto("serve", "request")
       \/ /\ ends["client"] = "gone"
          /\ Goto("serve", "close")
          /\ UNCHANGED got
    /\ req' = NoItem /\ resp' = NoResp
    /\ UNCHANGED <<mode, sideVars, opened, copyVars, ahead, forwarded>>

-----------------------------------------------------------------------------
Serve == \/ Start \/ Dial \/ DialUpstream \/ Tunnel \/ MitmHandshake \/ CloseClient
         \/ ReadRequest \/ LastRequest \/ RoundTrip \/ RoundTripFails \/ Filter \/ WriteResponse
Copy(s) == CopyRead(s) \/ CopyWrite(s) \/ CopyEnds(s) \/ CopyClose(s)
Peers == \E s \in Sides : SideSends(s) \/ SideReads(s) \/ SideEnds(s)

Next == Serve \/ Peers \/ \E s \in Sides : Copy(s)
Spec == Init /\ [][Next]_vars

(* The goroutines run on; the sides need not send, read, or end. *)
FairSpec == Spec /\ WF_vars(Serve) /\ \A s \in Sides : WF_vars(Copy(s))

-----------------------------------------------------------------------------
(* A client of the request loops gets its answers in the order of its
   requests and none is missing but for those lost behind a CONNECT, whether
   they come from a server, a handler or the proxy, and whatever was read
   ahead; behind ConnectHTTPMitm only as long as it waits for each answer
   before it asks again. *)
AnswersInOrder ==
    mode \in {"plain", "mitm", "httpmitm"} /\ ~(mode = "httpmitm" /\ pipelined) =>
        \A i \in 1..Answered : got["client"][i].to = lost["client"] + i

(* A request goes to a server at most once, in the order of the requests,
   and never when a handler has answered it; a server's answer is given
   only to a request that was sent on. *)
ForwardedOnce ==
    /\ \A i, j \in DOMAIN forwarded : i < j => forwarded[i] < forwarded[j]
    /\ mode \in {"plain", "mitm", "httpmitm"} =>
          /\ \A i \in 1..Answered :
                LET a == got["client"][i] IN
                    a.by = "server" => a.to \in ToSet(forwarded)
          /\ \A no \in ToSet(forwarded) :
                \A h \in ToSet(ReqHandlers) :
                    h.does = "answer" => sent["client"][no].kind \notin h.when

(* What a tunnel gives a side is all that the other side sent, in order, once
   the first bytes are lost with the readers that were dropped: those of the
   client with the one of Hijack, those of the target with the one of the
   upstream proxy's answer.  No reader is dropped once anything was given. *)
After(s) == SubSeq(sent[s], lost[s] + 1, Len(sent[s]))
TunnelInOrder ==
    mode = "accept" => \A s \in Sides : IsPrefix(got[s], After(Other(s)))

(* A tunnel gives the target all bytes of the client, from the first one on. *)
AllBytesForwarded == mode = "accept" => IsPrefix(got["target"], sent["client"])

(* Once a side of a tunnel ends, both connections are closed, unless a
   copier waits for ever for a side that does not read. *)
Tunnelled == pc["client"] # "unborn"
TunnelReleased ==
    \A s \in Sides :
        <>(Tunnelled /\ ends[s] # "open") =>
            \/ <>(\A x \in Sides : ~opened[x])
            \/ \E x \in Sides : <>[](~Room(x) /\ hand[Other(x)] # <<>>)

(* What may go on whatever the sides do: the handler, and the copiers. *)
ServeMoves ==
    \/ pc["serve"] \notin {"request", "write", "done"}
    \/ pc["serve"] = "request" /\ (Ahead # <<>> \/ Unread("client") > 0 \/ ends["client"] # "open")
    \/ pc["serve"] = "write" /\ (Room("client") \/ ends["client"] = "gone")
CopyMoves(s) ==
    \/ pc[s] = "close"
    \/ pc[s] = "copy" /\ hand[s] = <<>> /\ (~opened[s] \/ ends[s] # "open" \/ Unread(s) > 0)
    \/ /\ pc[s] = "copy" /\ hand[s] # <<>>
       /\ ~opened[Other(s)] \/ ends[Other(s)] = "gone" \/ Room(Other(s))
Moves == ServeMoves \/ \E s \in Sides : CopyMoves(s)

(* Where the proxy stops it owes nobody anything.  A tunnel of which a side
   has ended is closed on both sides, or a copier waits for a side that does
   not read.  A handler that waits for the next request has answered all
   before, except those that were lost with the reader of Hijack, or with the
   readers of ConnectHTTPMitm; one that waits with an answer waits for its
   client to read. *)
Stuck(s) == ~Room(s) /\ hand[Other(s)] # <<>>
TunnelSettled ==
    Tunnelled /\ (\E s \in Sides : ends[s] # "open") =>
        (\A s \in Sides : ~opened[s]) \/ (\E s \in Sides : Stuck(s))
LoopSettled ==
    \/ pc["serve"] = "done"
    \/ pc["serve"] = "write" /\ ~Room("client")
    \/ /\ pc["serve"] = "request" /\ ends["client"] = "open"
       /\ lost["client"] + Answered = Len(sent["client"]) \/ (mode = "httpmitm" /\ pipelined)
StopsSettled == Moves \/ (TunnelSettled /\ LoopSettled)
=============================================================================
