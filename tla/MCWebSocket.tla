----------------------------- MODULE MCWebSocket -----------------------------
(* Requests and frames for TLC: a good one, and one for each way to be refused. *)
EXTENDS WebSocket

Good == [method |-> "GET", upgrade |-> TRUE, key |-> "k", version |-> "13", uri |-> TRUE,
         origin |-> "url", protocols |-> <<"p">>]
MCRequests ==
    {Good, [Good EXCEPT !.method = "POST"], [Good EXCEPT !.upgrade = FALSE],
     [Good EXCEPT !.key = ""], [Good EXCEPT !.version = "8"], [Good EXCEPT !.uri = FALSE],
     [Good EXCEPT !.origin = "null"], [Good EXCEPT !.origin = "bad"],
     [Good EXCEPT !.protocols = <<"p", "q">>]}

Frame(op, size) == [op |-> op, size |-> size, masked |-> TRUE]
MCFrames ==
    {Frame("data", 0), Frame("data", 2), Frame("ping", 0), Frame("ping", 1), Frame("close", 0),
     Frame("pong", 1), [Frame("data", 1) EXCEPT !.masked = FALSE]}
=============================================================================
