----------------------------- MODULE MCYamuxLink -----------------------------
(* Two goroutines at the client, two at the server, each with more than one
   thing to do. *)
EXTENDS YamuxLink

MCOpeners == {<<"client", "user">>, <<"client", "other">>}
MCPingers == {<<"client", "other">>, <<"server", "keepalive">>}
MCServing == {<<"server", "serve">>}
MCMaxPings == [e \in Ends |-> 1]
=============================================================================
