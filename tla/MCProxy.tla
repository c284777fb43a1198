------------------------------ MODULE MCProxy ------------------------------
(* Chains of handlers for TLC: each action of a CONNECT, with handlers that have no opinion
   and that overrule each other, and request handlers of each sort. *)
EXTENDS Proxy

MCHttpsHandlers ==
    {<<>>, <<"mitm", "nil", "accept">>, <<"nil", "httpmitm">>, <<"accept", "mitm">>,
     <<"hijack">>, <<"reject", "nil">>}
MCReqHandlers ==
    <<[when |-> {"edit"}, does |-> "edit"], [when |-> {"canned"}, does |-> "answer"],
      [when |-> {"get"}, does |-> "pass"]>>
MCRespHandlers ==
    <<[when |-> {"get", "CONNECT"}, does |-> "mark"], [when |-> {"edit"}, does |-> "rescue"]>>
=============================================================================
