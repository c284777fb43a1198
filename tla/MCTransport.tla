----------------------------- MODULE MCTransport -----------------------------
(* Instances of Transport for TLC. *)
EXTENDS Transport

OneHost == [r \in Requests |-> "a"]
=============================================================================
