--------------------------- MODULE YamuxStreamPipe ---------------------------
(* A yamux stream implements a ByteStream in each direction, as long as no   *)
(* Close overlaps a Write of the same end.                                   *)
EXTENDS YamuxStream

(* The direction from e to its peer. *)
PipeStatus(e) ==
    IF Broken \/ Rejected THEN "broken"
    ELSE IF state[e] \in {"LocalClose", "Closed"} THEN "finished" ELSE "open"

Ended(e) == \E r \in Readers[e] : pc[e][r] \in {"eof", "reset", "failed"}

Request == INSTANCE ByteStream WITH
    written <- sent["opener"], read <- delivered["acceptor"],
    status <- PipeStatus("opener"), ended <- Ended("acceptor")
Response == INSTANCE ByteStream WITH
    written <- sent["acceptor"], read <- delivered["opener"],
    status <- PipeStatus("acceptor"), ended <- Ended("opener")

(* Each step of the stream is a step of the abstract pipe in each direction:
   no byte is invented, lost, repeated or reordered, none is accepted after
   the half-close, and no end of file is told before the last byte. *)
ImplementsRequestPipe == Request!Spec
ImplementsResponsePipe == Response!Spec
=============================================================================
