--------------------------- MODULE MCYamuxSession ---------------------------
(* Instances of YamuxSession for TLC. *)
EXTENDS YamuxSession
=============================================================================
