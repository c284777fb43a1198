----------------------------- MODULE ByteStream -----------------------------
(* What one direction of a stream promises its two users: a reliable pipe of *)
(* bytes that the writer may finish and that either session may break.       *)
EXTENDS Naturals, Sequences

VARIABLES
    written,   \* how many bytes the writer has put in
    read,      \* the bytes returned to the readers, as positions
    status,    \* "open", "finished" by the writer, or "broken"
    ended      \* have the readers been told that nothing more comes?

vars == <<written, read, status, ended>>

Init == written = 0 /\ read = <<>> /\ status = "open" /\ ended = FALSE

(* A writer may go on for a while into a broken pipe, never a finished one. *)
Write ==
    /\ status # "finished"
    /\ written' > written
    /\ written' \in Nat
    /\ UNCHANGED <<read, status, ended>>

Finish == status = "open" /\ status' = "finished" /\ UNCHANGED <<written, read, ended>>

Break == status # "broken" /\ status' = "broken" /\ UNCHANGED <<written, read, ended>>

(* The next bytes, in order. *)
Read ==
    /\ Len(read') \in (Len(read) + 1)..written
    /\ read' = [i \in 1..Len(read') |-> IF i <= Len(read) THEN read[i] ELSE i]
    /\ UNCHANGED <<written, status, ended>>

(* The end is told once every byte has been read, or the pipe is broken. *)
End ==
    /\ status = "broken" \/ (status = "finished" /\ Len(read) = written)
    /\ ended' = TRUE
    /\ UNCHANGED <<written, read, status>>

Next == Write \/ Finish \/ Break \/ Read \/ End

Spec == Init /\ [][Next]_vars
=============================================================================
