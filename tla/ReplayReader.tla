---------------------------- MODULE ReplayReader ----------------------------
(***************************************************************************)
(* What a regretable reader promises: a source read in order, and a mark   *)
(* to which its user can go back.  The bytes of the source are numbered    *)
(* from 1; pos of them are behind the reader, mark behind the mark.        *)
(***************************************************************************)
EXTENDS Naturals

CONSTANT SourceLength

VARIABLES pos, mark,
          out   \* what the last Read returned
vars == <<pos, mark, out>>

Init == pos = 0 /\ mark = 0 /\ out = <<>>

Read ==
    /\ \E n \in 0..(SourceLength - pos) :
       /\ out' = [i \in 1..n |-> pos + i]
       /\ pos' = pos + n
    /\ UNCHANGED mark

(* "The next read will be as if the underlying reader was never read (or from the
   last point forget is called)." *)
Regret ==
    /\ pos' = mark
    /\ UNCHANGED <<mark, out>>

(* "Will 'forget' everything read so far." *)
Forget ==
    /\ mark' = pos
    /\ UNCHANGED <<pos, out>>

Next == Read \/ Regret \/ Forget
Spec == Init /\ [][Next]_vars
=============================================================================
