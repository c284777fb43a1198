-------------------------- MODULE RegretableReader --------------------------
(***************************************************************************)
(* The buffer of goproxy/regretable/regretreader.go: Read, Regret and      *)
(* Forget.  A byte is its number in the source.  The two panics are        *)
(* guards: a user that regrets or forgets after an overflow is told.       *)
(***************************************************************************)
EXTENDS Integers

CONSTANTS
    Size,          \* len(buf)
    SourceLength,  \* bytes the source has to give
    MaxRead,       \* len(p) of the longest Read
    ForgetBehind   \* may Forget be called with replayed bytes still to read?

ASSUME SizeAssumption == Size \in Nat /\ SourceLength \in Nat /\ MaxRead \in Nat
ASSUME UserAssumption == ForgetBehind \in BOOLEAN

VARIABLES
    taken,         \* bytes read from the source
    buf, r, w, overflow,
    closed,        \* RegretableReaderCloser.Close was called
    out,           \* the bytes the last Read returned
    forgotten      \* history: the bytes taken from the source before the last Forget
vars == <<taken, buf, r, w, overflow, closed, out, forgotten>>

Lesser(a, b) == IF a <= b THEN a ELSE b

Init ==
    /\ taken = 0
    /\ buf = [i \in 0..(Size - 1) |-> 0]
    /\ r = 0 /\ w = 0 /\ overflow = FALSE
    /\ closed = FALSE
    /\ out = <<>>
    /\ forgotten = 0

(* What the source answers to a read of at most p bytes: fewer, none at its end or once it
   is closed. *)
Source(p) == 0..(IF closed THEN 0 ELSE Lesser(p, SourceLength - taken))

ReadThrough(p) ==
    /\ overflow
    /\ \E n \in Source(p) :
       /\ out' = [i \in 1..n |-> taken + i]
       /\ taken' = taken + n
    /\ UNCHANGED <<buf, r, w, overflow, closed, forgotten>>

(* Mutants, here and below, are the slips the run is shown to catch. *)
ReplayedToEnd(p) ==
    /\ ~overflow /\ r < w
    /\ out' = [i \in 1..Lesser(p, w - r) |-> buf[r + i - 1]]
    /\ r' = w
    /\ UNCHANGED <<taken, buf, w, overflow, closed, forgotten>>

ReadReplayed(p) ==
    /\ ~overflow /\ r < w
    /\ LET n == Lesser(p, w - r) IN
       /\ out' = [i \in 1..n |-> buf[r + i - 1]]
       /\ r' = r + n
    /\ UNCHANGED <<taken, buf, w, overflow, closed, forgotten>>

ReadBufferedLate(p) ==
    /\ ~overflow /\ r >= w
    /\ \E n \in Source(p) : LET bn == Lesser(n, Size - w) IN
       /\ out' = [i \in 1..n |-> taken + i]
       /\ taken' = taken + n
       /\ buf' = [i \in DOMAIN buf |-> IF i \in w..(w + bn - 1) THEN taken + i - w + 1 ELSE buf[i]]
       /\ w' = w + bn /\ r' = w + bn
       /\ overflow' = (bn < n - 1)
    /\ UNCHANGED <<closed, forgotten>>

(* w grows by what fitted, r by what was read. *)
ReadBuffered(p) ==
    /\ ~overflow /\ r >= w
    /\ \E n \in Source(p) : LET bn == Lesser(n, Size - w) IN
       /\ out' = [i \in 1..n |-> taken + i]
       /\ taken' = taken + n
       /\ buf' = [i \in DOMAIN buf |-> IF i \in w..(w + bn - 1) THEN taken + i - w + 1 ELSE buf[i]]
       /\ w' = w + bn /\ r' = w + n
       /\ overflow' = (bn < n)
    /\ UNCHANGED <<closed, forgotten>>

Regret ==
    /\ ~overflow
    /\ r' = 0
    /\ UNCHANGED <<taken, buf, w, overflow, closed, out, forgotten>>

Forget ==
    /\ ~overflow
    /\ ForgetBehind \/ r = w
    /\ r' = 0 /\ w' = 0
    /\ forgotten' = taken
    /\ UNCHANGED <<taken, buf, overflow, closed, out>>

Close ==
    /\ closed' = TRUE
    /\ UNCHANGED <<taken, buf, r, w, overflow, out, forgotten>>

Next ==
    \/ \E p \in 0..MaxRead : ReadThrough(p) \/ ReadReplayed(p) \/ ReadBuffered(p)
    \/ Regret \/ Forget \/ Close
Spec == Init /\ [][Next]_vars

-----------------------------------------------------------------------------
(* Properties *)

Position == IF overflow THEN taken ELSE forgotten + r
Replay == INSTANCE ReplayReader WITH pos <- Position, mark <- forgotten

(* Reads return the bytes of the source in order, again from the mark after a Regret, and
   never skip or repeat one otherwise.  It takes a user that does not Forget while it still
   has bytes to read again: with ForgetBehind those bytes are skipped. *)
ImplementsReplay == Replay!Spec

(* Regret and Forget are refused exactly when the bytes taken from the source since the last
   Forget did not fit in buf, whenever the user forgets. *)
OverflowExact == overflow <=> taken - forgotten > Size

(* The invariant the proofs rest on: what the buffer holds are the bytes taken
   since the last Forget. *)
BufferHolds ==
    /\ taken \in Nat /\ forgotten \in Nat /\ r \in Nat /\ w \in 0..Size
    /\ overflow \in BOOLEAN /\ closed \in BOOLEAN
    /\ buf \in [0..(Size - 1) -> Nat]
    /\ taken <= SourceLength /\ forgotten <= taken
    /\ ~overflow =>
        /\ r <= w /\ taken = forgotten + w
        /\ \A i \in 0..(w - 1) : buf[i] = forgotten + i + 1
=============================================================================
