----------------------- MODULE RegretableReaderProofs -----------------------
(***************************************************************************)
(* The buffer of a regretable reader holds the bytes since the last Forget *)
(* and overflow says exactly when it does not, whenever the user forgets;  *)
(* a user that never forgets bytes it has still to read again gets what    *)
(* ReplayReader promises: for every size of the buffer, every source and   *)
(* every length of a Read.                                                 *)
(***************************************************************************)
EXTENDS RegretableReader, TLAPS

(* BufferHolds gives one half of OverflowExact (without an overflow the bytes
   since the last Forget are the w bytes of the buffer), Overflowed the other. *)
Overflowed == overflow => taken - forgotten > Size
ReaderInv == BufferHolds /\ Overflowed

LEMMA SourceBound ==
    ASSUME BufferHolds, NEW p \in 0..MaxRead, NEW n \in Source(p)
    PROVE  n \in Nat /\ taken + n <= SourceLength
<1> USE SizeAssumption DEF Source, Lesser, BufferHolds
<1>1. CASE closed
    BY <1>1
<1>2. CASE ~closed
    BY <1>2
<1> QED BY <1>1, <1>2

LEMMA InitHolds == Init => ReaderInv
<1> SUFFICES ASSUME Init PROVE ReaderInv
    OBVIOUS
<1>1. taken = 0 /\ forgotten = 0 /\ r = 0 /\ w = 0 /\ overflow = FALSE /\ closed = FALSE
    BY DEF Init
<1>2. buf \in [0..(Size - 1) -> Nat]
    BY DEF Init
<1>3. \A i \in 0..(w - 1) : buf[i] = forgotten + i + 1
    BY <1>1
<1>4. overflow \in BOOLEAN /\ closed \in BOOLEAN /\ ~overflow
    BY <1>1
<1>5. /\ taken \in Nat /\ forgotten \in Nat /\ r \in Nat /\ w \in 0..Size
      /\ taken <= SourceLength /\ forgotten <= taken /\ r <= w /\ taken = forgotten + w
    BY <1>1, SizeAssumption
<1> QED BY <1>2, <1>3, <1>4, <1>5 DEF ReaderInv, BufferHolds, Overflowed

(* A buffered read: the bytes that fit go behind those already there. *)
LEMMA BufferedKeeps ==
    ASSUME ReaderInv, NEW p \in 0..MaxRead, ReadBuffered(p)
    PROVE  ReaderInv'
<1> USE SizeAssumption
<1>1. PICK n \in Source(p) :
          /\ taken' = taken + n
          /\ buf' = [i \in DOMAIN buf |->
                        IF i \in w..(w + Lesser(n, Size - w) - 1) THEN taken + i - w + 1 ELSE buf[i]]
          /\ w' = w + Lesser(n, Size - w) /\ r' = w + n
          /\ overflow' = (Lesser(n, Size - w) < n)
    BY DEF ReadBuffered
<1>2. ~overflow /\ closed' = closed /\ forgotten' = forgotten
    BY DEF ReadBuffered
<1>3. n \in Nat /\ taken + n <= SourceLength
    BY SourceBound DEF ReaderInv
<1> DEFINE bn == Lesser(n, Size - w)
<1>4. /\ taken \in Nat /\ forgotten \in Nat /\ w \in 0..Size
      /\ forgotten <= taken /\ taken = forgotten + w
      /\ buf \in [0..(Size - 1) -> Nat]
      /\ \A i \in 0..(w - 1) : buf[i] = forgotten + i + 1
    BY <1>2 DEF ReaderInv, BufferHolds
<1>5. bn \in 0..(Size - w) /\ bn <= n /\ (bn < n => bn = Size - w)
    BY <1>3, <1>4 DEF Lesser
<1>a. overflow' <=> bn < n
    BY <1>1, Zenon
<1>b. /\ taken' = taken + n /\ w' = w + bn /\ r' = w + n
      /\ forgotten' = forgotten
    BY <1>1, <1>2
<1>6. buf' \in [0..(Size - 1) -> Nat]
    <2>1. \A i \in 0..(Size - 1) :
             (IF i \in w..(w + bn - 1) THEN taken + i - w + 1 ELSE buf[i]) \in Nat
        BY <1>4, <1>5
    <2> QED BY <1>1, <1>4, <2>1
<1>7. ASSUME ~overflow', NEW i \in 0..(w' - 1)
      PROVE  buf'[i] = forgotten + i + 1
    <2>1. i \in 0..(Size - 1)
        BY <1>1, <1>4, <1>5
    <2>2. buf'[i] = IF i \in w..(w + bn - 1) THEN taken + i - w + 1 ELSE buf[i]
        BY <1>1, <1>4, <2>1
    <2> QED BY <1>1, <1>4, <1>5, <1>7, <2>2
<1>8. BufferHolds'
    <2>1. overflow' \in BOOLEAN /\ closed' \in BOOLEAN
        BY <1>1, <1>2 DEF ReaderInv, BufferHolds
    <2>2. /\ taken' \in Nat /\ forgotten' \in Nat /\ r' \in Nat /\ w' \in 0..Size
          /\ taken' <= SourceLength /\ forgotten' <= taken'
        BY <1>1, <1>2, <1>3, <1>4, <1>5
    <2>3. ASSUME ~overflow' PROVE r' <= w' /\ taken' = forgotten' + w'
        <3>1. bn = n
            BY <1>3, <1>4, <1>5, <1>a, <2>3
        <3> HIDE DEF bn
        <3> QED BY <1>3, <1>4, <1>b, <3>1
    <2>4. ASSUME ~overflow' PROVE \A i \in 0..(w' - 1) : buf'[i] = forgotten' + i + 1
        BY <1>2, <1>7, <2>4
    <2> QED BY <1>6, <2>1, <2>2, <2>3, <2>4 DEF BufferHolds
<1>9. Overflowed'
    <2>1. ASSUME overflow' PROVE taken' - forgotten' > Size
        <3>1. bn = Size - w /\ bn < n
            BY <1>5, <1>a, <2>1
        <3> HIDE DEF bn
        <3> QED BY <1>3, <1>4, <1>b, <3>1
    <2> QED BY <2>1 DEF Overflowed
<1> QED BY <1>8, <1>9 DEF ReaderInv

LEMMA NextKeeps ==
    ASSUME ReaderInv, [Next]_vars
    PROVE  ReaderInv'
<1> USE SizeAssumption
<1>1. ASSUME NEW p \in 0..MaxRead, ReadThrough(p) PROVE ReaderInv'
    <2>1. PICK n \in Source(p) : taken' = taken + n
        BY <1>1 DEF ReadThrough
    <2>2. n \in Nat /\ taken + n <= SourceLength
        BY SourceBound DEF ReaderInv
    <2> QED BY <1>1, <2>1, <2>2 DEF ReadThrough, ReaderInv, BufferHolds, Overflowed
<1>2. ASSUME NEW p \in 0..MaxRead, ReadReplayed(p) PROVE ReaderInv'
    BY <1>2 DEF ReadReplayed, Lesser, ReaderInv, BufferHolds, Overflowed
<1>3. ASSUME NEW p \in 0..MaxRead, ReadBuffered(p) PROVE ReaderInv'
    BY <1>3, BufferedKeeps
<1>4. CASE Regret
    BY <1>4 DEF Regret, ReaderInv, BufferHolds, Overflowed
<1>5. CASE Forget
    BY <1>5 DEF Forget, ReaderInv, BufferHolds, Overflowed
<1>6. CASE Close
    BY <1>6 DEF Close, ReaderInv, BufferHolds, Overflowed
<1>7. CASE UNCHANGED vars
    BY <1>7 DEF vars, ReaderInv, BufferHolds, Overflowed
<1> QED BY <1>1, <1>2, <1>3, <1>4, <1>5, <1>6, <1>7 DEF Next

LEMMA ReaderInvariant == Spec => []ReaderInv
<1>1. Init => ReaderInv
    BY InitHolds
<1>2. ReaderInv /\ [Next]_vars => ReaderInv'
    BY NextKeeps
<1> QED BY <1>1, <1>2, PTL DEF Spec

(* Regret and Forget panic exactly when a byte taken since the last Forget
   did not fit: the flag overflow of Read is neither early nor late, for
   every size and every user, also one that forgets bytes it could still
   have read again. *)
THEOREM OverflowIsExact == Spec => []OverflowExact
<1>1. ReaderInv => OverflowExact
    BY SizeAssumption DEF ReaderInv, BufferHolds, Overflowed, OverflowExact
<1> QED BY <1>1, ReaderInvariant, PTL

-----------------------------------------------------------------------------
(* The refinement *)

LEMMA InitReplays == Init => Replay!Init
BY DEF Init, Replay!Init, Position

LEMMA ThroughReplays ==
    ASSUME ReaderInv, NEW p \in 0..MaxRead, ReadThrough(p)
    PROVE  Replay!Read
<1>1. PICK n \in Source(p) : out' = [i \in 1..n |-> taken + i] /\ taken' = taken + n
    BY DEF ReadThrough
<1>2. n \in Nat /\ taken + n <= SourceLength
    BY SourceBound DEF ReaderInv
<1>3. Position = taken /\ Position' = taken + n /\ forgotten' = forgotten
    BY <1>1 DEF ReadThrough, Position
<1>4. n \in 0..(SourceLength - Position)
    BY <1>2, <1>3, SizeAssumption DEF ReaderInv, BufferHolds
<1> QED BY <1>1, <1>3, <1>4 DEF Replay!Read

LEMMA ReplayedReplays ==
    ASSUME ReaderInv, NEW p \in 0..MaxRead, ReadReplayed(p)
    PROVE  Replay!Read
<1> DEFINE n == Lesser(p, w - r)
<1>1. /\ taken \in Nat /\ forgotten \in Nat /\ r \in Nat /\ w \in Nat /\ r < w
      /\ taken = forgotten + w /\ taken <= SourceLength
      /\ \A i \in 0..(w - 1) : buf[i] = forgotten + i + 1
    BY DEF ReadReplayed, ReaderInv, BufferHolds
<1>2. n \in Nat /\ n <= w - r
    BY <1>1, SizeAssumption DEF Lesser
<1>3. Position = forgotten + r /\ Position' = Position + n /\ forgotten' = forgotten
    BY <1>1, <1>2 DEF ReadReplayed, Position
<1>4. \A i \in 1..n : buf[r + i - 1] = Position + i
    <2> SUFFICES ASSUME NEW i \in 1..n PROVE buf[r + i - 1] = Position + i
        OBVIOUS
    <2>1. r + i - 1 \in 0..(w - 1)
        BY <1>1, <1>2
    <2>2. buf[r + i - 1] = forgotten + (r + i - 1) + 1
        BY <1>1, <2>1
    <2> HIDE DEF n
    <2> QED BY <1>1, <1>2, <1>3, <2>2
<1>5. out' = [i \in 1..n |-> Position + i]
    BY <1>4 DEF ReadReplayed
<1>6. n \in 0..(SourceLength - Position)
    <2> HIDE DEF n
    <2> QED BY <1>1, <1>2, <1>3, SizeAssumption
<1> QED BY <1>3, <1>5, <1>6 DEF Replay!Read

LEMMA BufferedReplays ==
    ASSUME ReaderInv, NEW p \in 0..MaxRead, ReadBuffered(p)
    PROVE  Replay!Read
<1>1. PICK n \in Source(p) :
          /\ out' = [i \in 1..n |-> taken + i] /\ taken' = taken + n /\ r' = w + n
    BY DEF ReadBuffered
<1>2. n \in Nat /\ taken + n <= SourceLength
    BY SourceBound DEF ReaderInv
<1>3. /\ taken \in Nat /\ forgotten \in Nat /\ r \in Nat /\ w \in Nat
      /\ r = w /\ taken = forgotten + w /\ ~overflow /\ forgotten' = forgotten
    BY DEF ReadBuffered, ReaderInv, BufferHolds
<1>4. Position = taken /\ Position' = taken + n
    <2>1. CASE overflow'
        BY <1>1, <1>3, <2>1 DEF Position
    <2>2. CASE ~overflow'
        BY <1>1, <1>2, <1>3, <2>2 DEF Position
    <2> QED BY <2>1, <2>2
<1>5. n \in 0..(SourceLength - Position)
    BY <1>2, <1>3, <1>4, SizeAssumption
<1> QED BY <1>1, <1>3, <1>4, <1>5 DEF Replay!Read

LEMMA NextReplays ==
    ASSUME ~ForgetBehind, ReaderInv, [Next]_vars
    PROVE  [Replay!Next]_(Replay!vars)
<1>1. ASSUME NEW p \in 0..MaxRead, ReadThrough(p) \/ ReadReplayed(p) \/ ReadBuffered(p)
      PROVE  Replay!Read
    BY <1>1, ThroughReplays, ReplayedReplays, BufferedReplays
<1>2. CASE Regret
    <2>1. Replay!Regret
        BY <1>2 DEF Regret, Replay!Regret, Position, ReaderInv, BufferHolds
    <2> QED BY <2>1 DEF Replay!Next
<1>3. CASE Forget
    <2>1. Replay!Forget
        BY <1>3 DEF Forget, Replay!Forget, Position, ReaderInv, BufferHolds
    <2> QED BY <2>1 DEF Replay!Next
<1>4. CASE Close
    BY <1>4 DEF Close, Replay!vars, Position
<1>5. CASE UNCHANGED vars
    BY <1>5 DEF vars, Replay!vars, Position
<1> QED BY <1>1, <1>2, <1>3, <1>4, <1>5 DEF Next, Replay!Next

(* A RegretableReader is the replayable source of its documentation, for a
   user that does not Forget while it has replayed bytes still to read. *)
THEOREM ReaderImplementsReplay ==
    ASSUME ~ForgetBehind
    PROVE  Spec => ImplementsReplay
<1>1. Init => Replay!Init
    BY InitReplays
<1>2. ReaderInv /\ [Next]_vars => [Replay!Next]_(Replay!vars)
    BY NextReplays
<1> QED BY <1>1, <1>2, ReaderInvariant, PTL DEF Spec, ImplementsReplay, Replay!Spec
=============================================================================
