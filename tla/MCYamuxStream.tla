--------------------------- MODULE MCYamuxStream ---------------------------
(* Instances of YamuxStream for TLC: which end reads and writes how much. *)
EXTENDS YamuxStreamPipe

Both(o, a) == [e \in {"opener", "acceptor"} |-> IF e = "opener" THEN o ELSE a]

OneReaderEach == Both({"r1"}, {"r1"})
OneReader     == Both({}, {"r1"})
TwoReaders    == Both({}, {"r1", "r2"})

Write2And1 == Both(2, 1)
Write2 == Both(2, 0)
Write3 == Both(3, 0)

Max1 == Both(1, 1)
Max2 == Both(2, 2)
=============================================================================
