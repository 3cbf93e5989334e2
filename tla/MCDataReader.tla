----------------------------- MODULE MCDataReader -----------------------------
(***************************************************************************)
(* Instances of ReaderFaults for TLC: every stream up to a length, of line *)
(* feeds, blob headers and delimiters, so that data can hold what looks    *)
(* like a directive or a delimiter, end early, or lack its last LF.        *)
(***************************************************************************)
EXTENDS ReaderFaults

CONSTANTS t1, t2, lf, cmd, eod

MCThreads == {t1, t2}
MCOneThread == {t1}
MCBytes == {lf, cmd, eod}

UpTo(n) == UNION {[1..k -> MCBytes] : k \in 0..n}
MCStreams4 == UpTo(4)
MCStreams5 == UpTo(5)
MCStreams7 == UpTo(7)
MCNoStreams == {}

MCHeaders == {Counted(0), Counted(2), Delimited(<<eod>>)}
MCBufSizes == {0, 1, 2}
=============================================================================
