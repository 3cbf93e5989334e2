-------------------------------- MODULE Input --------------------------------
(***************************************************************************)
(* The reader under the parser: Input in fast-export/src/parse/input.rs.   *)
(*                                                                         *)
(* The stream is a fixed sequence of bytes, of which the first pos have    *)
(* been consumed.  The reader is a BufRead: how it chunks the stream shows *)
(* only in Read::read, which may return fewer bytes than asked for.        *)
(***************************************************************************)
EXTENDS Lines

VARIABLES
    pos,        \* how many bytes have been consumed
    eof,        \* Input::eof
    line        \* Input::line

inputVars == <<stream, pos, eof, line>>

InputInit ==
    /\ stream \in Streams
    /\ pos = 0
    /\ eof = FALSE
    /\ line = 0

\* Input::read_line, of a line of n bytes: what it does to eof and line.  The
\* callers move pos, since most of them skip an optional LF right after.
\* "EOF is reached in read_until iff the delimiter is not included."
ReadLine(n) ==
    /\ IsLine(pos, n)
    /\ eof' = (pos + n = Len(stream))
    /\ line' = IF pos = Len(stream) THEN line ELSE line + 1

InputTypeOK ==
    /\ stream \in Seq(Bytes)
    /\ pos \in 0..Len(stream)
    /\ eof \in BOOLEAN
    /\ line \in Nat
=============================================================================
