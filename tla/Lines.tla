-------------------------------- MODULE Lines --------------------------------
(***************************************************************************)
(* A fast-export stream as bytes: its lines, and where a data stream in it *)
(* ends.  Nothing here is state of the program; the parser's modules and   *)
(* the abstract one (Framing) share these definitions.                     *)
(***************************************************************************)
EXTENDS Integers, Sequences, FiniteSets

CONSTANTS
    Bytes,      \* what a stream is made of
    LF,         \* the line terminator
    Streams     \* the streams to read

ASSUME LinesAssumption ==
    /\ LF \in Bytes
    /\ Streams \subseteq Seq(Bytes)

VARIABLE stream     \* all bytes of the stream

\* The bytes after position p, up to position q.
Slice(p, q) == SubSeq(stream, p + 1, q)

CountLF(p, q) == Cardinality({i \in (p + 1)..q : stream[i] = LF})

\* The n bytes after p are a line, without its terminator.
IsLine(p, n) ==
    /\ n \in 0..(Len(stream) - p)
    /\ \A i \in 1..n : stream[p + i] # LF
    /\ p + n < Len(stream) => stream[p + n + 1] = LF

\* Where the line ends: after its LF, or at the end of the stream.
LineEnd(p, n) == IF p + n < Len(stream) THEN p + n + 1 ELSE p + n

\* Mutant: the byte is consumed without a look at it.
SkipAnyByte(p) == p + 1

\* Where skip_optional_lf leaves the input.
SkipOptionalLF(p) ==
    IF p < Len(stream) /\ stream[p + 1] = LF THEN p + 1 ELSE p

-----------------------------------------------------------------------------
\* A data header, DataHeader in command.rs.
HeaderType   == [is_counted: BOOLEAN, len: Nat, delim: Seq(Bytes)]
Counted(n)   == [is_counted |-> TRUE, len |-> n, delim |-> <<>>]
Delimited(d) == [is_counted |-> FALSE, len |-> 0, delim |-> d]

\* In a data stream that begins at b, a line begins at p.
LineStart(b, p) == p = b \/ stream[p] = LF

\* ... and it is the delimiter.
DelimiterAt(h, b, p) ==
    /\ LineStart(b, p)
    /\ IsLine(p, Len(h.delim))
    /\ Slice(p, p + Len(h.delim)) = h.delim

NoDelimiterBefore(h, b, p) == \A q \in b..(p - 1) : ~DelimiterAt(h, b, q)

\* The contents of the data stream with header h that begins at b end at p.
ContentsEnd(h, b, p) ==
    IF h.is_counted
    THEN p = b + h.len
    ELSE DelimiterAt(h, b, p) /\ NoDelimiterBefore(h, b, p)

\* The directives after that data stream begin at p.
ResumesAt(h, b, p) ==
    \E q \in b..Len(stream) :
        /\ ContentsEnd(h, b, q)
        /\ p = SkipOptionalLF(IF h.is_counted
                              THEN q
                              ELSE LineEnd(q, Len(h.delim)))
=============================================================================
