--------------------------------- MODULE Dump ---------------------------------
(***************************************************************************)
(* Writing commands back: fast-export/src/dump.rs, with                    *)
(* DataBuf::validate_delim in command.rs, which chooses the style of a     *)
(* data stream.                                                            *)
(*                                                                         *)
(* A byte stands for a whole keyword, a whole decimal number, or a byte of *)
(* an argument or of data.  The writer takes what it is given in parts, as *)
(* write_all lets it, and may fail between any two of them.  What is       *)
(* dumped is to be read back as it was, by the rules of Lines, which the   *)
(* parser is modelled by.                                                  *)
(***************************************************************************)
EXTENDS Lines

CONSTANTS
    DataBufs,      \* values of DataBuf: the data, and the delimiter or None
    None,
    Texts,         \* what Mark, OriginalOid, OptionGit and OptionOther write
                   \* before their LF
    Decimal,       \* the decimal numeral of each length
    MaxDumps       \* bound on the number of values dumped

Lengths == {Len(b.data) : b \in DataBufs}

ASSUME DumpAssumption ==
    /\ {"data ", "<<", "NUL"} \subseteq Bytes
    /\ LF \notin {"data ", "<<", "NUL"}
    /\ \A b \in DataBufs :
        /\ DOMAIN b = {"data", "delim"}
        /\ b.data \in Seq(Bytes)
        /\ b.delim # None => b.delim \in Seq(Bytes)
    /\ Texts \subseteq Seq(Bytes) \ {<<>>}
    /\ Decimal \in [Lengths -> Bytes \ {LF, "<<", "NUL"}]
    /\ \A m, n \in Lengths : Decimal[m] = Decimal[n] => m = n
    /\ MaxDumps \in Nat

VARIABLES
    \* stream is what has been written
    rest,       \* what the dump in progress has yet to write
    failed,     \* the writer has failed
    items       \* ghost: the values dumped, and where each begins

vars == <<stream, rest, failed, items>>

DataItem(b, at) == [kind |-> "data", at |-> at, buf |-> b, text |-> <<>>]
LineItem(t, at) == [kind |-> "line", at |-> at,
                    buf |-> [data |-> <<>>, delim |-> None], text |-> t]

Init ==
    /\ stream = <<>>
    /\ rest = <<>> /\ failed = FALSE
    /\ items = <<>>

-----------------------------------------------------------------------------
\* slice::split by LF.
Split(s) ==
    {SubSeq(s, r[1] + 1, r[2]) :
        r \in {r \in (0..Len(s)) \X (0..Len(s)) :
                  /\ r[1] <= r[2]
                  /\ r[1] = 0 \/ s[r[1]] = LF
                  /\ r[2] = Len(s) \/ s[r[2] + 1] = LF
                  /\ \A i \in (r[1] + 1)..r[2] : s[i] # LF}}

\* Mutant: the delimiter may be a line of the data.
DataContainsNoDelim(b) == FALSE

\* The errors of DataBuf::validate_delim, each with its test.
EmptyDelim(b)        == b.delim = <<>>
DelimContainsNul(b)  == \E i \in 1..Len(b.delim) : b.delim[i] = "NUL"
NoFinalLf(b)         == b.data = <<>> \/ b.data[Len(b.data)] # LF
DataContainsDelim(b) == b.delim \in Split(b.data)

ValidDelim(b) ==
    b.delim # None => /\ ~EmptyDelim(b) /\ ~DelimContainsNul(b)
                      /\ ~NoFinalLf(b) /\ ~DataContainsDelim(b)

\* What DataBuf::dump writes.
DumpDelimited(b) ==
    <<"data ", "<<">> \o b.delim \o <<LF>> \o b.data \o b.delim \o <<LF, LF>>

DumpCounted(b) ==
    <<"data ", Decimal[Len(b.data)], LF>> \o b.data \o <<LF>>

DumpData(b) ==
    IF b.delim # None /\ ValidDelim(b) THEN DumpDelimited(b) ELSE DumpCounted(b)

\* Mutant: a command that is not written.
DumpNoLine(t) == <<>>

\* What the dump of a command of one line writes.
DumpLine(t) == t \o <<LF>>

-----------------------------------------------------------------------------
\* A value is dumped when the last one has been.
MayDump == rest = <<>> /\ ~failed /\ Len(items) < MaxDumps

DumpDataBuf ==
    /\ MayDump
    /\ \E b \in DataBufs :
        /\ rest' = DumpData(b)
        /\ items' = Append(items, DataItem(b, Len(stream)))
    /\ UNCHANGED <<stream, failed>>

DumpOneLine ==
    /\ MayDump
    /\ \E t \in Texts :
        /\ rest' = DumpLine(t)
        /\ items' = Append(items, LineItem(t, Len(stream)))
    /\ UNCHANGED <<stream, failed>>

\* Mutant: write in place of write_all, which leaves what was not taken.
WriteOnce ==
    /\ rest # <<>>
    /\ \E k \in 1..Len(rest) : stream' = stream \o SubSeq(rest, 1, k)
    /\ rest' = <<>>
    /\ UNCHANGED <<failed, items>>

\* The writer takes the next k bytes.
Write ==
    /\ rest # <<>>
    /\ \E k \in 1..Len(rest) :
        /\ stream' = stream \o SubSeq(rest, 1, k)
        /\ rest' = SubSeq(rest, k + 1, Len(rest))
    /\ UNCHANGED <<failed, items>>

\* The writer fails, and with it the dump.
WriteFails ==
    /\ rest # <<>>
    /\ rest' = <<>>
    /\ failed' = TRUE
    /\ UNCHANGED <<stream, items>>

Next == DumpDataBuf \/ DumpOneLine \/ Write \/ WriteFails

Spec == Init /\ [][Next]_vars

-----------------------------------------------------------------------------
\* The data header that is the argument of `data`, DataHeader::parse.
IsHeader(arg, h) ==
    \/ /\ Len(arg) > 1 /\ arg[1] = "<<"
       /\ \A i \in 1..Len(arg) : arg[i] # "NUL"
       /\ h = Delimited(Tail(arg))
    \/ \E n \in Lengths : arg = <<Decimal[n]>> /\ h = Counted(n)

\* The headers that the data may have been dumped with.
HeadersOf(b) ==
    {Counted(n) : n \in Lengths} \cup {Delimited(d) : d \in {b.delim} \ {None}}

\* At p is a `data` line with header h, and the data begins at b.
DataLineAt(p, h, b) ==
    \E n \in 1..(Len(stream) - p) :
        /\ IsLine(p, n) /\ b = LineEnd(p, n)
        /\ stream[p + 1] = "data "
        /\ IsHeader(Slice(p + 1, p + n), h)

\* The dump of items[i] has returned Ok, and this is where it ended.
Dumped(i) == i < Len(items) \/ (rest = <<>> /\ ~failed)
EndOf(i) == IF i < Len(items) THEN items[i + 1].at ELSE Len(stream)

\* A delimiter with an LF in it is not one of a data line.  validate_delim does
\* not refuse it, and what is then dumped is read back as other data.
DelimIsText(b) == b.delim = None \/ \A i \in 1..Len(b.delim) : b.delim[i] # LF

\* What is written is bytes, and every value has a place of its own in it.
TypeOK ==
    /\ stream \in Seq(Bytes)
    /\ rest \in Seq(Bytes)
    /\ failed \in BOOLEAN
    /\ Len(items) <= MaxDumps
    /\ \A i \in 1..Len(items) :
        /\ items[i].kind \in {"data", "line"}
        /\ items[i].at \in 0..Len(stream)
        /\ i < Len(items) => items[i].at < items[i + 1].at

\* The header of the dumped data is read back, its contents end by that header
\* and are the data, and the parser then is where the next value begins.
ReadBack(i) ==
    \E b \in 0..Len(stream), h \in HeadersOf(items[i].buf) :
        /\ DataLineAt(items[i].at, h, b)
        /\ \E q \in b..Len(stream) :
            ContentsEnd(h, b, q) /\ Slice(b, q) = items[i].buf.data
        /\ ResumesAt(h, b, EndOf(i))

\* dump.rs:68: data is dumped in the delimited style only if it parses
\* correctly.  Data with a delimiter that could be one of a data line is read
\* back as it was, in whichever style it was written, and also after a later
\* write has failed.
DataReadsBack ==
    \A i \in 1..Len(items) :
        Dumped(i) /\ items[i].kind = "data" /\ DelimIsText(items[i].buf) =>
            ReadBack(i)

\* dump.rs writes the fields of a command as they are, and an LF.
IsText(t) == \A j \in 1..Len(t) : t[j] # LF

\* The text of items[i] is a line, and the next value begins after it.
IsReadBackAsLine(i) ==
    LET p == items[i].at
        n == Len(items[i].text)
    IN  /\ IsLine(p, n) /\ Slice(p, p + n) = items[i].text
        /\ EndOf(i) = LineEnd(p, n)

\* dump.rs:14-63: a command of one line is read back as that line exactly if its
\* text has no LF.  Nothing in dump.rs or in the public fields sees to that, and
\* the parser itself yields texts that end in an LF (a peeked original-oid or
\* option, input.rs:318): these are read back as a shorter line and a blank one.
\* Whatever the text, the next value begins on a line of its own.
LinesReadBack ==
    \A i \in 1..Len(items) :
        Dumped(i) /\ items[i].kind = "line" =>
            /\ IsText(items[i].text) <=> IsReadBackAsLine(i)
            /\ LineStart(items[i].at, EndOf(i)) /\ EndOf(i) # items[i].at
=============================================================================
