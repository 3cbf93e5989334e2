------------------------------ MODULE DataReader ------------------------------
(***************************************************************************)
(* Reading the data stream of a blob: DataReader and DataState in          *)
(* fast-export/src/parse/data.rs, the data functions of Input in           *)
(* input.rs, and the part of Parser::next that decides whether to skip,    *)
(* refuse or go on (parser.rs).                                            *)
(*                                                                         *)
(* A Blob returned by next is shared by Threads, which race to open it.    *)
(* The one that wins holds the DataReader and reads in pieces, in one go,  *)
(* skips the rest, or closes it.  The directives between two blobs are     *)
(* abstracted to one line: the line <<BlobHeader>> stands for everything    *)
(* from `blob` to its data header, any other line for a command without a  *)
(* data stream, or an invalid one.                                         *)
(*                                                                         *)
(* A call that cannot loop is one action; skip_data and the delimited      *)
(* read_data_to_end are one action per iteration.  A failed debug          *)
(* assertion or arithmetic check ends in call = "panicked".                *)
(***************************************************************************)
EXTENDS Input

CONSTANTS
    Threads,
    BlobHeader,      \* the byte that stands for a whole blob header
    Headers,         \* the data headers: DataHeader
    BufSizes,        \* the sizes of the buffers passed to read
    MaxLenRead,      \* bound: no skip is retried once len_read is above
    OneRead          \* callers use read_to_end only on a reader they have not
                     \* used yet (an assumption on the caller, or FALSE)

ASSUME DataReaderAssumption ==
    /\ BlobHeader \in Bytes \ {LF}
    /\ Headers \subseteq HeaderType
    /\ \A h \in Headers : ~h.is_counted => h.delim # <<>>
    /\ BufSizes \subseteq Nat
    /\ MaxLenRead \in Nat
    /\ OneRead \in BOOLEAN

VARIABLES
    \* DataState
    finished, closed,
    header,          \* is_counted, len and delim
    len_read, line_buf, line_offset,
    \* Parser
    data_opened,
    \* the callers
    blob,            \* a Blob is borrowed from the parser
    readers,         \* the threads that hold a DataReader
    call,            \* the call in progress
    start_len,       \* skip_data: len_read when it was called
    slurped,         \* read_data_to_end: the bytes read by this call so far
    ret,             \* the result of the last call
    \* ghosts
    start,           \* where the data stream begins
    in_data,         \* no directive has been read since the data stream
    out,             \* the bytes the caller has been given
    skipped,         \* some of the data stream has been skipped
    used             \* the data stream has been read, in part or in whole

stateVars  == <<finished, closed, header, len_read, line_buf, line_offset>>
callerVars == <<blob, readers, data_opened>>
localVars  == <<start_len, slurped>>
ghostVars  == <<start, in_data, out, skipped, used>>

vars == <<inputVars, stateVars, callerVars, call, localVars, ret, ghostVars>>

Idle == call = "none"

Result(op, res, n) == [op |-> op, res |-> res, n |-> n]
Return(op, res, n) == call' = "none" /\ ret' = Result(op, res, n)

Init ==
    /\ InputInit
    /\ finished = TRUE /\ closed = TRUE
    /\ header = Delimited(<<>>)
    /\ len_read = 0 /\ line_buf = <<>> /\ line_offset = 0
    /\ data_opened = FALSE
    /\ blob = FALSE /\ readers = {}
    /\ call = "none" /\ start_len = 0 /\ slurped = 0
    /\ ret = Result("new", "Ok", 0)
    /\ start = 0 /\ in_data = FALSE /\ out = <<>>
    /\ skipped = FALSE /\ used = FALSE

-----------------------------------------------------------------------------
(* Opening and closing.                                                     *)

\* Mutant: data_opened is set and not looked at.
OpenAlways(t) ==
    /\ blob
    /\ call # "panicked"
    /\ data_opened' = TRUE
    /\ readers' = readers \cup {t}
    /\ ret' = Result("open", "Ok", 0)
    /\ UNCHANGED <<inputVars, stateVars, blob, call, localVars, ghostVars>>

\* DataReader::open: data_opened.swap(true) lets one caller through.
Open(t) ==
    /\ blob
    /\ call # "panicked"
    /\ data_opened' = TRUE
    /\ readers' = IF data_opened THEN readers ELSE readers \cup {t}
    /\ ret' = Result("open", IF data_opened THEN "AlreadyOpened" ELSE "Ok", 0)
    /\ UNCHANGED <<inputVars, stateVars, blob, call, localVars, ghostVars>>

\* DataReader::close.
Close(t) ==
    /\ Idle /\ t \in readers
    /\ closed' = (closed \/ finished)
    /\ Return("close", IF closed THEN "Closed" ELSE
                       IF finished THEN "Ok" ELSE "Unfinished", 0)
    /\ UNCHANGED <<inputVars, finished, header, len_read, line_buf, line_offset,
                   callerVars, localVars, ghostVars>>

-----------------------------------------------------------------------------
(* Input::read_data, with a caller's buffer of size bytes.                   *)

Smaller(m, n) == IF m <= n THEN m ELSE n

\* Closed, an empty buffer (op "probe"), or the end of the data.
ReadNothing(t, size) ==
    /\ Idle /\ t \in readers
    /\ closed \/ size = 0 \/ finished
    /\ Return(IF size = 0 THEN "probe" ELSE "read",
              IF closed THEN "Closed" ELSE "Ok", 0)
    /\ UNCHANGED <<inputVars, stateVars, callerVars, localVars, ghostVars>>

\* Mutant: the end of the data is forgotten.
CanReadFinished(t, size) ==
    Idle /\ t \in readers /\ ~closed /\ size > 0

CanRead(t, size) ==
    Idle /\ t \in readers /\ ~closed /\ ~finished /\ size > 0

\* The reader returns n bytes: none only when it has no more or is asked for
\* none.  The last byte is followed by an optional LF.
ReadCounted(t, size) ==
    /\ CanRead(t, size) /\ header.is_counted /\ ~eof
    /\ \E n \in 0..Smaller(Smaller(header.len - len_read, size), Len(stream) - pos) :
        /\ n = 0 => header.len = len_read \/ pos = Len(stream)
        /\ len_read' = len_read + n
        /\ finished' = (len_read' >= header.len)
        /\ pos' = IF finished' THEN SkipOptionalLF(pos + n) ELSE pos + n
        /\ line' = line + CountLF(pos, pos + n)
        /\ out' = out \o Slice(pos, pos + n)
        /\ Return("read", "Ok", n)
    /\ used' = TRUE
    /\ UNCHANGED <<stream, eof, closed, header, line_buf, line_offset,
                   callerVars, localVars, start, in_data, skipped>>

ReadCountedAtEof(t, size) ==
    /\ CanRead(t, size) /\ header.is_counted /\ eof
    /\ used' = TRUE
    /\ Return("read", "UnexpectedEof", 0)
    /\ UNCHANGED <<inputVars, stateVars, callerVars, localVars,
                   start, in_data, out, skipped>>

\* Mutant: each copy begins anew.
CopyLineFromStart(buf, offset, size) ==
    LET n == Smaller(Len(buf) - offset, size)
    IN  /\ line_buf' = buf
        /\ line_offset' = offset + n
        /\ len_read' = len_read + n
        /\ out' = out \o SubSeq(buf, 1, n)
        /\ Return("read", "Ok", n)

\* Copy from buf, which holds the current line, beginning at offset.
CopyLine(buf, offset, size) ==
    LET n == Smaller(Len(buf) - offset, size)
    IN  /\ line_buf' = buf
        /\ line_offset' = offset + n
        /\ len_read' = len_read + n
        /\ out' = out \o SubSeq(buf, offset + 1, offset + n)
        /\ Return("read", "Ok", n)

ReadBufferedLine(t, size) ==
    /\ CanRead(t, size) /\ ~header.is_counted
    /\ line_offset < Len(line_buf)
    /\ CopyLine(line_buf, line_offset, size)
    /\ used' = TRUE
    /\ UNCHANGED <<inputVars, finished, closed, header, callerVars, localVars,
                   start, in_data, skipped>>

ReadNextLine(t, size) ==
    /\ CanRead(t, size) /\ ~header.is_counted
    /\ line_offset >= Len(line_buf) /\ ~eof
    /\ \E n \in 0..(Len(stream) - pos) :
        /\ ReadLine(n)
        /\ IF pos = Len(stream)
           THEN /\ pos' = pos
                /\ line_buf' = <<>> /\ line_offset' = 0
                /\ Return("read", "Unterminated", 0)
                /\ UNCHANGED <<finished, len_read, out>>
           ELSE IF Slice(pos, pos + n) = header.delim
           THEN /\ pos' = SkipOptionalLF(LineEnd(pos, n))
                /\ line_buf' = Slice(pos, LineEnd(pos, n)) /\ line_offset' = 0
                /\ finished' = TRUE
                /\ Return("read", "Ok", 0)
                /\ UNCHANGED <<len_read, out>>
           ELSE /\ pos' = LineEnd(pos, n)
                /\ CopyLine(Slice(pos, LineEnd(pos, n)), 0, size)
                /\ UNCHANGED finished
    /\ used' = TRUE
    /\ UNCHANGED <<stream, closed, header, callerVars, localVars,
                   start, in_data, skipped>>

ReadNextLineAtEof(t, size) ==
    /\ CanRead(t, size) /\ ~header.is_counted
    /\ line_offset >= Len(line_buf) /\ eof
    /\ used' = TRUE
    /\ Return("read", "Unterminated", 0)
    /\ UNCHANGED <<inputVars, stateVars, callerVars, localVars,
                   start, in_data, out, skipped>>

Read(t, size) ==
    \/ ReadNothing(t, size)
    \/ ReadCounted(t, size)
    \/ ReadCountedAtEof(t, size)
    \/ ReadBufferedLine(t, size)
    \/ ReadNextLine(t, size)
    \/ ReadNextLineAtEof(t, size)

-----------------------------------------------------------------------------
(* Input::skip_data, called by DataReader::skip_rest or by Parser::next.     *)

Pending == Len(line_buf) - line_offset

\* skip_data up to its loop, called by op.  What the caller has left in
\* line_buf counts as skipped; the subtraction is checked.
SkipBegin(op) ==
    /\ len_read <= MaxLenRead
    /\ start_len' = len_read
    /\ IF header.is_counted
       THEN call' = op /\ UNCHANGED len_read
       ELSE IF line_offset > Len(line_buf)
       THEN call' = "panicked" /\ UNCHANGED len_read
       ELSE call' = op /\ len_read' = len_read + Pending
    /\ skipped' = TRUE
    /\ UNCHANGED <<inputVars, finished, closed, header, line_buf, line_offset,
                   slurped, ret, start, in_data, out>>

SkipRest(t) ==
    /\ Idle /\ t \in readers /\ ~closed /\ ~finished
    /\ SkipBegin("skip_rest")
    /\ used' = TRUE
    /\ UNCHANGED callerVars

SkipNothing(t) ==
    /\ Idle /\ t \in readers
    /\ closed \/ finished
    /\ Return("skip_rest", IF closed THEN "Closed" ELSE "Ok", 0)
    /\ UNCHANGED <<inputVars, stateVars, callerVars, localVars, ghostVars>>

Skipping == call \in {"skip_rest", "next"}

\* The end of skip_data: next goes on to parse, skip_rest returns the length.
SkipEnd(n) ==
    IF call = "next"
    THEN call' = "parse" /\ UNCHANGED ret
    ELSE Return("skip_rest", "Ok", n)

\* fill_buf has at least one byte unless the stream has ended.
SkipChunk ==
    /\ Skipping /\ header.is_counted /\ len_read < header.len
    /\ pos < Len(stream)
    /\ \E n \in 1..Smaller(header.len - len_read, Len(stream) - pos) :
        /\ pos' = pos + n
        /\ line' = line + CountLF(pos, pos + n)
        /\ len_read' = len_read + n
    /\ UNCHANGED <<stream, eof, finished, closed, header, line_buf, line_offset,
                   callerVars, call, localVars, ret, ghostVars>>

\* Mutant: an empty buffer is not taken for the end of the stream.
SkipCountedNothing ==
    /\ Skipping /\ header.is_counted /\ len_read < header.len
    /\ pos = Len(stream)
    /\ UNCHANGED vars

SkipCountedShort ==
    /\ Skipping /\ header.is_counted /\ len_read < header.len
    /\ pos = Len(stream)
    /\ eof' = TRUE
    /\ Return(call, "UnexpectedEof", 0)
    /\ UNCHANGED <<stream, pos, line, stateVars, callerVars, localVars, ghostVars>>

SkipCountedEnd ==
    /\ Skipping /\ header.is_counted /\ len_read >= header.len
    /\ finished' = TRUE
    /\ pos' = SkipOptionalLF(pos)
    /\ SkipEnd(len_read - start_len)
    /\ UNCHANGED <<stream, eof, line, closed, header, len_read, line_buf,
                   line_offset, callerVars, localVars, ghostVars>>

SkipLineAtEof ==
    /\ Skipping /\ ~header.is_counted /\ eof
    /\ Return(call, "Unterminated", 0)
    /\ UNCHANGED <<inputVars, stateVars, callerVars, localVars, ghostVars>>

SkipLine ==
    /\ Skipping /\ ~header.is_counted /\ ~eof
    /\ \E n \in 0..(Len(stream) - pos) :
        /\ ReadLine(n)
        /\ line_buf' = Slice(pos, LineEnd(pos, n))
        /\ IF pos = Len(stream)
           THEN /\ pos' = pos
                /\ Return(call, "Unterminated", 0)
                /\ UNCHANGED <<finished, len_read>>
           ELSE IF Slice(pos, pos + n) = header.delim
           THEN /\ pos' = SkipOptionalLF(LineEnd(pos, n))
                /\ finished' = TRUE
                /\ SkipEnd(len_read - start_len)
                /\ UNCHANGED len_read
           ELSE /\ pos' = LineEnd(pos, n)
                /\ len_read' = len_read + Len(line_buf')
                /\ UNCHANGED <<call, ret, finished>>
    /\ UNCHANGED <<stream, closed, header, line_offset, callerVars, localVars,
                   ghostVars>>

SkipStep ==
    \/ SkipChunk
    \/ SkipCountedShort
    \/ SkipCountedEnd
    \/ SkipLineAtEof
    \/ SkipLine

-----------------------------------------------------------------------------
(* <DataReader as Read>::read_to_end, which reads the data stream by its     *)
(* header and looks at nothing else of DataState.                            *)

MayReadToEnd(t) ==
    /\ Idle /\ t \in readers
    /\ OneRead => ~used

\* Input::read_counted_data_to_end.
ReadToEndCounted(t) ==
    /\ MayReadToEnd(t) /\ header.is_counted
    /\ LET n == Smaller(header.len, Len(stream) - pos)
       IN  /\ line' = line + CountLF(pos, pos + n)
           /\ IF n < header.len
              THEN /\ pos' = pos + n
                   /\ Return("read_to_end", "UnexpectedEof", 0)
                   /\ UNCHANGED <<finished, len_read, out>>
              ELSE /\ pos' = SkipOptionalLF(pos + n)
                   /\ finished' = TRUE
                   /\ len_read' = len_read + n
                   /\ out' = out \o Slice(pos, pos + n)
                   /\ Return("read_to_end", "Ok", n)
    /\ used' = TRUE
    /\ UNCHANGED <<stream, eof, closed, header, line_buf, line_offset,
                   callerVars, localVars, start, in_data, skipped>>

\* Input::read_delimited_data_to_end.
ReadToEndDelimited(t) ==
    /\ MayReadToEnd(t) /\ ~header.is_counted
    /\ call' = "read_to_end"
    /\ slurped' = 0
    /\ used' = TRUE
    /\ UNCHANGED <<inputVars, stateVars, callerVars, start_len, ret,
                   start, in_data, out, skipped>>

\* read_line's debug_assert!(!self.eof, "already at EOF").
SlurpLineAtEof ==
    /\ call = "read_to_end" /\ eof
    /\ call' = "panicked"
    /\ UNCHANGED <<inputVars, stateVars, callerVars, localVars, ret, ghostVars>>

SlurpLine ==
    /\ call = "read_to_end" /\ ~eof
    /\ \E n \in 0..(Len(stream) - pos) :
        /\ ReadLine(n)
        /\ IF pos = Len(stream)
           THEN /\ pos' = pos
                /\ Return("read_to_end", "Unterminated", 0)
                /\ UNCHANGED <<finished, len_read, slurped, out>>
           ELSE IF Slice(pos, pos + n) = header.delim
           THEN /\ pos' = SkipOptionalLF(LineEnd(pos, n))
                /\ finished' = TRUE
                /\ len_read' = len_read + slurped
                /\ out' = out \o Slice(pos - slurped, pos)
                /\ Return("read_to_end", "Ok", slurped)
                /\ UNCHANGED slurped
           ELSE /\ pos' = LineEnd(pos, n)
                /\ slurped' = slurped + (pos' - pos)
                /\ UNCHANGED <<call, ret, finished, len_read, out>>
    /\ UNCHANGED <<stream, closed, header, line_buf, line_offset, callerVars,
                   start_len, start, in_data, skipped, used>>

-----------------------------------------------------------------------------
(* Parser::next.  It takes &mut self: the Blob and its readers are gone.      *)

NextUnfinished ==
    /\ Idle /\ ~finished /\ data_opened
    /\ blob' = FALSE /\ readers' = {}
    /\ Return("next", "Unfinished", 0)
    /\ UNCHANGED <<inputVars, stateVars, data_opened, localVars, ghostVars>>

\* Mutant: what was read in part is skipped.
NextSkipOpened ==
    /\ Idle /\ ~finished
    /\ blob' = FALSE /\ readers' = {}
    /\ SkipBegin("next")
    /\ UNCHANGED <<data_opened, used>>

NextSkip ==
    /\ Idle /\ ~finished /\ ~data_opened
    /\ blob' = FALSE /\ readers' = {}
    /\ SkipBegin("next")
    /\ UNCHANGED <<data_opened, used>>

\* Mutant: data that was opened is taken to have been read.
NextParseOpened ==
    /\ Idle /\ (finished \/ data_opened)
    /\ blob' = FALSE /\ readers' = {}
    /\ call' = "parse"
    /\ UNCHANGED <<inputVars, stateVars, data_opened, localVars, ret, ghostVars>>

NextParse ==
    /\ Idle /\ finished
    /\ blob' = FALSE /\ readers' = {}
    /\ call' = "parse"
    /\ UNCHANGED <<inputVars, stateVars, data_opened, localVars, ret, ghostVars>>

\* The directives of a blob, and DataState::init.
ParseBlob(h) ==
    /\ call = "parse" /\ ~eof
    /\ \E n \in 0..(Len(stream) - pos) :
        /\ ReadLine(n)
        /\ Slice(pos, pos + n) = <<BlobHeader>>
        /\ pos' = LineEnd(pos, n)
    /\ finished' = FALSE /\ closed' = FALSE
    /\ header' = h /\ len_read' = 0
    /\ IF h.is_counted
       THEN UNCHANGED <<line_buf, line_offset>>
       ELSE line_buf' = <<>> /\ line_offset' = 0
    /\ data_opened' = FALSE
    /\ blob' = TRUE
    /\ Return("next", "Blob", 0)
    /\ start' = pos' /\ in_data' = TRUE /\ out' = <<>>
    /\ skipped' = FALSE /\ used' = FALSE
    /\ UNCHANGED <<stream, readers, localVars>>

\* Any other line.
ParseOther ==
    /\ call = "parse" /\ ~eof
    /\ \E n \in 0..(Len(stream) - pos) :
        /\ ReadLine(n)
        /\ Slice(pos, pos + n) # <<BlobHeader>>
        /\ pos' = LineEnd(pos, n)
        /\ Return("next", IF pos = Len(stream) THEN "Eof" ELSE "Other", 0)
    /\ in_data' = FALSE
    /\ UNCHANGED <<stream, stateVars, callerVars, localVars, start, out,
                   skipped, used>>

ParseEof ==
    /\ call = "parse" /\ eof
    /\ Return("next", "Eof", 0)
    /\ UNCHANGED <<inputVars, stateVars, callerVars, localVars, ghostVars>>

ParserStep ==
    \/ NextUnfinished
    \/ NextSkip
    \/ NextParse
    \/ \E h \in Headers : ParseBlob(h)
    \/ ParseOther
    \/ ParseEof

ReaderStep(t) ==
    \/ Open(t)
    \/ Close(t)
    \/ \E size \in BufSizes : Read(t, size)
    \/ SkipRest(t)
    \/ SkipNothing(t)
    \/ ReadToEndCounted(t)
    \/ ReadToEndDelimited(t)

\* The iterations of a call that has been made: they are not the caller's.
LoopStep == SkipStep \/ SlurpLine \/ SlurpLineAtEof

Next == ParserStep \/ LoopStep \/ \E t \in Threads : ReaderStep(t)

\* A running call is not suspended for ever.
Fairness == WF_vars(LoopStep)

Spec == Init /\ [][Next]_vars /\ Fairness

-----------------------------------------------------------------------------
\* The types of the reader's state.
TypeOK ==
    /\ InputTypeOK
    /\ finished \in BOOLEAN /\ closed \in BOOLEAN
    /\ header \in HeaderType
    /\ len_read \in Nat /\ line_buf \in Seq(Bytes) /\ line_offset \in Nat
    /\ data_opened \in BOOLEAN
    /\ blob \in BOOLEAN /\ readers \in SUBSET Threads
    /\ call \in {"none", "skip_rest", "next", "read_to_end", "parse", "panicked"}
    /\ start_len \in Nat /\ slurped \in 0..pos
    /\ start \in 0..Len(stream) /\ in_data \in BOOLEAN
    /\ out \in Seq(Bytes) /\ skipped \in BOOLEAN /\ used \in BOOLEAN

\* "Only one instance of DataReader can exist at a time" (data.rs:67-68), and
\* only while the Blob it was opened from is borrowed: the unsafe &mut to
\* data_state is unique.
ExclusiveReader ==
    /\ \A s, t \in readers : s = t
    /\ readers # {} => blob /\ data_opened

\* However the caller and next() have read the data stream - in pieces, in one
\* go, skipped, or not at all - the parser resumes exactly where the stream's
\* own header says the data ends.
ResumesAfterData == in_data /\ finished => ResumesAt(header, start, pos)

\* While the data is being read, what has been accounted for by len_read and
\* by the buffered line is what has been consumed, unless the stream is
\* truncated.
Accounted ==
    Idle /\ in_data /\ ~finished /\ pos < Len(stream) =>
        pos = start + len_read + (IF header.is_counted THEN 0 ELSE Pending)

\* Until it skips, the caller is given exactly the contents: never a byte
\* twice, out of order, of the delimiter or of the directives after it; and
\* all of them when the data is finished.
DeliversContents ==
    in_data /\ ~skipped =>
        /\ start + Len(out) <= Len(stream)
        /\ out = Slice(start, start + Len(out))
        /\ finished => ContentsEnd(header, start, start + Len(out))
        /\ IF header.is_counted
           THEN Len(out) <= header.len
           ELSE NoDelimiterBefore(header, start, start + Len(out))

\* next() skips a data stream only if it was never opened; a data stream that
\* was read in part is refused instead (data.rs:56-58).
NextSkipsOnlyUnopened ==
    call = "next" => ~data_opened /\ readers = {} /\ ~used /\ out = <<>>

\* Once the data is finished, nothing its reader does moves the input: the
\* directives that follow are left to the parser.
FinishedIsFinal ==
    [][finished /\ in_data /\ in_data' /\ finished' => pos' = pos]_vars

\* In whatever order the reader is used, OneRead or not, only a read_to_end takes
\* what follows a finished data stream (data.rs:144 looks at its header alone):
\* reads, skips, closes and refused calls of next leave the input where it is.
OnlyReadToEndPassesData ==
    [][finished /\ in_data /\ in_data' /\ finished' /\ pos' # pos =>
           \/ call = "read_to_end"
           \/ Idle /\ ret'.op = "read_to_end"]_vars

\* The data reader implements Framing: a data stream is passed as a whole, at
\* the moment it is finished.
Frames == INSTANCE Framing WITH
    at <- IF finished THEN pos ELSE start,
    in_data <- ~finished

ImplementsFraming == Frames!Spec

\* A call returns, or the program has stopped.
CallsReturn ==
    call \in {"skip_rest", "next", "read_to_end"} ~>
        call \in {"none", "parse", "panicked"}

-----------------------------------------------------------------------------
(* Properties the documentation promises and the code does not keep.         *)

\* A counted data stream cut short is an error: "EOF was reached before reading
\* the complete counted data stream" (parser.rs:160-162).  So a read that
\* returns Ok(0) has reached the end of the data, not that of the stream.
ZeroMeansFinished ==
    ret.op = "read" /\ ret.res = "Ok" /\ ret.n = 0 => finished
=============================================================================
