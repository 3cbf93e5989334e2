-------------------------- MODULE ReaderFaultsProofs --------------------------
(***************************************************************************)
(* Theorems about reading data streams from a reader that may fail at any  *)
(* call, for every stream, every header, every number of threads, every    *)
(* size of buffer and any number of failures.                              *)
(*                                                                         *)
(* Of the invariant of DataReaderProofs, TypeOK, Ownership and Control     *)
(* hold whatever fails; Progress and Buffered hold while nothing is cut.   *)
(***************************************************************************)
EXTENDS ReaderFaults, DataReaderProofs

\* The part of the invariant that no failure touches.
Calls == TypeOK /\ Ownership /\ Control

-----------------------------------------------------------------------------
(* The calls, in steps in which the reader does not fail.                    *)

\* The last line ends where the stream does, and so does what comes after it.
LEMMA LastLine ==
    ASSUME TypeOK, NEW n \in 0..(Len(stream) - pos), ReadLine(n), eof'
    PROVE  /\ LineEnd(pos, n) = Len(stream)
           /\ SkipOptionalLF(LineEnd(pos, n)) = Len(stream)
           /\ pos = Len(stream) => LineEnd(pos, n) = pos
<1>1. pos \in Nat /\ Len(stream) \in Nat /\ n \in Nat
  BY LenProperties DEF TypeOK, InputTypeOK
<1>2. pos + n = Len(stream)
  BY DEF ReadLine
<1>3. LineEnd(pos, n) = Len(stream)
  BY <1>1, <1>2 DEF LineEnd
<1> QED
  BY <1>1, <1>3 DEF SkipOptionalLF

\* A step that reads nothing.
LEMMA QuietControl ==
    ASSUME Control, UNCHANGED <<stream, pos, eof, finished, header, start, in_data>>,
           blob' /\ ~used' => blob /\ ~used,
           \/ call' \in {"none", "panicked", call}
           \/ call' = "parse" /\ finished
           \/ call' \in {"skip_rest", "next"} /\ ~finished
           \/ call' = "read_to_end" /\ ~finished /\ ~header.is_counted
    PROVE  Control'
BY DEF Control

\* A step that reads of the data, for a caller that has then used it.
LEMMA DataControl ==
    ASSUME Control, ~finished, UNCHANGED <<stream, header, start, in_data>>,
           eof' => pos' = Len(stream),
           ~blob' \/ used',
           finished' \in BOOLEAN,
           \/ call' = "none"
           \/ call' = call /\ call # "none" /\ ~finished'
           \/ call' = "parse" /\ finished'
    PROVE  Control'
BY DEF Control

\* In read.
LEMMA ReadControl ==
    ASSUME Calls, NEW t \in Threads, NEW size \in BufSizes, Read(t, size)
    PROVE  Control'
<1> USE DEF Calls
<1>1. CASE ReadNothing(t, size) \/ ReadCountedAtEof(t, size) \/ ReadNextLineAtEof(t, size)
  <2>1. UNCHANGED <<stream, pos, eof, finished, header, start, in_data, blob>>
    BY <1>1 DEF ReadNothing, ReadCountedAtEof, ReadNextLineAtEof, inputVars, stateVars,
       callerVars, ghostVars
  <2>2. call' = "none" /\ (used' \/ used' = used)
    BY <1>1 DEF ReadNothing, ReadCountedAtEof, ReadNextLineAtEof, Return, ghostVars
  <2> QED
    BY <2>1, <2>2, QuietControl
<1>2. CASE ReadCounted(t, size) \/ ReadBufferedLine(t, size) \/ ReadNextLine(t, size)
  <2>1. /\ ~finished /\ used' /\ call' = "none"
        /\ UNCHANGED <<stream, header, start, in_data>>
    BY <1>2 DEF ReadCounted, ReadBufferedLine, ReadNextLine, CanRead, CopyLine, Return,
       inputVars
  <2>2. eof' => pos' = Len(stream)
    <3>1. CASE ReadCounted(t, size)
      BY <3>1 DEF ReadCounted
    <3>2. CASE ReadBufferedLine(t, size)
      BY <3>2 DEF ReadBufferedLine, inputVars, Control
    <3>3. CASE ReadNextLine(t, size)
      <4>1. PICK n \in 0..(Len(stream) - pos) :
                /\ ReadLine(n)
                /\ \/ pos = Len(stream) /\ pos' = pos
                   \/ pos' = SkipOptionalLF(LineEnd(pos, n))
                   \/ pos' = LineEnd(pos, n)
        BY <3>3 DEF ReadNextLine
      <4> QED
        BY <4>1, LastLine
    <3> QED
      BY <1>2, <3>1, <3>2, <3>3
  <2>3. finished' \in BOOLEAN
    BY TypeOKRead DEF TypeOK
  <2> QED
    BY <2>1, <2>2, <2>3, DataControl
<1> QED
  BY <1>1, <1>2 DEF Read

\* In skip_data.
LEMMA SkipControl ==
    ASSUME Calls, SkipStep \/ NextSkip \/ \E t \in Threads : SkipRest(t)
    PROVE  Control'
<1> USE DEF Calls
<1>0. /\ pos \in 0..Len(stream) /\ Len(stream) \in Nat /\ stream \in Seq(Bytes)
  BY LenProperties DEF TypeOK, InputTypeOK
<1>1. CASE NextSkip \/ \E t \in Threads : SkipRest(t)
  <2>1. /\ ~finished /\ UNCHANGED <<stream, pos, eof, finished, header, start, in_data>>
        /\ call' \in {"skip_rest", "next", "panicked"}
        /\ ~blob' \/ used'
    BY <1>1 DEF NextSkip, SkipRest, SkipBegin, inputVars
  <2> QED
    BY <2>1, QuietControl
<1>2. CASE SkipStep
  <2>1. /\ call \in {"skip_rest", "next"} /\ ~finished /\ (~blob \/ used)
        /\ UNCHANGED <<stream, header, start, in_data, blob, used>>
    BY <1>2 DEF SkipStep, SkipChunk, SkipCountedShort, SkipCountedEnd, SkipLineAtEof,
       SkipLine, Skipping, callerVars, ghostVars, inputVars, stateVars, Control, Ownership
  <2>2. finished' \in BOOLEAN
    BY <1>2, TypeOKSkip DEF TypeOK
  <2>3. CASE SkipChunk \/ SkipCountedShort \/ SkipCountedEnd \/ SkipLineAtEof
    <3>1. \/ call' = "none"
          \/ call' = call /\ ~finished'
          \/ call' = "parse" /\ finished'
      BY <2>1, <2>3 DEF SkipChunk, SkipCountedShort, SkipCountedEnd, SkipLineAtEof, SkipEnd,
         Return, stateVars
    <3>2. eof' => pos' = Len(stream)
      <4>1. SkipOptionalLF(Len(stream)) = Len(stream)
        BY <1>0 DEF SkipOptionalLF
      <4>2. eof => pos = Len(stream)
        BY DEF Control
      <4>3. SkipChunk => ~eof'
        BY <1>0, <4>2 DEF SkipChunk
      <4>4. SkipCountedShort \/ SkipLineAtEof => pos' = pos /\ (eof' => pos = Len(stream))
        BY <4>2 DEF SkipCountedShort, SkipLineAtEof, inputVars
      <4>5. SkipCountedEnd => pos' = SkipOptionalLF(pos) /\ eof' = eof
        BY DEF SkipCountedEnd
      <4> QED
        BY <2>1, <2>3, <4>1, <4>2, <4>3, <4>4, <4>5
    <3> QED
      BY <2>1, <2>2, <3>1, <3>2, DataControl
  <2>4. CASE SkipLine
    <3>1. PICK n \in 0..(Len(stream) - pos) :
              /\ ReadLine(n)
              /\ \/ pos = Len(stream) /\ pos' = pos /\ call' = "none"
                 \/ /\ pos' = SkipOptionalLF(LineEnd(pos, n)) /\ finished' = TRUE
                    /\ call' \in {"none", "parse"}
                 \/ pos' = LineEnd(pos, n) /\ call' = call /\ finished' = finished
      BY <2>4 DEF SkipLine, SkipEnd, Return
    <3>2. eof' => pos' = Len(stream)
      BY <3>1, LastLine
    <3> QED
      BY <2>1, <2>2, <3>1, <3>2, DataControl
  <2> QED
    BY <1>2, <2>3, <2>4 DEF SkipStep
<1> QED
  BY <1>1, <1>2

\* In read_to_end.
LEMMA ReadToEndControl ==
    ASSUME Calls, OneRead,
           \/ SlurpLine \/ SlurpLineAtEof
           \/ \E t \in Threads : ReadToEndCounted(t) \/ ReadToEndDelimited(t)
    PROVE  Control'
<1> USE DEF Calls
<1>0. /\ pos \in 0..Len(stream) /\ Len(stream) \in Nat /\ stream \in Seq(Bytes)
      /\ header.len \in Nat
  BY LenProperties DEF TypeOK, InputTypeOK, HeaderType
<1>1. ASSUME NEW t \in Threads, MayReadToEnd(t)
      PROVE  ~finished
  BY <1>1 DEF MayReadToEnd, Ownership, ExclusiveReader, Control
<1>2. CASE SlurpLineAtEof
  BY <1>2, QuietControl DEF SlurpLineAtEof, inputVars, stateVars, callerVars, ghostVars
<1>3. CASE \E t \in Threads : ReadToEndDelimited(t)
  <2>1. /\ ~finished /\ ~header.is_counted /\ call' = "read_to_end" /\ used'
        /\ UNCHANGED <<stream, pos, eof, finished, header, start, in_data>>
    BY <1>1, <1>3 DEF ReadToEndDelimited, inputVars, stateVars
  <2> QED
    BY <2>1, QuietControl
<1>4. CASE \E t \in Threads : ReadToEndCounted(t)
  <2>1. PICK t \in Threads : ReadToEndCounted(t)
    BY <1>4
  <2>2. /\ ~finished /\ call' = "none" /\ used'
        /\ UNCHANGED <<stream, header, start, in_data>>
        /\ finished' \in BOOLEAN
    BY <1>1, <2>1, TypeOKReadToEnd DEF ReadToEndCounted, Return, TypeOK
  <2>3. eof' => pos' = Len(stream)
    <3>1. PICK n : /\ n = Smaller(header.len, Len(stream) - pos)
                   /\ pos' = pos + n \/ pos' = SkipOptionalLF(pos + n)
      BY <2>1 DEF ReadToEndCounted
    <3>2. eof' => pos = Len(stream)
      BY <2>1 DEF ReadToEndCounted, Control
    <3>3. pos = Len(stream) => n = 0
      BY <1>0, <3>1 DEF Smaller
    <3>4. SkipOptionalLF(Len(stream)) = Len(stream)
      BY <1>0 DEF SkipOptionalLF
    <3> QED
      BY <1>0, <3>1, <3>2, <3>3, <3>4
  <2> QED
    BY <2>2, <2>3, DataControl
<1>5. CASE SlurpLine
  <2>1. /\ call = "read_to_end" /\ ~finished /\ used'
        /\ UNCHANGED <<stream, header, start, in_data>>
    BY <1>5 DEF SlurpLine, Control, Ownership
  <2>2. PICK n \in 0..(Len(stream) - pos) :
            /\ ReadLine(n)
            /\ \/ pos = Len(stream) /\ pos' = pos /\ call' = "none"
               \/ pos' = SkipOptionalLF(LineEnd(pos, n)) /\ call' = "none"
               \/ pos' = LineEnd(pos, n) /\ call' = call /\ finished' = finished
    BY <1>5 DEF SlurpLine, Return
  <2>3. (eof' => pos' = Len(stream)) /\ finished' \in BOOLEAN
    BY <1>5, <2>2, LastLine, TypeOKReadToEnd DEF TypeOK
  <2> QED
    BY <2>1, <2>2, <2>3, DataControl
<1> QED
  BY <1>2, <1>3, <1>4, <1>5

\* In next.
LEMMA ParseControl ==
    ASSUME Calls,
           \/ NextUnfinished \/ NextParse \/ ParseOther \/ ParseEof
           \/ \E h \in Headers : ParseBlob(h)
    PROVE  Control'
<1> USE DEF Calls
<1>1. CASE NextUnfinished \/ NextParse
  BY <1>1, QuietControl DEF NextUnfinished, NextParse, Return, inputVars, stateVars, ghostVars
<1>2. CASE ParseEof
  BY <1>2, QuietControl DEF ParseEof, Return, inputVars, stateVars, callerVars, ghostVars
<1>3. CASE ParseOther
  <2>1. PICK n \in 0..(Len(stream) - pos) : ReadLine(n) /\ pos' = LineEnd(pos, n)
    BY <1>3 DEF ParseOther
  <2>2. /\ finished' /\ call' = "none" /\ ~blob'
        /\ (eof' => pos' = Len(stream)) /\ stream' = stream
    BY <1>3, <2>1, LastLine DEF ParseOther, Return, stateVars, callerVars, Control, Ownership
  <2> QED
    BY <2>2 DEF Control
<1>4. CASE \E h \in Headers : ParseBlob(h)
  <2>1. PICK h \in Headers : ParseBlob(h)
    BY <1>4
  <2>2. PICK n \in 0..(Len(stream) - pos) : ReadLine(n) /\ pos' = LineEnd(pos, n)
    BY <2>1 DEF ParseBlob
  <2>3. /\ stream' = stream /\ finished' = FALSE /\ in_data' = TRUE
        /\ start' = pos' /\ call' = "none"
        /\ (eof' => pos' = Len(stream))
    BY <2>1, <2>2, LastLine DEF ParseBlob, Return
  <2> QED
    BY <2>3 DEF Control
<1> QED
  BY <1>1, <1>2, <1>3, <1>4

\* In all of them.
LEMMA CallsStep ==
    ASSUME OneRead, Calls, [Next]_vars
    PROVE  Calls'
<1>1. TypeOK' /\ Ownership'
  BY TypeOKStep, OwnershipStep DEF Calls
<1>2. Control'
  <2>1. CASE ParserStep
    BY <2>1, SkipControl, ParseControl DEF ParserStep
  <2>2. CASE LoopStep
    BY <2>2, SkipControl, ReadToEndControl DEF LoopStep
  <2>3. CASE \E t \in Threads : ReaderStep(t)
    <3>1. PICK t \in Threads : ReaderStep(t)
      BY <2>3
    <3>2. CASE \E size \in BufSizes : Read(t, size)
      BY <3>2, ReadControl
    <3>3. CASE SkipRest(t) \/ ReadToEndCounted(t) \/ ReadToEndDelimited(t)
      BY <3>3, SkipControl, ReadToEndControl
    <3>4. CASE Open(t) \/ Close(t) \/ SkipNothing(t)
      BY <3>4, QuietControl DEF Calls, Open, Close, SkipNothing, Return, inputVars,
         stateVars, callerVars, ghostVars
    <3> QED
      BY <3>1, <3>2, <3>3, <3>4 DEF ReaderStep
  <2>4. CASE UNCHANGED vars
    BY <2>4, QuietControl DEF Calls, vars, inputVars, stateVars, callerVars, ghostVars
  <2> QED
    BY <2>1, <2>2, <2>3, <2>4 DEF Next
<1> QED
  BY <1>1, <1>2 DEF Calls

-----------------------------------------------------------------------------
(* The calls, when the reader fails.                                         *)

\* A line that is broken off, and the delimiter, end within the stream; and eof is
\* set only at its end.
LEMMA BreakBounds ==
    ASSUME TypeOK, ~eof,
           \/ BreakLine /\ UNCHANGED <<eof, line>>
           \/ PassDelimiter
    PROVE  /\ pos' \in pos..Len(stream) /\ Slice(pos, pos') \in Seq(Bytes)
           /\ eof' \in BOOLEAN /\ line' \in Nat
           /\ eof' => pos' = Len(stream)
<1>0. /\ pos \in 0..Len(stream) /\ Len(stream) \in Nat /\ stream \in Seq(Bytes)
      /\ line \in Nat /\ eof = FALSE
  BY LenProperties DEF TypeOK, InputTypeOK
<1>1. /\ pos' \in pos..Len(stream) /\ eof' \in BOOLEAN /\ line' \in Nat
      /\ eof' => pos' = Len(stream)
  <2>1. CASE BreakLine /\ UNCHANGED <<eof, line>>
    <3>1. PICK k \in 0..(Len(stream) - pos) : pos' = pos + k
      BY <2>1 DEF BreakLine
    <3>2. pos' \in pos..Len(stream)
      BY <1>0, <3>1
    <3>3. eof' = FALSE /\ line' = line
      BY <1>0, <2>1
    <3> QED
      BY <1>0, <3>2, <3>3
  <2>2. CASE PassDelimiter
    BY <1>0, <2>2, LastLine, ReadLineType DEF PassDelimiter
  <2> QED
    BY <2>1, <2>2
<1>2. Slice(pos, pos') \in Seq(Bytes)
  BY <1>0, <1>1, SliceProperties
<1> QED
  BY <1>1, <1>2

\* What every failure has in common: it ends a call that has used the data, or that
\* of next, before the data is finished, and leaves the caller's state.
FailedCall ==
    /\ ~finished /\ finished' \in BOOLEAN
    /\ call' = "none"
    /\ UNCHANGED <<stream, closed, header, callerVars, localVars, start, in_data, out>>
    /\ used' \in BOOLEAN /\ (used => used')
    /\ used' \/ ~blob
    /\ used' => data_opened
    /\ pos' \in pos..Len(stream) /\ eof' \in BOOLEAN /\ line' \in Nat
    /\ eof' => pos' = Len(stream)
    /\ len_read' \in Nat /\ line_buf' \in Seq(Bytes) /\ line_offset' \in Nat
    /\ skipped' \in BOOLEAN

\* A failure in read.
LEMMA ReadFailure ==
    ASSUME Calls, NEW t \in Threads, NEW size \in BufSizes,
           ReadCountedFails(t, size) \/ ReadLineFails(t, size)
    PROVE  FailedCall
<1> USE DEF Calls
<1>0. /\ pos \in 0..Len(stream) /\ Len(stream) \in Nat /\ stream \in Seq(Bytes)
      /\ line \in Nat /\ header.len \in Nat /\ len_read \in Nat /\ skipped \in BOOLEAN
      /\ line_buf \in Seq(Bytes) /\ line_offset \in Nat /\ size \in Nat
  BY LenProperties, DataReaderAssumption DEF TypeOK, InputTypeOK, HeaderType
<1>1. /\ finished = FALSE /\ eof = FALSE /\ data_opened /\ call' = "none" /\ used' = TRUE
      /\ UNCHANGED <<stream, closed, header, callerVars, localVars, start, in_data, out>>
  BY DEF ReadCountedFails, ReadLineFails, CanRead, Fails, Return, Ownership, ExclusiveReader,
     TypeOK, InputTypeOK
<1>2. CASE ReadCountedFails(t, size)
  <2>1. UNCHANGED <<eof, line, line_buf, line_offset>>
    BY <1>2 DEF ReadCountedFails
  <2>2. CASE UNCHANGED <<pos, finished, len_read, skipped, lf_missed>>
    <3>1. pos' \in pos..Len(stream)
      BY <1>0, <2>2
    <3> QED
      BY <1>0, <1>1, <2>1, <2>2, <3>1 DEF FailedCall
  <2>3. ASSUME NEW n \in Nat, n = header.len - len_read, pos + n <= Len(stream),
               pos' = pos + n, len_read' = header.len, finished' = TRUE,
               skipped' \in BOOLEAN
        PROVE  FailedCall
    <3>1. pos' \in pos..Len(stream)
      BY <1>0, <2>3
    <3> QED
      BY <1>0, <1>1, <2>1, <2>3, <3>1 DEF FailedCall
  <2>4. CASE ~UNCHANGED <<pos, finished, len_read, skipped, lf_missed>>
    <3>1. PICK n : /\ n = header.len - len_read /\ n \in 0..size
                   /\ pos + n <= Len(stream)
                   /\ pos' = pos + n /\ len_read' = header.len /\ finished' = TRUE
                   /\ skipped' = (skipped \/ n > 0)
      BY <1>2, <2>4 DEF ReadCountedFails
    <3>2. n \in Nat
      BY <1>0, <3>1
    <3> QED
      BY <2>3, <3>1, <3>2
  <2> QED
    BY <2>2, <2>4
<1>3. CASE ReadLineFails(t, size)
  <2>1. /\ \/ BreakLine /\ UNCHANGED <<eof, line, finished>>
           \/ PassDelimiter /\ finished' = TRUE
        /\ line_buf' = Slice(pos, pos') /\ line_offset' = 0
        /\ UNCHANGED <<len_read, skipped>>
    BY <1>3 DEF ReadLineFails
  <2> QED
    BY <1>0, <1>1, <2>1, BreakBounds DEF FailedCall
<1> QED
  BY <1>2, <1>3

\* A failure in skip_data.
LEMMA SkipFailure ==
    ASSUME Calls, SkipCountedFails \/ SkipLineFails
    PROVE  FailedCall
<1> USE DEF Calls
<1>0. /\ pos \in 0..Len(stream) /\ Len(stream) \in Nat /\ stream \in Seq(Bytes)
      /\ line \in Nat /\ eof \in BOOLEAN /\ len_read \in Nat /\ skipped \in BOOLEAN
      /\ line_buf \in Seq(Bytes) /\ line_offset \in Nat /\ used \in BOOLEAN
      /\ finished \in BOOLEAN
  BY LenProperties DEF TypeOK, InputTypeOK
<1>1. call \in {"skip_rest", "next"}
  BY DEF SkipCountedFails, SkipLineFails, Skipping
<1>2. finished = FALSE /\ (used \/ ~blob) /\ (used => data_opened)
  BY <1>0, <1>1 DEF Control, Ownership
<1>3. /\ call' = "none" /\ used' = used /\ skipped' = skipped
      /\ UNCHANGED <<stream, closed, header, callerVars, localVars, start, in_data, out>>
      /\ UNCHANGED <<len_read, line_offset>>
  BY DEF SkipCountedFails, SkipLineFails, Fails, Return, ghostVars, inputVars
<1>4. CASE SkipCountedFails
  <2>1. /\ UNCHANGED <<pos, eof, line, line_buf>> /\ finished' \in BOOLEAN
    BY <1>4 DEF SkipCountedFails, inputVars
  <2>2. eof' => pos' = Len(stream)
    BY <2>1 DEF Control
  <2>3. pos' \in pos..Len(stream)
    BY <1>0, <2>1
  <2> QED
    BY <1>0, <1>2, <1>3, <2>1, <2>2, <2>3 DEF FailedCall
<1>5. CASE SkipLineFails
  <2>1. /\ \/ BreakLine /\ UNCHANGED <<eof, line, finished>>
           \/ PassDelimiter /\ finished' = TRUE
        /\ line_buf' = Slice(pos, pos') /\ ~eof
    BY <1>5 DEF SkipLineFails
  <2> QED
    BY <1>0, <1>2, <1>3, <2>1, BreakBounds DEF FailedCall
<1> QED
  BY <1>4, <1>5

\* A failure in read_to_end.
LEMMA ReadToEndFailure ==
    ASSUME Calls, OneRead,
           SlurpLineFails \/ \E t \in Threads : ReadToEndCountedFails(t)
    PROVE  FailedCall
<1> USE DEF Calls
<1>0. /\ pos \in 0..Len(stream) /\ Len(stream) \in Nat /\ stream \in Seq(Bytes)
      /\ line \in Nat /\ eof \in BOOLEAN /\ len_read \in Nat /\ skipped \in BOOLEAN
      /\ line_buf \in Seq(Bytes) /\ line_offset \in Nat /\ used \in BOOLEAN
      /\ finished \in BOOLEAN /\ header.len \in Nat
  BY LenProperties DEF TypeOK, InputTypeOK, HeaderType
<1>1. CASE SlurpLineFails
  <2>1. finished = FALSE /\ used /\ data_opened
    BY <1>0, <1>1 DEF SlurpLineFails, Control, Ownership
  <2>2. /\ call' = "none" /\ used' = used /\ skipped' = skipped
        /\ UNCHANGED <<stream, finished, closed, header, callerVars, localVars, start,
                       in_data, out, len_read, line_buf, line_offset>>
    BY <1>1 DEF SlurpLineFails, Fails, Return, ghostVars, stateVars
  <2>3. /\ \/ BreakLine /\ UNCHANGED <<eof, line>>
           \/ PassDelimiter
        /\ ~eof
    BY <1>1 DEF SlurpLineFails
  <2> QED
    BY <1>0, <2>1, <2>2, <2>3, BreakBounds DEF FailedCall
<1>2. CASE \E t \in Threads : ReadToEndCountedFails(t)
  <2>1. PICK t \in Threads : ReadToEndCountedFails(t)
    BY <1>2
  <2>2. finished = FALSE /\ data_opened
    BY <1>0, <2>1 DEF ReadToEndCountedFails, MayReadToEnd, Ownership, ExclusiveReader, Control
  <2>3. /\ call' = "none" /\ used' = TRUE /\ eof' = eof
        /\ UNCHANGED <<stream, finished, closed, header, callerVars, localVars, start,
                       in_data, out, len_read, line_buf, line_offset, skipped>>
    BY <2>1 DEF ReadToEndCountedFails, Fails, Return, stateVars
  <2>4. PICK k \in 0..Smaller(header.len, Len(stream) - pos) :
            /\ pos' = pos + k
            /\ line' = line \/ line' = line + CountLF(pos, pos + k)
    BY <2>1 DEF ReadToEndCountedFails
  <2>5. k \in Nat /\ pos + k <= Len(stream)
    BY <1>0, <2>4 DEF Smaller
  <2>6. pos' \in pos..Len(stream)
    BY <1>0, <2>4, <2>5
  <2>7. eof' => pos' = Len(stream)
    BY <1>0, <2>3, <2>4, <2>5 DEF Control
  <2>8. line' \in Nat
    <3>1. CountLF(pos, pos + k) \in Nat
      BY <1>0, <2>5, CountLFNat
    <3> QED
      BY <1>0, <2>4, <3>1
  <2> QED
    BY <1>0, <2>2, <2>3, <2>6, <2>7, <2>8 DEF FailedCall
<1> QED
  BY <1>1, <1>2

\* Any failure.
LEMMA Failure ==
    ASSUME Calls, OneRead, ReaderFails
    PROVE  FailedCall
BY ReadFailure, SkipFailure, ReadToEndFailure DEF ReaderFails

\* A failure leaves no call in the middle, and the ownership as it is.
LEMMA CallsAfterFailure ==
    ASSUME Calls, FailedCall
    PROVE  Calls'
<1> USE DEF Calls, FailedCall
<1>1. TypeOK'
  <2>1. /\ pos \in 0..Len(stream) /\ Len(stream) \in Nat /\ stream \in Seq(Bytes)
        /\ slurped \in 0..pos
    BY LenProperties DEF TypeOK, InputTypeOK
  <2>2. UNCHANGED <<stream, closed, header, blob, readers, data_opened, start_len, slurped,
                    start, in_data, out>>
    BY DEF callerVars, localVars
  <2>3. pos' \in 0..Len(stream)
    BY <2>1
  <2>4. slurped' \in 0..pos'
    BY <2>1, <2>2
  <2>5. InputTypeOK'
    BY <2>1, <2>2, <2>3 DEF InputTypeOK
  <2> QED
    BY <2>2, <2>4, <2>5 DEF TypeOK
<1>2. Ownership'
  BY DEF Ownership, ExclusiveReader, callerVars
<1>3. Control'
  BY DEF Control, callerVars
<1> QED
  BY <1>1, <1>2, <1>3

-----------------------------------------------------------------------------
(* After the data.                                                           *)

\* Once a data stream is finished, a step reads a directive, or leaves the input
\* and the data stream as they are.
LEMMA FinishedStep ==
    ASSUME OneRead, Calls, finished, [Next]_vars
    PROVE  \/ ParseOther
           \/ \E h \in Headers : ParseBlob(h)
           \/ UNCHANGED <<stream, pos, finished, header, start, in_data>>
<1> USE DEF Calls
<1>1. call \notin {"skip_rest", "next", "read_to_end"}
  BY DEF Control
<1>2. ~LoopStep
  BY <1>1 DEF LoopStep, SkipStep, SkipChunk, SkipCountedShort, SkipCountedEnd, SkipLineAtEof,
     SkipLine, Skipping, SlurpLine, SlurpLineAtEof
<1>3. CASE ParserStep
  BY <1>3 DEF ParserStep, NextUnfinished, NextSkip, NextParse, ParseEof, inputVars, stateVars,
     ghostVars
<1>4. CASE \E t \in Threads : ReaderStep(t)
  <2>1. PICK t \in Threads : ReaderStep(t)
    BY <1>4
  <2>2. ~MayReadToEnd(t)
    BY DEF MayReadToEnd, Ownership, ExclusiveReader, Control
  <2>3. \A size \in BufSizes : Read(t, size) => ReadNothing(t, size)
    BY DEF Read, ReadCounted, ReadCountedAtEof, ReadBufferedLine, ReadNextLine,
       ReadNextLineAtEof, CanRead
  <2> QED
    BY <2>1, <2>2, <2>3 DEF ReaderStep, Open, Close, ReadNothing, SkipRest, SkipNothing,
       ReadToEndCounted, ReadToEndDelimited, inputVars, stateVars, ghostVars
<1>5. CASE UNCHANGED vars
  BY <1>5 DEF vars, inputVars, stateVars, ghostVars
<1> QED
  BY <1>2, <1>3, <1>4, <1>5 DEF Next

-----------------------------------------------------------------------------
(* The invariant.                                                            *)

\* A read_to_end that has begun has counted nothing yet.
Slurping ==
    call = "read_to_end" /\ pos < Len(stream) =>
        /\ line_offset <= Len(line_buf)
        /\ pos = start + len_read + Pending + slurped

FaultsInv ==
    /\ Calls
    /\ cut \in BOOLEAN /\ lf_missed \in BOOLEAN
    /\ lf_missed => finished
    /\ ~cut => Progress /\ Buffered /\ Slurping

\* While nothing is cut, the invariant of DataReader holds.
LEMMA UncutInv ==
    ASSUME FaultsInv, ~cut
    PROVE  IInv /\ Slurping
BY DEF FaultsInv, Calls, IInv

\* A step of read_to_end.
LEMMA SlurpingStep ==
    ASSUME OneRead, IInv, Slurping, [Next]_vars
    PROVE  Slurping'
<1>0. /\ pos \in Nat /\ Len(stream) \in Nat /\ stream \in Seq(Bytes) /\ start \in Nat
      /\ len_read \in Nat /\ slurped \in Nat /\ line_offset \in Nat /\ Len(line_buf) \in Nat
  BY LenProperties DEF IInv, TypeOK, InputTypeOK
<1>1. CASE \E t \in Threads : ReadToEndDelimited(t)
  <2>1. PICK t \in Threads : ReadToEndDelimited(t)
    BY <1>1
  <2>2. /\ Idle /\ ~finished /\ ~header.is_counted
        /\ UNCHANGED <<stream, pos, start, len_read, line_buf, line_offset>>
        /\ slurped' = 0
    BY <2>1 DEF ReadToEndDelimited, MayReadToEnd, inputVars, stateVars, IInv, Control,
       Ownership, ExclusiveReader
  <2>3. pos < Len(stream) => /\ line_offset <= Len(line_buf)
                             /\ pos = start + len_read + Pending
    BY <2>2 DEF IInv, Buffered
  <2> QED
    BY <1>0, <2>2, <2>3 DEF Slurping, Pending
<1>2. CASE SlurpLine
  <2>1. /\ call = "read_to_end"
        /\ UNCHANGED <<stream, start, line_buf, line_offset>>
    BY <1>2 DEF SlurpLine
  <2>2. CASE call' # "read_to_end"
    BY <2>2 DEF Slurping
  <2>3. CASE call' = "read_to_end"
    <3>1. PICK n \in 0..(Len(stream) - pos) : /\ ReadLine(n) /\ pos < Len(stream)
                                              /\ pos' = LineEnd(pos, n)
                                              /\ slurped' = slurped + (pos' - pos)
                                              /\ len_read' = len_read
      BY <1>0, <1>2, <2>3 DEF SlurpLine, Return, IInv, TypeOK, InputTypeOK
    <3>2. pos' \in Nat
      BY <1>0, <3>1 DEF LineEnd
    <3>3. /\ line_offset <= Len(line_buf)
          /\ pos = start + len_read + Pending + slurped
      BY <2>1, <3>1 DEF Slurping
    <3>4. Pending' = Pending /\ Pending \in Int
      BY <1>0, <2>1 DEF Pending
    <3>5. pos' = start + len_read + Pending + slurped'
      <4> HIDE DEF Pending
      <4> QED
        BY <1>0, <3>1, <3>2, <3>3, <3>4
    <3>6. pos' = start' + len_read' + Pending' + slurped'
      BY <2>1, <3>1, <3>4, <3>5
    <3>7. line_offset' <= Len(line_buf')
      BY <2>1, <3>3
    <3> QED
      BY <3>6, <3>7 DEF Slurping
  <2> QED
    BY <2>2, <2>3
<1>3. CASE call' = "read_to_end" /\ ~SlurpLine /\ ~\E t \in Threads : ReadToEndDelimited(t)
  <2>1. UNCHANGED <<stream, pos, start, len_read, line_buf, line_offset, slurped, call>>
    <3>1. CASE ParserStep
      BY <1>3, <3>1 DEF ParserStep, NextUnfinished, NextSkip, SkipBegin, NextParse, ParseBlob,
         ParseOther, ParseEof, Return
    <3>2. CASE SkipStep \/ SlurpLineAtEof
      BY <1>3, <3>2 DEF SkipStep, SkipChunk, SkipCountedShort, SkipCountedEnd, SkipLineAtEof,
         SkipLine, Skipping, SkipEnd, Return, SlurpLineAtEof
    <3>3. CASE \E t \in Threads : ReaderStep(t)
      <4>1. PICK t \in Threads : ReaderStep(t)
        BY <3>3
      <4>2. CASE Open(t)
        BY <4>2 DEF Open, inputVars, stateVars, ghostVars, localVars
      <4>3. CASE ~Open(t)
        BY <1>3, <4>1, <4>3 DEF ReaderStep, Close, Read, ReadNothing, ReadCounted,
           ReadCountedAtEof, ReadBufferedLine, ReadNextLine, ReadNextLineAtEof, CopyLine,
           Return, SkipRest, SkipBegin, SkipNothing, ReadToEndCounted
      <4> QED
        BY <4>2, <4>3
    <3>4. CASE UNCHANGED vars
      BY <3>4 DEF vars, inputVars, stateVars, ghostVars, localVars
    <3> QED
      BY <1>3, <3>1, <3>2, <3>3, <3>4 DEF Next, LoopStep
  <2> QED
    BY <2>1 DEF Slurping, Pending
<1> QED
  BY <1>1, <1>2, <1>3 DEF Slurping

\* A step in which the reader does not fail keeps the invariant.
LEMMA NoFaultStep ==
    ASSUME OneRead, FaultsInv, [Next]_vars, NoFault
    PROVE  FaultsInv'
<1>1. Calls'
  BY CallsStep DEF FaultsInv
<1>2. cut' \in BOOLEAN /\ lf_missed' \in BOOLEAN /\ (lf_missed' => finished')
  BY DEF NoFault, NewData, FaultsInv
<1>3. CASE ~cut
  <2>1. IInv' /\ Slurping'
    BY <1>3, UncutInv, IInvStep, SlurpingStep
  <2> QED
    BY <1>1, <1>2, <2>1 DEF FaultsInv, IInv
<1>4. CASE cut /\ NewData
  <2>1. PICK h \in Headers : ParseBlob(h)
    <3>1. finished /\ ~finished' /\ Calls
      BY <1>4 DEF NewData, FaultsInv
    <3> QED
      BY <3>1, FinishedStep DEF ParseOther, stateVars
  <2>2. Progress' /\ Buffered'
    BY <2>1, BlobBegins DEF FaultsInv, Calls
  <2>3. Slurping'
    BY <2>1 DEF ParseBlob, Return, Slurping
  <2> QED
    BY <1>1, <1>2, <2>2, <2>3 DEF FaultsInv
<1>5. CASE cut /\ ~NewData
  <2>1. cut' = TRUE
    BY <1>5 DEF NoFault, FaultsInv
  <2> QED
    BY <1>1, <1>2, <2>1 DEF FaultsInv
<1> QED
  BY <1>3, <1>4, <1>5

-----------------------------------------------------------------------------
(* The data, when the reader fails.                                          *)

\* A failure that moves nothing keeps the place in the data, if the line that is
\* buffered is one that was, or is empty and all of it has been counted.
LEMMA StillStep ==
    ASSUME IInv, FailedCall, pos' = pos, finished' = finished, len_read' = len_read,
           ~header.is_counted /\ pos < Len(stream) =>
               /\ line_offset' <= Len(line_buf')
               /\ pos = start + len_read + Pending'
    PROVE  Progress' /\ Buffered' /\ Slurping'
<1>1. UNCHANGED <<stream, header, start>> /\ call' = "none"
  BY DEF FailedCall
<1>2. Progress'
  BY <1>1 DEF IInv, Progress, CountedProgress, DelimitedProgress, NoDelimiterBefore,
     DelimiterAt, LineStart, IsLine, Slice
<1>3. Buffered'
  <2> SUFFICES ASSUME ~header.is_counted, pos < Len(stream)
               PROVE  /\ line_offset' <= Len(line_buf')
                      /\ pos' = start' + len_read' + Pending'
    BY <1>1 DEF Buffered, Idle, Skipping, Pending
  <2> QED
    BY <1>1
<1> QED
  BY <1>1, <1>2, <1>3 DEF Slurping

\* A failure after the data has nothing of it left to keep.
LEMMA EndedStep ==
    ASSUME finished', call' = "none"
    PROVE  Progress' /\ Buffered' /\ Slurping'
BY DEF Progress, Buffered, Slurping

\* The delimiter that was read before the failure is that of the data stream.
LEMMA DelimiterPassed ==
    ASSUME IInv, ~finished, ~header.is_counted, PassDelimiter,
           UNCHANGED <<stream, header, start>>
    PROVE  PassedAt(pos)'
<1>0. /\ stream \in Seq(Bytes) /\ pos \in 0..Len(stream) /\ Len(stream) \in Nat
      /\ header \in HeaderType /\ start \in Nat /\ start <= pos
  BY LenProperties DEF IInv, Progress, TypeOK, InputTypeOK
<1>1. PICK n \in 0..(Len(stream) - pos) :
          /\ IsLine(pos, n) /\ pos < Len(stream)
          /\ Slice(pos, pos + n) = header.delim
          /\ pos' = LineEnd(pos, n)
  BY DEF PassDelimiter, ReadLine
<1>2. NoDelimiterBefore(header, start, pos) /\ LineStart(start, pos)
  BY <1>0, <1>1 DEF IInv, Progress, DelimitedProgress
<1>3. pos \in start..Len(stream)
  BY <1>0
<1>4. ContentsEnd(header, start, pos)
  BY <1>0, <1>1, <1>2, <1>3, DelimiterEnds
<1>5. n = Len(header.delim)
  <2>1. n \in Nat /\ pos + n \in pos..Len(stream)
    BY <1>0, <1>1, LineEndBounds
  <2>2. Len(Slice(pos, pos + n)) = (pos + n) - pos
    BY <1>0, <2>1, SliceProperties
  <2> QED
    BY <1>0, <1>1, <2>1, <2>2
<1>6. \E q \in start'..Len(stream') :
          /\ ContentsEnd(header, start, q)
          /\ pos' = IF header.is_counted THEN q ELSE LineEnd(q, Len(header.delim))
  BY <1>1, <1>3, <1>4, <1>5
<1> QED
  BY ZenonT(60), <1>6 DEF PassedAt, ContentsEnd, DelimiterAt, NoDelimiterBefore, LineStart, IsLine,
     Slice, LineEnd

\* Counted data of which all has been read ends where its header says.
LEMMA CountedPassed ==
    ASSUME IInv, ~finished, header.is_counted, UNCHANGED <<stream, header, start>>,
           NEW n \in Nat, len_read + n >= header.len, len_read + n <= header.len \/ n = 0,
           pos' = pos + n, pos' <= Len(stream)
    PROVE  PassedAt(pos)'
<1>0. /\ pos \in 0..Len(stream) /\ Len(stream) \in Nat /\ header.len \in Nat
      /\ len_read \in Nat /\ start \in Nat /\ start <= pos
  BY LenProperties DEF IInv, Progress, TypeOK, InputTypeOK, HeaderType
<1>1. CountedProgress
  BY DEF IInv, Progress
<1>2. pos' = start + header.len
  <2>1. CASE pos = start + len_read /\ len_read <= header.len
    BY <1>0, <2>1
  <2>2. CASE pos = Len(stream) /\ len_read < header.len
    BY <1>0, <2>2
  <2> QED
    BY <1>1, <2>1, <2>2 DEF CountedProgress
<1>3. pos' \in start..Len(stream)
  BY <1>0
<1> QED
  BY <1>2, <1>3 DEF PassedAt, ContentsEnd

\* What a failure does to the data stream: either it goes on, and its place is
\* kept unless it is cut; or it is finished where it ends, but for the LF.
KeepsPlace == ~cut' => Progress' /\ Buffered' /\ Slurping'

FailedData ==
    /\ cut' \in BOOLEAN /\ (cut => cut')
    /\ KeepsPlace
    /\ \/ finished' = FALSE /\ lf_missed' = lf_missed
       \/ /\ finished' = TRUE /\ lf_missed' = TRUE
          /\ ~cut' => PassedAt(pos)'

\* In read and skip_data, of counted data.
LEMMA CountedFailure ==
    ASSUME FaultsInv, FailedCall, header.is_counted,
           \/ SkipCountedFails
           \/ \E t \in Threads, size \in BufSizes : ReadCountedFails(t, size)
    PROVE  FailedData
<1>0. /\ header.len \in Nat /\ len_read \in Nat /\ finished = FALSE /\ cut \in BOOLEAN
      /\ pos \in Nat /\ Len(stream) \in Nat /\ lf_missed = FALSE
  BY LenProperties DEF FaultsInv, Calls, TypeOK, InputTypeOK, HeaderType, FailedCall
<1>1. /\ cut' = cut /\ call' = "none" /\ pos' <= Len(stream)
      /\ UNCHANGED <<stream, header, start>>
  <2>1. pos' \in pos..Len(stream)
    BY DEF FailedCall
  <2>2. pos' <= Len(stream)
    BY <1>0, <2>1
  <2> QED
    BY <2>2 DEF SkipCountedFails, ReadCountedFails, FailedCall
<1>2. ASSUME finished' = FALSE, UNCHANGED <<pos, len_read, lf_missed>>
      PROVE  FailedData
  BY <1>0, <1>1, <1>2, StillStep, UncutInv DEF FailedData, KeepsPlace
<1>3. ASSUME NEW n \in Nat, len_read + n >= header.len, len_read + n <= header.len \/ n = 0,
             pos' = pos + n, finished' = TRUE, lf_missed' = TRUE
      PROVE  FailedData
  <2>1. KeepsPlace
    BY <1>1, <1>3, EndedStep DEF KeepsPlace
  <2>2. ~cut => PassedAt(pos)'
    BY <1>0, <1>1, <1>3, UncutInv, CountedPassed
  <2> QED
    BY <1>0, <1>1, <1>3, <2>1, <2>2 DEF FailedData
<1>4. CASE SkipCountedFails
  <2>1. /\ UNCHANGED <<pos, len_read>>
        /\ finished' = (len_read >= header.len)
        /\ lf_missed' = (lf_missed \/ finished')
    BY <1>4 DEF SkipCountedFails, inputVars
  <2>2. CASE len_read >= header.len
    <3>1. finished' = TRUE /\ lf_missed' = TRUE
      BY <2>1, <2>2
    <3>2. len_read + 0 >= header.len /\ pos' = pos + 0
      BY <1>0, <2>1, <2>2
    <3> QED
      BY <1>3, <3>1, <3>2
  <2>3. CASE ~(len_read >= header.len)
    <3>1. finished' = FALSE
      <4>1. ~finished'
        BY <2>1, <2>3
      <4> QED
        BY <4>1 DEF FailedCall
    <3>2. lf_missed' = lf_missed
      BY <1>0, <2>1, <3>1
    <3> QED
      BY <1>2, <2>1, <3>1, <3>2
  <2> QED
    BY <2>2, <2>3
<1>5. CASE \E t \in Threads, size \in BufSizes : ReadCountedFails(t, size)
  <2>1. PICK t \in Threads, size \in BufSizes : ReadCountedFails(t, size)
    BY <1>5
  <2>2. CASE UNCHANGED <<pos, finished, len_read, skipped, lf_missed>>
    BY <1>0, <1>2, <2>2
  <2>3. CASE ~UNCHANGED <<pos, finished, len_read, skipped, lf_missed>>
    <3>1. PICK n \in 0..size : /\ n = header.len - len_read
                               /\ pos' = pos + n /\ finished' = TRUE /\ lf_missed' = TRUE
      BY <2>1, <2>3 DEF ReadCountedFails
    <3>2. n \in Nat
      BY DataReaderAssumption
    <3>3. len_read + n >= header.len /\ len_read + n <= header.len
      BY <1>0, <3>1, <3>2
    <3> QED
      BY <1>3, <3>1, <3>2, <3>3
  <2> QED
    BY <2>2, <2>3
<1> QED
  BY <1>4, <1>5

\* In read and skip_data, of delimited data.
LEMMA DelimitedFailure ==
    ASSUME FaultsInv, FailedCall, ~header.is_counted,
           \/ SkipLineFails
           \/ \E t \in Threads, size \in BufSizes : ReadLineFails(t, size)
    PROVE  FailedData
<1>0. /\ finished = FALSE /\ cut \in BOOLEAN /\ lf_missed = FALSE /\ call' = "none"
      /\ pos \in 0..Len(stream) /\ Len(stream) \in Nat /\ start \in Nat /\ len_read \in Nat
      /\ line_offset \in Nat /\ Len(line_buf) \in Nat
      /\ UNCHANGED <<stream, header, start>>
  BY LenProperties DEF FaultsInv, Calls, TypeOK, InputTypeOK, HeaderType, FailedCall
<1>1. Len(Slice(pos, pos)) = 0
  <2>1. stream \in Seq(Bytes) /\ pos \in pos..Len(stream) /\ pos - pos = 0
    BY <1>0 DEF FaultsInv, Calls, TypeOK, InputTypeOK
  <2> QED
    BY <1>0, <2>1, SliceProperties
<1>2. CASE PassDelimiter /\ finished' = TRUE /\ lf_missed' = TRUE /\ cut' = cut
  <2>1. ~cut => PassedAt(pos)'
    BY <1>0, <1>2, UncutInv, DelimiterPassed
  <2> QED
    BY <1>0, <1>2, <2>1, EndedStep DEF FailedData, KeepsPlace
<1>3. ASSUME finished' = finished, lf_missed' = lf_missed, len_read' = len_read,
             line_buf' = Slice(pos, pos'), cut' \in BOOLEAN, cut => cut',
             ~cut' => pos' = pos /\ line_offset' = 0,
             ~cut /\ pos < Len(stream) => pos = start + len_read
      PROVE  FailedData
  <2>1. KeepsPlace
    <3> SUFFICES ASSUME ~cut' PROVE Progress' /\ Buffered' /\ Slurping'
      BY DEF KeepsPlace
    <3>1. /\ IInv /\ pos' = pos /\ line_offset' = 0 /\ Len(line_buf') = 0
          /\ pos < Len(stream) => pos = start + len_read
      BY <1>1, <1>3, UncutInv
    <3>2. Pending' = 0
      BY <3>1 DEF Pending
    <3>3. start + len_read + 0 = start + len_read
      BY <1>0
    <3> QED
      BY <1>3, <3>1, <3>2, <3>3, StillStep
  <2> QED
    BY <1>0, <1>3, <2>1 DEF FailedData
<1>4. CASE SkipLineFails
  <2>1. /\ len_read' = len_read /\ line_offset' = line_offset
        /\ line_buf' = Slice(pos, pos') /\ Skipping
    BY <1>4 DEF SkipLineFails
  <2>2. ~cut /\ pos < Len(stream) => pos = start + len_read
    BY <1>0, <2>1, UncutInv DEF IInv, Buffered
  <2>3. \/ PassDelimiter /\ finished' = TRUE /\ lf_missed' = TRUE /\ cut' = cut
        \/ /\ cut' = (cut \/ pos' # pos \/ line_offset # 0)
           /\ finished' = finished /\ lf_missed' = lf_missed
    BY <1>4 DEF SkipLineFails
  <2> QED
    BY <1>0, <1>2, <1>3, <2>1, <2>2, <2>3
<1>5. CASE \E t \in Threads, size \in BufSizes : ReadLineFails(t, size)
  <2>1. /\ len_read' = len_read /\ line_offset' = 0
        /\ line_buf' = Slice(pos, pos') /\ Idle /\ line_offset >= Len(line_buf)
    BY <1>5 DEF ReadLineFails, CanRead
  <2>2. ~cut /\ pos < Len(stream) => pos = start + len_read
    <3> SUFFICES ASSUME ~cut, pos < Len(stream) PROVE pos = start + len_read
      OBVIOUS
    <3>1. line_offset <= Len(line_buf) /\ pos = start + len_read + Pending
      BY <1>0, <2>1, UncutInv DEF IInv, Buffered
    <3>2. Pending = 0
      BY <1>0, <2>1, <3>1 DEF Pending
    <3> QED
      BY <1>0, <3>1, <3>2
  <2>3. \/ PassDelimiter /\ finished' = TRUE /\ lf_missed' = TRUE /\ cut' = cut
        \/ /\ cut' = (cut \/ pos' # pos)
           /\ finished' = finished /\ lf_missed' = lf_missed
    BY <1>5 DEF ReadLineFails
  <2> QED
    BY <1>0, <1>2, <1>3, <2>1, <2>2, <2>3
<1> QED
  BY <1>4, <1>5

\* In read_to_end.
LEMMA ReadToEndFailed ==
    ASSUME FaultsInv, FailedCall,
           SlurpLineFails \/ \E t \in Threads : ReadToEndCountedFails(t)
    PROVE  FailedData
<1>0. /\ finished = FALSE /\ cut \in BOOLEAN /\ lf_missed = FALSE
      /\ pos \in Nat /\ start \in Nat /\ len_read \in Nat /\ slurped \in Nat
      /\ line_offset \in Nat /\ Len(line_buf) \in Nat
  BY LenProperties DEF FaultsInv, Calls, TypeOK, InputTypeOK, FailedCall
<1>1. UNCHANGED <<stream, header, start, finished, len_read, line_buf, line_offset, lf_missed>>
  BY DEF SlurpLineFails, ReadToEndCountedFails, stateVars, FailedCall
<1>2. CASE SlurpLineFails
  <2>1. call = "read_to_end" /\ cut' \in BOOLEAN /\ (cut => cut')
    BY <1>0, <1>2 DEF SlurpLineFails
  <2>2. ~cut' => ~cut /\ pos' = pos /\ slurped = 0
    <3>1. ~cut' => ~cut /\ pos' = pos /\ ~(slurped > 0)
      BY <1>2 DEF SlurpLineFails
    <3> QED
      BY <1>0, <3>1
  <2>3. KeepsPlace
    <3> SUFFICES ASSUME ~cut' PROVE Progress' /\ Buffered' /\ Slurping'
      BY DEF KeepsPlace
    <3>1. IInv /\ Slurping
      BY <2>2, UncutInv
    <3>2. pos < Len(stream) => /\ line_offset' <= Len(line_buf')
                               /\ pos = start + len_read + Pending'
      <4> SUFFICES ASSUME pos < Len(stream)
                   PROVE  /\ line_offset <= Len(line_buf)
                          /\ pos = start + len_read + Pending
        BY <1>1 DEF Pending
      <4>1. line_offset <= Len(line_buf) /\ pos = start + len_read + Pending + 0
        BY <2>1, <2>2, <3>1 DEF Slurping
      <4> QED
        BY <1>0, <4>1 DEF Pending
    <3> QED
      BY <1>1, <2>2, <3>1, <3>2, StillStep
  <2> QED
    BY <1>0, <1>1, <2>1, <2>3 DEF FailedData
<1>3. CASE \E t \in Threads : ReadToEndCountedFails(t)
  <2>1. PICK k \in Int : header.is_counted /\ k >= 0 /\ pos' = pos + k /\ cut' = (cut \/ k > 0)
    <3>1. PICK t \in Threads : ReadToEndCountedFails(t)
      BY <1>3
    <3>2. PICK k \in 0..Smaller(header.len, Len(stream) - pos) :
              pos' = pos + k /\ cut' = (cut \/ k > 0)
      BY <3>1 DEF ReadToEndCountedFails
    <3> QED
      BY <3>1, <3>2 DEF ReadToEndCountedFails
  <2>2. cut' \in BOOLEAN /\ (cut => cut') /\ (~cut' => ~cut /\ pos' = pos)
    <3>1. ~cut' => ~cut /\ ~(k > 0)
      BY <2>1
    <3>2. cut' \in BOOLEAN /\ (cut => cut')
      BY <2>1
    <3> QED
      BY <1>0, <2>1, <3>1, <3>2
  <2>3. KeepsPlace
    BY <1>1, <2>1, <2>2, UncutInv, StillStep DEF KeepsPlace
  <2> QED
    BY <1>0, <1>1, <2>2, <2>3 DEF FailedData
<1> QED
  BY <1>2, <1>3

\* A failure keeps the invariant.
LEMMA FaultStep ==
    ASSUME OneRead, FaultsInv, ReaderFails
    PROVE  FaultsInv' /\ FailedCall /\ FailedData
<1>1. FailedCall
  BY Failure DEF FaultsInv
<1>2. FailedData
  <2>1. \A t \in Threads, size \in BufSizes :
            /\ ReadCountedFails(t, size) => header.is_counted
            /\ ReadLineFails(t, size) => ~header.is_counted
    BY DEF ReadCountedFails, ReadLineFails
  <2>2. /\ SkipCountedFails => header.is_counted
        /\ SkipLineFails => ~header.is_counted
    BY DEF SkipCountedFails, SkipLineFails
  <2> QED
    BY <1>1, <2>1, <2>2, CountedFailure, DelimitedFailure, ReadToEndFailed DEF ReaderFails
<1>3. Calls'
  BY <1>1, CallsAfterFailure DEF FaultsInv
<1>4. lf_missed' \in BOOLEAN /\ (lf_missed' => finished')
  <2>1. lf_missed = FALSE
    BY <1>1 DEF FailedCall, FaultsInv
  <2> QED
    BY <1>2, <2>1 DEF FailedData
<1> QED
  BY <1>1, <1>2, <1>3, <1>4 DEF FaultsInv, FailedData, KeepsPlace

-----------------------------------------------------------------------------
(* What the caller is given.                                                 *)

\* The bytes that the caller has are those of the stream, from the beginning of
\* the data on.
Given ==
    /\ start + Len(out) <= Len(stream)
    /\ out = Slice(start, start + Len(out))

\* What is left of the buffered line is what comes next in the stream, and no
\* delimiter begins in it, or before it.
LineAhead ==
    /\ line_offset <= Len(line_buf)
    /\ start + len_read + Pending <= Len(stream)
    /\ \A k \in 1..Pending : line_buf[line_offset + k] = stream[start + len_read + k]
    /\ NoDelimiterBefore(header, start, start + len_read + Pending)

\* Nothing has been read yet.
Fresh ==
    /\ len_read = 0 /\ out = <<>>
    /\ ~header.is_counted => line_buf = <<>> /\ line_offset = 0

Delivering ==
    in_data /\ ~skipped =>
        /\ Given
        /\ header.is_counted => Len(out) <= header.len
        /\ finished => ContentsEnd(header, start, start + Len(out))
        /\ ~finished => Len(out) = len_read /\ (~header.is_counted => LineAhead)
        /\ ~finished /\ (~used \/ call = "read_to_end") => Fresh

DeliverInv ==
    /\ Skipping => skipped
    /\ ~cut => Delivering

\* More of the stream is given to the caller.
LEMMA GivenGrows ==
    ASSUME TypeOK, Given, UNCHANGED <<stream, start>>, NEW s \in Seq(Bytes),
           out' = out \o s, start + Len(out) + Len(s) <= Len(stream),
           \A k \in 1..Len(s) : s[k] = stream[start + Len(out) + k]
    PROVE  Given' /\ Len(out') = Len(out) + Len(s)
<1>1. /\ stream \in Seq(Bytes) /\ Len(stream) \in Nat /\ out \in Seq(Bytes) /\ Len(out) \in Nat
      /\ Len(s) \in Nat /\ start \in Nat /\ start \in 0..Len(stream)
  BY LenProperties DEF TypeOK, InputTypeOK
<1>2. out' \in Seq(Bytes) /\ Len(out') = Len(out) + Len(s)
  BY <1>1, ConcatProperties
<1>3. PICK q \in start..Len(stream) : q = start + Len(out')
  BY <1>1, <1>2
<1>4. /\ Slice(start, q) \in Seq(Bytes) /\ Len(Slice(start, q)) = q - start
      /\ \A k \in 1..(q - start) : Slice(start, q)[k] = stream[start + k]
  BY <1>1, <1>3, SliceProperties
<1>5. q - start = Len(out')
  BY <1>1, <1>2, <1>3
<1>6. ASSUME NEW k \in 1..Len(out')
      PROVE  out'[k] = stream[start + k]
  <2>1. CASE k <= Len(out)
    <3>1. k \in 1..Len(out) /\ out'[k] = out[k]
      BY <1>1, <1>2, <2>1, ConcatProperties
    <3>2. start + Len(out) \in start..Len(stream) /\ start \in 0..Len(stream)
      BY <1>1 DEF Given
    <3>3. \A j \in 1..(start + Len(out) - start) :
              Slice(start, start + Len(out))[j] = stream[start + j]
      BY SMTT(30), <1>1, <3>2, SliceProperties
    <3>4. start + Len(out) - start = Len(out) /\ out = Slice(start, start + Len(out))
      BY <1>1 DEF Given
    <3>5. out[k] = stream[start + k]
      BY <3>1, <3>3, <3>4
    <3> QED
      BY <3>1, <3>5
  <2>2. CASE k > Len(out)
    <3>1. k - Len(out) \in 1..Len(s)
      BY <1>1, <1>2, <2>2
    <3>2. out'[k] = s[k - Len(out)]
      BY <1>1, <1>2, <2>2, ConcatProperties
    <3>3. s[k - Len(out)] = stream[start + Len(out) + (k - Len(out))]
      BY <3>1
    <3>4. start + Len(out) + (k - Len(out)) = start + k
      BY <1>1, <1>2
    <3> QED
      BY <3>2, <3>3, <3>4
  <2> QED
    BY <1>1, <1>2, <2>1, <2>2
<1>7. out' = Slice(start, q)
  <2>1. Len(Slice(start, q)) = Len(out')
    BY <1>4, <1>5
  <2>2. \A k \in 1..Len(out') : out'[k] = Slice(start, q)[k]
    BY <1>4, <1>5, <1>6
  <2> QED
    BY <1>2, <1>4, <2>1, <2>2, SeqEqual
<1>8. q <= Len(stream)
  BY <1>1, <1>3
<1> QED
  BY <1>2, <1>3, <1>7, <1>8 DEF Given, Slice

\* The bytes after the position are given to the caller.
LEMMA GivenSlice ==
    ASSUME TypeOK, Given, UNCHANGED <<stream, start>>,
           NEW p \in Nat, p = start + Len(out), NEW q \in p..Len(stream),
           out' = out \o Slice(p, q)
    PROVE  Given' /\ Len(out') = Len(out) + (q - p)
<1>1. /\ stream \in Seq(Bytes) /\ Len(stream) \in Nat /\ Len(out) \in Nat /\ start \in Nat
      /\ p \in 0..Len(stream)
  BY LenProperties DEF TypeOK, InputTypeOK
<1>2. /\ Slice(p, q) \in Seq(Bytes) /\ Len(Slice(p, q)) = q - p
      /\ \A k \in 1..(q - p) : Slice(p, q)[k] = stream[p + k]
  BY <1>1, SliceProperties
<1>3. start + Len(out) + (q - p) <= Len(stream)
  BY <1>1
<1> QED
  BY <1>2, <1>3, GivenGrows

\* The next n bytes of the stream are those of buf from offset on.
NextAre(buf, offset, n) ==
    \A k \in 1..n : buf[offset + k] = stream[start + len_read + k]

\* The size of a part, and places in it and behind it.
LEMMA PartSize ==
    ASSUME NEW left \in Nat, NEW size \in Nat
    PROVE  Smaller(left, size) \in Nat /\ Smaller(left, size) <= left
BY DEF Smaller

LEMMA PartPlaces ==
    ASSUME NEW offset \in Nat, NEW left \in Nat, NEW n \in Nat, n <= left
    PROVE  /\ offset + n \in Nat /\ offset + 1 \in Nat /\ offset + n <= offset + left
           /\ (offset + n) - (offset + 1) + 1 = n
           /\ offset + 1 <= offset + n <=> 1 <= n
           /\ (offset + left) - (offset + n) = left - n
OBVIOUS

\* A part of a buffered line is copied to the caller.
LEMMA CopyDelivers ==
    ASSUME TypeOK, Given, Len(out) = len_read, UNCHANGED <<stream, header, start>>,
           NEW buf \in Seq(Bytes), NEW offset \in 0..Len(buf), NEW size \in Nat,
           CopyLine(buf, offset, size),
           NEW left, left = Len(buf) - offset,
           start + len_read + left <= Len(stream),
           NextAre(buf, offset, left),
           NoDelimiterBefore(header, start, start + len_read + left)
    PROVE  Given' /\ Len(out') = len_read' /\ LineAhead'
<1>1. /\ Len(stream) \in Nat /\ Len(out) \in Nat /\ Len(buf) \in Nat /\ start \in Nat
      /\ offset \in Nat /\ left \in Nat /\ len_read \in Nat /\ offset + left = Len(buf)
  BY LenProperties DEF TypeOK, InputTypeOK
<1>2. PICK n \in Nat : n = Smaller(left, size) /\ n <= left
  BY <1>1, PartSize
<1>2a. /\ n \in Nat /\ n <= left
       /\ offset + n \in Nat /\ offset + 1 \in Nat /\ offset + n <= Len(buf)
       /\ (offset + n) - (offset + 1) + 1 = n /\ (offset + 1 <= offset + n <=> 1 <= n)
       /\ Len(buf) - (offset + n) = left - n
  <2>1. n \in Nat /\ n <= left
    BY <1>2
  <2> QED
    BY <1>1, <2>1, PartPlaces
<1>3. /\ line_buf' = buf /\ line_offset' = offset + n /\ len_read' = len_read + n
      /\ out' = out \o SubSeq(buf, offset + 1, offset + n)
  BY <1>2 DEF CopyLine
<1> DEFINE s == SubSeq(buf, offset + 1, offset + n)
<1>4. s \in Seq(Bytes) /\ Len(s) = n /\ \A k \in 1..n : s[k] = buf[offset + k]
  <2>1. PICK m \in Int : m = offset + 1
    BY <1>2a
  <2>2. PICK l \in Int : l = offset + n
    BY <1>2a
  <2>3. l - m + 1 = n /\ (m <= l <=> 1 <= n)
    BY <1>2a, <2>1, <2>2
  <2>4. \A k \in m..l : buf[k] \in Bytes
    <3>1. \A k \in m..l : k \in 1..Len(buf)
      BY <1>1, <1>2a, <2>1, <2>2
    <3> QED
      BY <3>1, ElementOfSeq
  <2>5. /\ SubSeq(buf, m, l) \in Seq(Bytes)
        /\ Len(SubSeq(buf, m, l)) = IF m <= l THEN l - m + 1 ELSE 0
        /\ \A k \in 1..(l - m + 1) : SubSeq(buf, m, l)[k] = buf[m + k - 1]
    BY <2>4, SubSeqProperties
  <2>6. Len(SubSeq(buf, m, l)) = n
    BY <1>2a, <2>3, <2>5
  <2>7. \A k \in 1..n : SubSeq(buf, m, l)[k] = buf[offset + k]
    <3>1. \A k \in 1..n : SubSeq(buf, m, l)[k] = buf[m + k - 1]
      BY <2>3, <2>5
    <3>2. \A k \in 1..n : m + k - 1 = offset + k
      BY <1>1, <2>1
    <3> QED
      BY <3>1, <3>2
  <2> QED
    BY <2>1, <2>2, <2>5, <2>6, <2>7
<1>5. Given' /\ Len(out') = len_read'
  <2> HIDE DEF s
  <2>1. out' = out \o s
    BY <1>3 DEF s
  <2>2. start + Len(out) + Len(s) <= Len(stream)
    BY <1>1, <1>2, <1>4
  <2>3. ASSUME NEW k \in 1..Len(s)
        PROVE  s[k] = stream[start + Len(out) + k]
    <3>1. k \in 1..n /\ k \in 1..left
      BY <1>4, <1>2a, <1>1
    <3>2. s[k] = buf[offset + k] /\ buf[offset + k] = stream[start + len_read + k]
      BY <1>4, <3>1 DEF NextAre
    <3> QED
      BY <3>2
  <2>4. Given' /\ Len(out') = Len(out) + Len(s)
    BY <1>4, <2>1, <2>2, <2>3, GivenGrows
  <2> QED
    BY <1>3, <1>4, <2>4
<1>6. LineAhead'
  <2>0. line_offset' = offset + n /\ len_read' = len_read + n
    BY <1>3
  <2>1. Pending' = left - n
    BY <1>3, <1>2a DEF Pending
  <2>2. /\ line_offset' <= Len(line_buf')
        /\ start + len_read' + (left - n) = start + len_read + left
    <3>1. start + (len_read + n) + (left - n) = start + len_read + left
      BY <1>1, <1>2a
    <3> QED
      BY <1>3, <1>2a, <3>1
  <2>3. ASSUME NEW k \in 1..(left - n)
        PROVE  line_buf'[line_offset' + k] = stream[start + len_read' + k]
    <3>1. /\ n + k \in 1..left /\ offset + (n + k) = line_offset' + k
          /\ start + len_read + (n + k) = start + len_read' + k
      <4>1. /\ n + k \in 1..left /\ offset + (n + k) = (offset + n) + k
            /\ start + len_read + (n + k) = start + (len_read + n) + k
        <5>1. k \in Nat /\ n + k >= 1 /\ n + k <= left
          BY <1>1, <1>2a
        <5> QED
          BY <1>1, <1>2a, <5>1
      <4> QED
        BY <2>0, <4>1
    <3>2. buf[offset + (n + k)] = stream[start + len_read + (n + k)]
      BY <3>1 DEF NextAre
    <3> QED
      BY <1>3, <3>1, <3>2
  <2>4. NoDelimiterBefore(header, start, start + len_read' + Pending')
    BY <2>1, <2>2
  <2>5. NoDelimiterBefore(header, start, start + len_read + Pending)'
    BY <2>4 DEF NoDelimiterBefore, DelimiterAt, LineStart, IsLine, Slice
  <2> QED
    BY <2>1, <2>2, <2>3, <2>5 DEF LineAhead
<1> QED
  BY <1>5, <1>6

\* A step that gives nothing, and reads nothing of the data.
LEMMA DeliveringStays ==
    ASSUME Delivering, used => used',
           UNCHANGED <<stream, header, start, in_data, out, skipped, finished,
                       len_read, line_buf, line_offset>>,
           call' = "read_to_end" => call = "read_to_end" \/ ~used
    PROVE  Delivering'
<1>1. Given' <=> Given
  BY DEF Given, Slice
<1>2. LineAhead' <=> LineAhead
  BY DEF LineAhead, Pending, NoDelimiterBefore, DelimiterAt, LineStart, IsLine, Slice
<1>3. ContentsEnd(header, start, start + Len(out))' <=>
        ContentsEnd(header, start, start + Len(out))
  BY DEF ContentsEnd, NoDelimiterBefore, DelimiterAt, LineStart, IsLine, Slice
<1>4. Fresh' <=> Fresh
  BY DEF Fresh
<1> QED
  BY <1>1, <1>2, <1>3, <1>4 DEF Delivering

\* A step in which the caller has been given all of the contents.
LEMMA FinishDelivers ==
    ASSUME Given', UNCHANGED <<stream, header, start>>, finished',
           header.is_counted => Len(out') <= header.len,
           ContentsEnd(header, start, start + Len(out'))
    PROVE  Delivering'
<1>1. ContentsEnd(header, start, start + Len(out))'
  BY DEF ContentsEnd, NoDelimiterBefore, DelimiterAt, LineStart, IsLine, Slice
<1> QED
  BY <1>1 DEF Delivering

\* A step in which it has not, in a read.
LEMMA ReadOnDelivers ==
    ASSUME Given', UNCHANGED <<header>>, ~finished', used', call' # "read_to_end",
           header.is_counted => Len(out') <= header.len,
           Len(out') = len_read', ~header.is_counted => LineAhead'
    PROVE  Delivering'
BY DEF Delivering

\* No delimiter begins before a position if none begins before one further on.
LEMMA NoDelimiterYet ==
    ASSUME NEW h, NEW b \in Nat, NEW p \in Int, NEW q \in Int, q <= p,
           NoDelimiterBefore(h, b, p)
    PROVE  NoDelimiterBefore(h, b, q)
<1>1. \A k \in b..(q - 1) : k \in b..(p - 1)
  OBVIOUS
<1> QED
  BY <1>1 DEF NoDelimiterBefore

\* What has been buffered before, in a data stream that is not finished.
LEMMA Ahead ==
    ASSUME IInv, Delivering, in_data, ~skipped, ~finished
    PROVE  /\ Given /\ Len(out) = len_read
           /\ header.is_counted => CountedProgress
           /\ ~header.is_counted =>
                /\ LineAhead /\ Pending \in Nat
                /\ NoDelimiterBefore(header, start, start + len_read)
<1>1. /\ Given /\ Len(out) = len_read /\ (~header.is_counted => LineAhead)
      /\ header.is_counted => CountedProgress
  BY DEF Delivering, IInv, Progress
<1>2. /\ line_offset \in Nat /\ Len(line_buf) \in Nat /\ start \in Nat /\ len_read \in Nat
  BY LenProperties DEF IInv, TypeOK, InputTypeOK
<1>3. LineAhead => Pending \in Nat
  BY <1>2 DEF LineAhead, Pending
<1>4. LineAhead => NoDelimiterBefore(header, start, start + len_read)
  <2> SUFFICES ASSUME LineAhead PROVE NoDelimiterBefore(header, start, start + len_read)
    OBVIOUS
  <2>1. PICK p \in Int : p = start + len_read + Pending
    BY <1>2, <1>3
  <2>2. start + len_read \in Int /\ start + len_read <= p
    BY <1>2, <1>3, <2>1
  <2>3. NoDelimiterBefore(header, start, p)
    BY <2>1 DEF LineAhead
  <2> QED
    BY <1>2, <2>1, <2>2, <2>3, NoDelimiterYet
<1> QED
  BY <1>1, <1>3, <1>4

\* An empty buffer has nothing ahead.
LEMMA EmptyAhead ==
    ASSUME TypeOK, Given, Len(out) = len_read,
           NoDelimiterBefore(header, start, start + len_read),
           UNCHANGED <<stream, header, start, len_read>>,
           Len(line_buf') = 0, line_offset' = 0
    PROVE  LineAhead'
<1>1. Len(stream) \in Nat /\ start \in Nat /\ len_read \in Nat
  BY LenProperties DEF TypeOK, InputTypeOK
<1>2. Pending' = 0
  BY DEF Pending
<1>3. start + len_read + 0 = start + len_read
  BY <1>1
<1>4. start + len_read <= Len(stream)
  BY DEF Given
<1>5. \A k \in 1..0 : FALSE
  OBVIOUS
<1>6. NoDelimiterBefore(header, start, start + len_read)'
  BY DEF NoDelimiterBefore, DelimiterAt, LineStart, IsLine, Slice
<1>7. /\ start' + len_read' + Pending' <= Len(stream')
      /\ line_offset' <= Len(line_buf')
      /\ \A k \in 1..Pending' : line_buf'[line_offset' + k] = stream'[start' + len_read' + k]
  BY <1>2, <1>3, <1>4, <1>5
<1>8. NoDelimiterBefore(header, start, start + len_read + Pending)'
  BY <1>2, <1>3, <1>6
<1> QED
  BY <1>7, <1>8 DEF LineAhead

\* In read, of counted data.
LEMMA ReadCountedDelivers ==
    ASSUME IInv, Delivering, in_data, ~skipped,
           NEW t \in Threads, NEW size \in BufSizes, ReadCounted(t, size)
    PROVE  Delivering'
<1>0. /\ stream \in Seq(Bytes) /\ pos \in 0..Len(stream) /\ Len(stream) \in Nat
      /\ header.len \in Nat /\ len_read \in Nat /\ size \in Nat /\ start \in Nat
      /\ pos \in Nat
  BY LenProperties, DataReaderAssumption DEF IInv, TypeOK, InputTypeOK, HeaderType
<1>1. /\ ~finished /\ header.is_counted /\ used' /\ call' = "none"
      /\ UNCHANGED <<stream, header, start>>
  BY DEF ReadCounted, CanRead, Return
<1>2. Given /\ Len(out) = len_read /\ CountedProgress
  BY <1>1, Ahead
<1>3. PICK n \in 0..Smaller(Smaller(header.len - len_read, size), Len(stream) - pos) :
          /\ n = 0 => header.len = len_read \/ pos = Len(stream)
          /\ len_read' = len_read + n
          /\ finished' = (len_read' >= header.len)
          /\ out' = out \o Slice(pos, pos + n)
  BY DEF ReadCounted
<1>4. /\ n \in Nat /\ pos + n \in pos..Len(stream)
      /\ len_read + n <= header.len
      /\ n > 0 => pos = start + len_read
  BY <1>0, <1>2, <1>3 DEF Smaller, CountedProgress
<1>5. /\ Slice(pos, pos + n) \in Seq(Bytes) /\ Len(Slice(pos, pos + n)) = n
      /\ \A k \in 1..n : Slice(pos, pos + n)[k] = stream[start + Len(out) + k]
  <2>1. /\ Slice(pos, pos + n) \in Seq(Bytes) /\ Len(Slice(pos, pos + n)) = (pos + n) - pos
        /\ \A k \in 1..((pos + n) - pos) : Slice(pos, pos + n)[k] = stream[pos + k]
    BY <1>0, <1>4, SliceProperties
  <2>2. (pos + n) - pos = n
    BY <1>0, <1>4
  <2>3. ASSUME NEW k \in 1..n
        PROVE  pos + k = start + Len(out) + k
    BY <1>0, <1>2, <1>4
  <2> QED
    BY <2>1, <2>2, <2>3
<1>6. start + Len(out) + n <= Len(stream)
  BY <1>0, <1>2, <1>4 DEF Given
<1>7. Given' /\ Len(out') = Len(out) + n
  BY <1>1, <1>2, <1>3, <1>5, <1>6, GivenGrows DEF IInv
<1>8. Len(out') = len_read' /\ len_read' <= header.len
  BY <1>2, <1>3, <1>4, <1>7
<1>9. CASE len_read' >= header.len
  <2>1. len_read' = header.len
    <3>1. len_read + n = header.len
      <4>1. len_read + n >= header.len
        BY <1>3, <1>9
      <4>2. len_read + n \in Nat
        BY <1>0, <1>4
      <4> QED
        BY <1>0, <1>4, <4>1, <4>2
    <3> QED
      BY <1>3, <3>1
  <2>2. ContentsEnd(header, start, start + Len(out'))
    BY <1>1, <1>8, <2>1 DEF ContentsEnd
  <2>3. finished'
    BY <1>3, <1>9
  <2> QED
    BY <1>1, <1>7, <1>8, <2>2, <2>3, FinishDelivers
<1>10. CASE ~(len_read' >= header.len)
  <2>1. ~finished'
    BY <1>3, <1>10
  <2> QED
    BY <1>1, <1>7, <1>8, <2>1, ReadOnDelivers
<1> QED
  BY <1>9, <1>10

\* In read, of delimited data.
LEMMA ReadDelimitedDelivers ==
    ASSUME IInv, Delivering, in_data, ~skipped, NEW t \in Threads, NEW size \in BufSizes,
           ReadBufferedLine(t, size) \/ ReadNextLine(t, size)
    PROVE  Delivering'
<1>0. /\ stream \in Seq(Bytes) /\ pos \in 0..Len(stream) /\ Len(stream) \in Nat
      /\ header \in HeaderType /\ len_read \in Nat /\ size \in Nat /\ start \in Nat
      /\ line_buf \in Seq(Bytes) /\ Len(line_buf) \in Nat /\ line_offset \in Nat
      /\ pos \in Nat /\ TypeOK
  BY LenProperties, DataReaderAssumption DEF IInv, TypeOK, InputTypeOK
<1>1. /\ ~finished /\ ~header.is_counted /\ used' /\ call' = "none" /\ Idle
      /\ UNCHANGED <<stream, header, start>>
  BY DEF ReadBufferedLine, ReadNextLine, CanRead, CopyLine, Return, inputVars
<1>2. /\ Given /\ Len(out) = len_read /\ LineAhead /\ Pending \in Nat
      /\ NoDelimiterBefore(header, start, start + len_read)
  BY <1>1, Ahead
<1>3. CASE ReadBufferedLine(t, size)
  <2>1. CopyLine(line_buf, line_offset, size) /\ finished' = finished
    BY <1>3 DEF ReadBufferedLine
  <2>2. line_offset \in 0..Len(line_buf) /\ Pending = Len(line_buf) - line_offset
    BY <1>0, <1>2 DEF LineAhead, Pending
  <2>3. /\ start + len_read + Pending <= Len(stream)
        /\ NextAre(line_buf, line_offset, Pending)
        /\ NoDelimiterBefore(header, start, start + len_read + Pending)
    BY <1>2 DEF LineAhead, NextAre
  <2>4. Given' /\ Len(out') = len_read' /\ LineAhead'
    BY <1>0, <1>1, <1>2, <2>1, <2>2, <2>3, CopyDelivers
  <2> QED
    BY <1>1, <2>1, <2>4, ReadOnDelivers
<1>4. CASE ReadNextLine(t, size)
  <2>1. PICK n \in 0..(Len(stream) - pos) :
            /\ ReadLine(n)
            /\ \/ /\ pos = Len(stream)
                  /\ line_buf' = <<>> /\ line_offset' = 0
                  /\ UNCHANGED <<finished, len_read, out>>
               \/ /\ pos # Len(stream) /\ Slice(pos, pos + n) = header.delim
                  /\ finished' = TRUE
                  /\ UNCHANGED <<len_read, out>>
               \/ /\ pos # Len(stream) /\ Slice(pos, pos + n) # header.delim
                  /\ CopyLine(Slice(pos, LineEnd(pos, n)), 0, size)
                  /\ UNCHANGED finished
    BY <1>4 DEF ReadNextLine
  <2>2. CASE /\ pos = Len(stream) /\ line_buf' = <<>> /\ line_offset' = 0
             /\ UNCHANGED <<finished, len_read, out>>
    <3>1. Given'
      BY <1>1, <1>2, <2>2 DEF Given, Slice
    <3>2. LineAhead'
      BY <1>0, <1>1, <1>2, <2>2, EmptyAhead
    <3> QED
      BY <1>1, <1>2, <2>2, <3>1, <3>2, ReadOnDelivers
  <2> SUFFICES ASSUME pos # Len(stream) PROVE Delivering'
    BY <2>1, <2>2
  <2>3. pos < Len(stream) /\ IsLine(pos, n)
    BY <1>0, <2>1 DEF ReadLine
  <2>4. pos = start + len_read
    <3>1. line_offset >= Len(line_buf)
      BY <1>4 DEF ReadNextLine
    <3>2. Pending = 0
      BY <1>0, <1>2, <3>1 DEF LineAhead, Pending
    <3>3. pos = start + len_read + Pending
      BY <1>1, <2>3 DEF IInv, Buffered
    <3> QED
      BY <1>0, <3>2, <3>3
  <2>5. /\ NoDelimiterBefore(header, start, pos) /\ LineStart(start, pos)
        /\ pos \in start..Len(stream)
    BY <1>0, <1>1, <2>3, <2>4 DEF IInv, Progress, DelimitedProgress
  <2>6. CASE /\ Slice(pos, pos + n) = header.delim /\ finished' = TRUE
             /\ UNCHANGED <<len_read, out>>
    <3>1. ContentsEnd(header, start, pos)
      BY <1>0, <1>1, <2>3, <2>5, <2>6, DelimiterEnds
    <3>2. Given' /\ ContentsEnd(header, start, start + Len(out'))
      BY <1>1, <1>2, <2>4, <2>6, <3>1 DEF Given, Slice
    <3> QED
      BY <1>1, <2>6, <3>2, FinishDelivers
  <2>7. CASE /\ Slice(pos, pos + n) # header.delim /\ UNCHANGED finished
             /\ CopyLine(Slice(pos, LineEnd(pos, n)), 0, size)
    <3>1. PICK q \in pos..Len(stream) : q = LineEnd(pos, n)
      BY <1>0, <2>3, LineEndBounds
    <3>2. /\ Slice(pos, q) \in Seq(Bytes) /\ Len(Slice(pos, q)) = q - pos
          /\ \A k \in 1..(q - pos) : Slice(pos, q)[k] = stream[pos + k]
      BY <1>0, <3>1, SliceProperties
    <3>3. NoDelimiterBefore(header, start, q)
      BY <1>0, <2>3, <2>5, <2>7, <3>1, LinePassed
    <3>4. PICK buf \in Seq(Bytes) : buf = Slice(pos, q)
      BY <3>2
    <3>5. PICK left \in Nat : left = q - pos
      BY <1>0, <3>1
    <3>6. /\ left = Len(buf) - 0 /\ 0 \in 0..Len(buf)
          /\ start + len_read + left = q /\ q <= Len(stream)
      BY <1>0, <2>4, <3>1, <3>2, <3>4, <3>5
    <3>7. NextAre(buf, 0, left)
      <4>1. ASSUME NEW k \in 1..left
            PROVE  buf[0 + k] = stream[start + len_read + k]
        <5>1. buf[k] = stream[pos + k] /\ 0 + k = k
          BY <3>2, <3>4, <3>5
        <5> QED
          BY <2>4, <5>1
      <4> QED
        BY <4>1 DEF NextAre
    <3>8. /\ start + len_read + left <= Len(stream)
          /\ NoDelimiterBefore(header, start, start + len_read + left)
          /\ CopyLine(buf, 0, size)
      BY <2>7, <3>1, <3>3, <3>4, <3>6
    <3>9. Given' /\ Len(out') = len_read' /\ LineAhead'
      BY <1>0, <1>1, <1>2, <3>6, <3>7, <3>8, CopyDelivers
    <3> QED
      BY <1>1, <2>7, <3>9, ReadOnDelivers
  <2> QED
    BY <2>1, <2>6, <2>7
<1> QED
  BY <1>3, <1>4

\* In read.
LEMMA ReadDelivers ==
    ASSUME IInv, Delivering, NEW t \in Threads, NEW size \in BufSizes, Read(t, size)
    PROVE  Delivering'
<1>1. UNCHANGED <<in_data, skipped>>
  BY DEF Read, ReadNothing, ReadCounted, ReadCountedAtEof, ReadBufferedLine, ReadNextLine,
     ReadNextLineAtEof, ghostVars
<1>2. CASE ~(in_data /\ ~skipped)
  BY <1>1, <1>2 DEF Delivering
<1>3. CASE ReadNothing(t, size) \/ ReadCountedAtEof(t, size) \/ ReadNextLineAtEof(t, size)
  BY <1>3, DeliveringStays DEF ReadNothing, ReadCountedAtEof, ReadNextLineAtEof, Return,
     inputVars, stateVars, ghostVars
<1>4. CASE in_data /\ ~skipped /\ ~(\/ ReadNothing(t, size) \/ ReadCountedAtEof(t, size)
                                    \/ ReadNextLineAtEof(t, size))
  BY <1>4, ReadCountedDelivers, ReadDelimitedDelivers DEF Read
<1> QED
  BY <1>2, <1>3, <1>4

\* In read_to_end, of a reader that has not been used.
LEMMA ReadToEndCountedDelivers ==
    ASSUME OneRead, IInv, Delivering, in_data, ~skipped,
           NEW t \in Threads, ReadToEndCounted(t)
    PROVE  Delivering'
<1>0. /\ stream \in Seq(Bytes) /\ pos \in 0..Len(stream) /\ Len(stream) \in Nat
      /\ header.len \in Nat /\ start \in Nat /\ pos \in Nat /\ TypeOK
  BY LenProperties DEF IInv, TypeOK, InputTypeOK, HeaderType
<1>1. ~finished /\ ~used /\ pos = start /\ header.is_counted
  BY DEF ReadToEndCounted, MayReadToEnd, IInv, Ownership, ExclusiveReader, Control
<1>2. Given /\ Len(out) = len_read /\ len_read = 0
  BY <1>1, Ahead DEF Delivering, Fresh
<1>3. used' /\ call' = "none" /\ UNCHANGED <<stream, header, start>>
  BY DEF ReadToEndCounted, Return
<1>4. PICK n : /\ n = Smaller(header.len, Len(stream) - pos)
               /\ \/ UNCHANGED <<finished, len_read, out>>
                  \/ /\ ~(n < header.len) /\ finished' = TRUE
                     /\ out' = out \o Slice(pos, pos + n)
  BY DEF ReadToEndCounted
<1>5. n \in Nat /\ n <= header.len /\ pos + n \in pos..Len(stream) /\ (pos + n) - pos = n
  BY <1>0, <1>4 DEF Smaller
<1>6. CASE UNCHANGED <<finished, len_read, out>>
  <2>1. Given'
    BY <1>2, <1>3, <1>6 DEF Given, Slice
  <2>2. Len(out') = len_read' /\ Len(out') <= header.len
    BY <1>0, <1>2, <1>6
  <2> QED
    BY <1>1, <1>3, <1>6, <2>1, <2>2, ReadOnDelivers
<1>7. CASE ~(n < header.len) /\ finished' = TRUE /\ out' = out \o Slice(pos, pos + n)
  <2>1. n = header.len
    BY <1>0, <1>5, <1>7
  <2>2. pos = start + Len(out)
    BY <1>0, <1>1, <1>2
  <2>3. Given' /\ Len(out') = Len(out) + ((pos + n) - pos)
    BY <1>0, <1>2, <1>3, <1>5, <1>7, <2>2, GivenSlice
  <2>4. Len(out') = header.len
    BY <1>0, <1>2, <1>5, <2>1, <2>3
  <2>5. ContentsEnd(header, start, start + Len(out'))
    BY <1>1, <2>4 DEF ContentsEnd
  <2>6. Len(out') <= header.len
    BY <1>0, <2>4
  <2> QED
    BY <1>3, <1>7, <2>3, <2>5, <2>6, FinishDelivers
<1> QED
  BY <1>4, <1>6, <1>7

LEMMA SlurpDelivers ==
    ASSUME IInv, Slurping, Delivering, in_data, ~skipped, SlurpLine
    PROVE  Delivering'
<1>0. /\ stream \in Seq(Bytes) /\ pos \in 0..Len(stream) /\ Len(stream) \in Nat
      /\ header \in HeaderType /\ start \in Nat /\ pos \in Nat /\ slurped \in Nat
      /\ TypeOK
  BY LenProperties DEF IInv, TypeOK, InputTypeOK
<1>1. call = "read_to_end" /\ ~finished /\ ~header.is_counted
  BY DEF SlurpLine, IInv, Control
<1>2. /\ Given /\ len_read = 0 /\ out = <<>> /\ line_buf = <<>> /\ line_offset = 0
  BY <1>1, Ahead DEF Delivering, Fresh
<1>3. UNCHANGED <<stream, header, start, in_data, skipped, used, line_buf, line_offset>>
  BY DEF SlurpLine
<1>4. PICK n \in 0..(Len(stream) - pos) :
          /\ ReadLine(n)
          /\ \/ UNCHANGED <<finished, len_read, out>>
             \/ /\ pos # Len(stream) /\ Slice(pos, pos + n) = header.delim
                /\ finished' = TRUE
                /\ out' = out \o Slice(pos - slurped, pos)
  BY DEF SlurpLine
<1>5. CASE UNCHANGED <<finished, len_read, out>>
  BY <1>1, <1>3, <1>5, DeliveringStays
<1>6. CASE /\ pos # Len(stream) /\ Slice(pos, pos + n) = header.delim
           /\ finished' = TRUE
           /\ out' = out \o Slice(pos - slurped, pos)
  <2>1. pos < Len(stream) /\ IsLine(pos, n)
    BY <1>0, <1>4, <1>6 DEF ReadLine
  <2>2. pos - slurped = start /\ start <= pos
    <3>1. pos = start + len_read + Pending + slurped
      BY <1>1, <2>1 DEF Slurping
    <3>2. Pending = 0
      BY <1>2 DEF Pending
    <3> QED
      BY <1>0, <1>2, <3>1, <3>2
  <2>3. start = start + Len(out) /\ pos \in start..Len(stream)
    BY <1>0, <1>2, <2>2
  <2>4. Given' /\ Len(out') = Len(out) + (pos - start)
    <3>1. out' = out \o Slice(start, pos)
      BY <1>6, <2>2
    <3> QED
      BY <1>0, <1>2, <1>3, <2>3, <3>1, GivenSlice
  <2>5. start + Len(out') = pos
    BY <1>0, <1>2, <2>4
  <2>6. NoDelimiterBefore(header, start, pos) /\ LineStart(start, pos)
    BY <1>1, <2>1 DEF IInv, Progress, DelimitedProgress
  <2>7. ContentsEnd(header, start, pos)
    BY <1>0, <1>1, <1>6, <2>1, <2>3, <2>6, DelimiterEnds
  <2> QED
    BY <1>1, <1>3, <1>6, <2>4, <2>5, <2>7, FinishDelivers
<1> QED
  BY <1>4, <1>5, <1>6

\* A blob begins.
LEMMA BlobDelivers ==
    ASSUME TypeOK, NEW h \in Headers, ParseBlob(h)
    PROVE  Delivering'
<1>1. PICK n \in 0..(Len(stream) - pos) : ReadLine(n) /\ pos' = LineEnd(pos, n)
  BY DEF ParseBlob
<1>2. /\ stream \in Seq(Bytes) /\ pos \in 0..Len(stream) /\ Len(stream) \in Nat
  BY LenProperties DEF TypeOK, InputTypeOK
<1>3. PICK p \in 0..Len(stream) : p = pos'
  <2>1. IsLine(pos, n)
    BY <1>1 DEF ReadLine
  <2>2. LineEnd(pos, n) \in pos..Len(stream)
    BY <1>2, <2>1, LineEndBounds
  <2> QED
    BY <1>1, <1>2, <2>2
<1>4. /\ stream' = stream /\ start' = p /\ out' = <<>> /\ len_read' = 0 /\ header' = h
      /\ finished' = FALSE /\ call' = "none"
      /\ ~h.is_counted => line_buf' = <<>> /\ line_offset' = 0
  BY <1>3 DEF ParseBlob, Return
<1>5. h.len \in Nat
  BY DataReaderAssumption DEF HeaderType
<1>6. p + 0 = p /\ p <= Len(stream)
  BY <1>2
<1>7. Slice(p, p) = <<>>
  <2>1. Len(Slice(p, p)) = p - p /\ Slice(p, p) \in Seq(Bytes)
    BY <1>2, SliceProperties
  <2> QED
    BY <1>2, <2>1, EmptySeq
<1>8. Given'
  <2>1. start' + Len(out') = p
    BY <1>2, <1>4
  <2> QED
    BY <1>4, <1>6, <1>7, <2>1 DEF Given, Slice
<1>9. ~h.is_counted => LineAhead'
  <2> SUFFICES ASSUME ~h.is_counted PROVE LineAhead'
    OBVIOUS
  <2>1. Pending' = 0 /\ line_offset' <= Len(line_buf')
    BY <1>4 DEF Pending
  <2>2. start' + len_read' + Pending' = p
    BY <1>2, <1>4, <2>1
  <2>3. /\ \A k \in 1..0 : FALSE
        /\ \A k \in p..(p - 1) : FALSE
    BY <1>2
  <2> QED
    BY <1>4, <1>6, <2>1, <2>2, <2>3 DEF LineAhead, NoDelimiterBefore
<1>10. Len(out') = len_read' /\ Len(out') <= h.len
  BY <1>4, <1>5
<1> QED
  BY <1>4, <1>8, <1>9, <1>10 DEF Delivering, Fresh

\* A skip has begun if it goes on.
LEMMA SkipsStep ==
    ASSUME Skipping => skipped, [Next]_vars
    PROVE  Skipping' => skipped'
<1>1. CASE ParserStep
  BY <1>1 DEF ParserStep, NextUnfinished, NextSkip, SkipBegin, NextParse, ParseBlob, ParseOther,
     ParseEof, Return, Skipping
<1>2. CASE LoopStep
  BY <1>2 DEF LoopStep, SkipStep, SkipChunk, SkipCountedShort, SkipCountedEnd, SkipEnd,
     SkipLineAtEof, SkipLine, SlurpLine, SlurpLineAtEof, Return, Skipping, ghostVars
<1>3. CASE \E t \in Threads : ReaderStep(t)
  <2>1. PICK t \in Threads : ReaderStep(t)
    BY <1>3
  <2>2. CASE Open(t)
    BY <2>2 DEF Open, ghostVars, Skipping
  <2>3. CASE SkipRest(t)
    BY <2>3 DEF SkipRest, SkipBegin
  <2>4. CASE ~Open(t) /\ ~SkipRest(t)
    <3>1. call' \notin {"skip_rest", "next"}
      BY <2>1, <2>4 DEF ReaderStep, Close, Read, ReadNothing, ReadCounted, ReadCountedAtEof,
         ReadBufferedLine, ReadNextLine, ReadNextLineAtEof, CopyLine, Return, SkipNothing,
         ReadToEndCounted, ReadToEndDelimited
    <3> QED
      BY <3>1 DEF Skipping
  <2> QED
    BY <2>2, <2>3, <2>4
<1>4. CASE UNCHANGED vars
  BY <1>4 DEF vars, ghostVars, Skipping
<1> QED
  BY <1>1, <1>2, <1>3, <1>4 DEF Next

\* In a step in which the reader does not fail, while nothing is cut.
LEMMA DeliveringStep ==
    ASSUME OneRead, IInv, Slurping, Skipping => skipped, Delivering, [Next]_vars
    PROVE  Delivering'
<1>1. CASE ParserStep
  <2>1. CASE NextUnfinished \/ NextParse \/ ParseEof
    BY <2>1, DeliveringStays DEF NextUnfinished, NextParse, ParseEof, Return, inputVars,
       stateVars, ghostVars
  <2>2. CASE NextSkip
    BY <2>2 DEF NextSkip, SkipBegin, Delivering
  <2>3. CASE \E h \in Headers : ParseBlob(h)
    BY <2>3, BlobDelivers DEF IInv
  <2>4. CASE ParseOther
    BY <2>4 DEF ParseOther, Delivering
  <2> QED
    BY <1>1, <2>1, <2>2, <2>3, <2>4 DEF ParserStep
<1>2. CASE SkipStep
  <2>1. skipped /\ skipped' = skipped
    BY <1>2 DEF SkipStep, SkipChunk, SkipCountedShort, SkipCountedEnd, SkipLineAtEof, SkipLine,
       Skipping, ghostVars
  <2> QED
    BY <2>1 DEF Delivering
<1>3. CASE SlurpLineAtEof
  BY <1>3, DeliveringStays DEF SlurpLineAtEof, inputVars, stateVars, ghostVars
<1>4. CASE SlurpLine
  <2>1. UNCHANGED <<in_data, skipped>>
    BY <1>4 DEF SlurpLine
  <2> QED
    BY <1>4, <2>1, SlurpDelivers DEF Delivering
<1>5. CASE \E t \in Threads : ReaderStep(t)
  <2>1. PICK t \in Threads : ReaderStep(t)
    BY <1>5
  <2>2. CASE Open(t) \/ Close(t) \/ SkipNothing(t)
    BY <2>2, DeliveringStays DEF Open, Close, SkipNothing, Return, inputVars, stateVars, ghostVars
  <2>3. CASE \E size \in BufSizes : Read(t, size)
    BY <2>3, ReadDelivers
  <2>4. CASE SkipRest(t)
    BY <2>4 DEF SkipRest, SkipBegin, Delivering
  <2>5. CASE ReadToEndCounted(t)
    <3>1. UNCHANGED <<in_data, skipped>>
      BY <2>5 DEF ReadToEndCounted
    <3> QED
      BY <2>5, <3>1, ReadToEndCountedDelivers DEF Delivering
  <2>6. CASE ReadToEndDelimited(t)
    <3>1. ~used
      BY <2>6 DEF ReadToEndDelimited, MayReadToEnd
    <3> QED
      BY <2>6, <3>1, DeliveringStays DEF ReadToEndDelimited, inputVars, stateVars
  <2> QED
    BY <2>1, <2>2, <2>3, <2>4, <2>5, <2>6 DEF ReaderStep
<1>6. CASE UNCHANGED vars
  BY <1>6, DeliveringStays DEF vars, inputVars, stateVars, ghostVars
<1> QED
  BY <1>1, <1>2, <1>3, <1>4, <1>5, <1>6 DEF Next, LoopStep

\* In a step in which it fails.
LEMMA DeliveringFault ==
    ASSUME IInv, FailedCall, Skipping => skipped, Delivering, ReaderFails, ~cut'
    PROVE  Delivering'
<1>0. /\ stream \in Seq(Bytes) /\ pos \in 0..Len(stream) /\ Len(stream) \in Nat
      /\ header \in HeaderType /\ header.len \in Nat /\ len_read \in Nat /\ start \in Nat
      /\ Len(line_buf) \in Nat /\ line_offset \in Nat /\ pos \in Nat
  BY LenProperties DEF IInv, TypeOK, InputTypeOK, HeaderType
<1>1. /\ call' = "none" /\ ~finished /\ (used => used')
      /\ UNCHANGED <<stream, header, start, in_data, out>>
  BY DEF FailedCall
<1>2. CASE ~(in_data' /\ ~skipped')
  BY <1>2 DEF Delivering
<1>3. CASE SkipCountedFails \/ SkipLineFails
  <2>1. skipped /\ skipped' = skipped
    BY <1>3 DEF SkipCountedFails, SkipLineFails, ghostVars
  <2> QED
    BY <2>1 DEF Delivering
<1>4. CASE SlurpLineFails \/ \E t \in Threads : ReadToEndCountedFails(t)
  <2>1. UNCHANGED <<finished, len_read, line_buf, line_offset, skipped>>
    BY <1>4 DEF SlurpLineFails, ReadToEndCountedFails, stateVars, ghostVars
  <2> QED
    BY <1>1, <2>1, DeliveringStays
<1>5. ASSUME NEW t \in Threads, NEW size \in BufSizes, ReadCountedFails(t, size),
             in_data', ~skipped'
      PROVE  Delivering'
  <2>1. /\ used' /\ header.is_counted /\ UNCHANGED <<line_buf, line_offset>>
        /\ \/ UNCHANGED <<finished, len_read, skipped>>
           \/ \E n \in 0..size : /\ n = header.len - len_read
                                 /\ finished' = TRUE
                                 /\ skipped' = (skipped \/ n > 0)
    BY <1>5 DEF ReadCountedFails
  <2>2. CASE UNCHANGED <<finished, len_read, skipped>>
    BY <1>1, <2>1, <2>2, DeliveringStays
  <2>3. ASSUME NEW n \in 0..size, n = header.len - len_read, finished' = TRUE,
               skipped' = (skipped \/ n > 0)
        PROVE  Delivering'
    <3>1. ~skipped /\ n = 0
      <4>1. ~skipped /\ ~(n > 0)
        BY <1>5, <2>3
      <4>2. n \in Int /\ n >= 0
        BY <2>3
      <4> QED
        BY <4>1, <4>2
    <3>2. Given /\ Len(out) = len_read
      BY <1>1, <1>5, <3>1, Ahead
    <3>3. Len(out) = header.len
      BY <1>0, <2>3, <3>1, <3>2
    <3>4. Given' /\ Len(out') <= header.len
      BY <1>0, <1>1, <3>2, <3>3 DEF Given, Slice
    <3>5. ContentsEnd(header, start, start + Len(out'))
      BY <1>1, <2>1, <3>3 DEF ContentsEnd
    <3> QED
      BY <1>1, <2>3, <3>4, <3>5, FinishDelivers
  <2> QED
    BY <2>1, <2>2, <2>3
<1>6. ASSUME NEW t \in Threads, NEW size \in BufSizes, ReadLineFails(t, size),
             in_data', ~skipped'
      PROVE  Delivering'
  <2>1. /\ used' /\ ~header.is_counted /\ Idle /\ line_offset >= Len(line_buf)
        /\ line_buf' = Slice(pos, pos') /\ line_offset' = 0
        /\ UNCHANGED <<len_read, skipped>>
    BY <1>6 DEF ReadLineFails, CanRead
  <2>2. /\ Given /\ Len(out) = len_read /\ LineAhead
        /\ NoDelimiterBefore(header, start, start + len_read)
    BY <1>1, <1>6, <2>1, Ahead
  <2>3. Given'
    BY <1>1, <2>2 DEF Given, Slice
  <2>4. CASE BreakLine /\ cut' = (cut \/ pos' # pos) /\ finished' = finished
    <3>1. pos' = pos
      BY <2>4
    <3>2. Len(line_buf') = 0
      <4>1. Len(Slice(pos, pos)) = pos - pos
        BY <1>0, SliceProperties
      <4> QED
        BY <1>0, <2>1, <3>1, <4>1
    <3>3. LineAhead'
      BY <1>1, <2>1, <2>2, <3>2, EmptyAhead DEF IInv
    <3> QED
      BY <1>1, <2>1, <2>2, <2>3, <2>4, <3>3, ReadOnDelivers
  <2>5. CASE PassDelimiter /\ finished' = TRUE
    <3>1. PICK n \in 0..(Len(stream) - pos) :
              IsLine(pos, n) /\ pos < Len(stream) /\ Slice(pos, pos + n) = header.delim
      BY <2>5 DEF PassDelimiter, ReadLine
    <3>2. pos = start + Len(out)
      <4>1. Pending = 0
        BY <1>0, <2>1, <2>2 DEF LineAhead, Pending
      <4>2. pos = start + len_read + Pending
        BY <1>1, <2>1, <3>1 DEF IInv, Buffered
      <4> QED
        BY <1>0, <2>2, <4>1, <4>2
    <3>3. /\ NoDelimiterBefore(header, start, pos) /\ LineStart(start, pos)
          /\ pos \in start..Len(stream)
      BY <1>0, <1>1, <2>1, <3>1 DEF IInv, Progress, DelimitedProgress
    <3>4. ContentsEnd(header, start, pos)
      BY <1>0, <2>1, <3>1, <3>3, DelimiterEnds
    <3> QED
      BY <1>1, <2>1, <2>3, <2>5, <3>2, <3>4, FinishDelivers
  <2> QED
    BY <1>6, <2>4, <2>5 DEF ReadLineFails
<1> QED
  BY <1>2, <1>3, <1>4, <1>5, <1>6 DEF ReaderFails

\* What is delivered is invariant.
LEMMA DeliverInvStep ==
    ASSUME OneRead, FaultsInv, DeliverInv, [FaultsNext]_faultsVars
    PROVE  DeliverInv'
<1>1. CASE Next /\ NoFault
  <2>1. Skipping' => skipped'
    BY <1>1, SkipsStep DEF DeliverInv
  <2>2. CASE ~cut
    BY <1>1, <2>1, <2>2, UncutInv, DeliveringStep DEF DeliverInv
  <2>3. CASE cut /\ NewData
    <3>1. \E h \in Headers : ParseBlob(h)
      <4>1. finished /\ ~finished' /\ Calls
        BY <2>3 DEF NewData, FaultsInv
      <4> QED
        BY <1>1, <4>1, FinishedStep DEF ParseOther, stateVars
    <3> QED
      BY <2>1, <3>1, BlobDelivers DEF DeliverInv, FaultsInv, Calls
  <2>4. CASE cut /\ ~NewData
    <3>1. cut'
      BY <1>1, <2>4 DEF NoFault
    <3> QED
      BY <2>1, <3>1 DEF DeliverInv
  <2> QED
    BY <2>2, <2>3, <2>4
<1>2. CASE ReaderFails
  <2>1. FailedCall /\ FailedData
    BY <1>2, FaultStep
  <2>2. ~(Skipping')
    BY <2>1 DEF FailedCall, Skipping
  <2>3. ~cut' => ~cut
    BY <2>1 DEF FailedData
  <2> QED
    BY <1>2, <2>1, <2>2, <2>3, UncutInv, DeliveringFault DEF DeliverInv
<1>3. CASE UNCHANGED faultsVars
  <2>1. UNCHANGED vars /\ cut' = cut
    BY <1>3 DEF faultsVars, faultVars
  <2>2. Skipping' => skipped'
    BY <2>1, SkipsStep DEF DeliverInv
  <2>3. ~cut => Delivering'
    BY <2>1, UncutInv, DeliveringStep DEF DeliverInv
  <2> QED
    BY <2>1, <2>2, <2>3 DEF DeliverInv
<1> QED
  BY <1>1, <1>2, <1>3 DEF FaultsNext

LEMMA DeliverInvContents ==
    ASSUME FaultsInv, DeliverInv
    PROVE  DeliversUnlessCut
<1> SUFFICES ASSUME ~cut, in_data, ~skipped
             PROVE  /\ Given
                    /\ finished => ContentsEnd(header, start, start + Len(out))
                    /\ IF header.is_counted
                       THEN Len(out) <= header.len
                       ELSE NoDelimiterBefore(header, start, start + Len(out))
  BY DEF DeliversUnlessCut, DeliversContents, Given
<1>1. IInv /\ Delivering
  BY UncutInv DEF DeliverInv
<1>2. /\ Given /\ (header.is_counted => Len(out) <= header.len)
      /\ finished => ContentsEnd(header, start, start + Len(out))
  BY <1>1 DEF Delivering
<1>3. ~header.is_counted => NoDelimiterBefore(header, start, start + Len(out))
  <2>1. CASE finished
    BY <1>2, <2>1 DEF ContentsEnd
  <2>2. CASE ~finished
    BY <1>1, <2>2, Ahead
  <2> QED
    BY <2>1, <2>2
<1> QED
  BY <1>2, <1>3

-----------------------------------------------------------------------------
(* The theorems.                                                             *)

\* The invariant holds at first.
LEMMA FaultsInvInit ==
    ASSUME FaultsInit
    PROVE  FaultsInv
<1>1. IInv
  BY IInvInit DEF FaultsInit
<1>2. Slurping /\ cut = FALSE /\ lf_missed = FALSE
  BY DEF FaultsInit, Init, Slurping
<1> QED
  BY <1>1, <1>2 DEF FaultsInv, Calls, IInv

\* Every step preserves it, whether the reader fails in it or not.
LEMMA FaultsInvStep ==
    ASSUME OneRead, FaultsInv, [FaultsNext]_faultsVars
    PROVE  FaultsInv'
<1>1. CASE Next /\ NoFault
  BY <1>1, NoFaultStep
<1>2. CASE ReaderFails
  BY <1>2, FaultStep
<1>3. CASE UNCHANGED faultsVars
  <2>1. [Next]_vars /\ NoFault
    BY <1>3 DEF faultsVars, faultVars, NoFault, NewData, vars, stateVars, FaultsInv
  <2> QED
    BY <2>1, NoFaultStep
<1> QED
  BY <1>1, <1>2, <1>3 DEF FaultsNext

\* Where a finished data stream has been left, step by step.
LEMMA ResumesAfterStep ==
    ASSUME OneRead, FaultsInv, ResumesAfterFaults, [FaultsNext]_faultsVars
    PROVE  ResumesAfterFaults'
<1> USE DEF FaultsInv
<1>0. SUFFICES ASSUME in_data', finished', ~cut'
               PROVE  IF lf_missed' THEN PassedAt(pos)' ELSE ResumesAt(header, start, pos)'
  BY DEF ResumesAfterFaults
<1>1. ASSUME finished, ~cut, lf_missed' = lf_missed,
             UNCHANGED <<stream, pos, finished, header, start, in_data>>
      PROVE  IF lf_missed' THEN PassedAt(pos)' ELSE ResumesAt(header, start, pos)'
  <2>1. IF lf_missed THEN PassedAt(pos) ELSE ResumesAt(header, start, pos)
    BY <1>0, <1>1 DEF ResumesAfterFaults
  <2> QED
    BY <1>1, <2>1 DEF PassedAt, ResumesAt, ContentsEnd, DelimiterAt, NoDelimiterBefore,
       LineStart, IsLine, Slice, SkipOptionalLF, LineEnd
<1>2. CASE Next /\ NoFault
  <2>1. ~NewData
    BY <1>0 DEF NewData
  <2>2. ~cut /\ lf_missed' = lf_missed
    BY <1>0, <1>2, <2>1 DEF NoFault
  <2>3. CASE finished
    <3>1. UNCHANGED <<stream, pos, finished, header, start, in_data>>
      BY <1>0, <1>2, <2>3, FinishedStep DEF ParseOther, ParseBlob
    <3> QED
      BY <1>1, <2>2, <2>3, <3>1
  <2>4. CASE ~finished
    <3>1. DataStep
      BY <1>2, <2>2, UncutInv, IInvStep
    <3>2. UNCHANGED <<stream, header, start>> /\ ResumesAt(header, start, pos')
      BY <1>0, <2>4, <3>1 DEF DataStep, ParseOther, ParseBlob, stateVars
    <3>3. ResumesAt(header, start, pos)'
      BY <3>2 DEF ResumesAt, ContentsEnd, DelimiterAt, NoDelimiterBefore,
         LineStart, IsLine, Slice, SkipOptionalLF, LineEnd
    <3> QED
      BY <2>2, <2>4, <3>3
  <2> QED
    BY <2>3, <2>4
<1>3. CASE ReaderFails
  BY <1>0, <1>3, FaultStep DEF FailedData
<1>4. CASE UNCHANGED faultsVars
  <2>1. /\ UNCHANGED <<stream, pos, finished, header, start, in_data>>
        /\ lf_missed' = lf_missed /\ cut' = cut
    BY <1>4 DEF faultsVars, faultVars, vars, inputVars, stateVars, ghostVars
  <2> QED
    BY <1>0, <1>1, <2>1
<1> QED
  BY <1>2, <1>3, <1>4 DEF FaultsNext

\* Whatever fails, the reader's state keeps its types: a failure leaves no
\* offset, length or position that could not have been there.
THEOREM FaultsTypeCorrect ==
    ASSUME OneRead
    PROVE  FaultsSpec => []TypeOK
<1>1. FaultsInit => FaultsInv
  BY FaultsInvInit
<1>2. FaultsInv /\ [FaultsNext]_faultsVars => FaultsInv'
  BY FaultsInvStep
<1>3. FaultsInv => TypeOK
  BY DEF FaultsInv, Calls
<1> QED
  BY <1>1, <1>2, <1>3, PTL DEF FaultsSpec

\* Whatever fails, at most one thread holds the data reader.
THEOREM FaultsOneReader ==
    ASSUME OneRead
    PROVE  FaultsSpec => []ExclusiveReader
<1>1. FaultsInit => FaultsInv
  BY FaultsInvInit
<1>2. FaultsInv /\ [FaultsNext]_faultsVars => FaultsInv'
  BY FaultsInvStep
<1>3. FaultsInv => ExclusiveReader
  BY DEF FaultsInv, Calls, Ownership
<1> QED
  BY <1>1, <1>2, <1>3, PTL DEF FaultsSpec

\* Whatever fails, next skips a data stream only if it was never opened: a failed
\* skip is made again by next, and a failed read never is.
THEOREM FaultsOnlyUnopenedSkipped ==
    ASSUME OneRead
    PROVE  FaultsSpec => []NextSkipsOnlyUnopened
<1>1. FaultsInit => FaultsInv
  BY FaultsInvInit
<1>2. FaultsInv /\ [FaultsNext]_faultsVars => FaultsInv'
  BY FaultsInvStep
<1>3. FaultsInv => NextSkipsOnlyUnopened
  BY DEF FaultsInv, Calls, Ownership, ExclusiveReader, NextSkipsOnlyUnopened
<1> QED
  BY <1>1, <1>2, <1>3, PTL DEF FaultsSpec

\* However often reads and skips have failed and been made again, a data stream
\* that is finished has been left where its own header says, or at the LF after
\* it; but for failures that split a line or come in a read_to_end.
THEOREM FaultsResumeAfterTheData ==
    ASSUME OneRead
    PROVE  FaultsSpec => []ResumesAfterFaults
<1>1. FaultsInit => FaultsInv /\ ResumesAfterFaults
  BY FaultsInvInit DEF FaultsInit, Init, ResumesAfterFaults
<1>2. FaultsInv /\ ResumesAfterFaults /\ [FaultsNext]_faultsVars
        => (FaultsInv /\ ResumesAfterFaults)'
  BY FaultsInvStep, ResumesAfterStep
<1> QED
  BY <1>1, <1>2, PTL DEF FaultsSpec

\* What has been counted, and what the buffered line still holds, is what has been
\* consumed of the data stream, after such failures too.
THEOREM FaultsAccountedFor ==
    ASSUME OneRead
    PROVE  FaultsSpec => []AccountedUnlessCut
<1>1. FaultsInit => FaultsInv
  BY FaultsInvInit
<1>2. FaultsInv /\ [FaultsNext]_faultsVars => FaultsInv'
  BY FaultsInvStep
<1>3. FaultsInv => AccountedUnlessCut
  BY UncutInv, InvAccounted DEF AccountedUnlessCut
<1> QED
  BY <1>1, <1>2, <1>3, PTL DEF FaultsSpec

\* Until it skips, the caller is given exactly the contents of the data stream, by
\* reads of any sizes and by those that are made again after a failure: never a
\* byte twice, out of order, of the delimiter or of what follows it; and all of
\* them once the data is finished.
THEOREM FaultsDeliverContents ==
    ASSUME OneRead
    PROVE  FaultsSpec => []DeliversUnlessCut
<1>1. FaultsInit => FaultsInv /\ DeliverInv
  BY FaultsInvInit DEF FaultsInit, Init, DeliverInv, Delivering, Skipping
<1>2. FaultsInv /\ DeliverInv /\ [FaultsNext]_faultsVars => (FaultsInv /\ DeliverInv)'
  BY FaultsInvStep, DeliverInvStep
<1>3. FaultsInv /\ DeliverInv => DeliversUnlessCut
  BY DeliverInvContents
<1> QED
  BY <1>1, <1>2, <1>3, PTL DEF FaultsSpec

\* No data stream that is finished is being skipped, whoever uses the reader how.
NotSkipped == finished => ~Skipping

\* A skip begins only in a data stream that is not finished, and ends with it.
LEMMA NotSkippedStep ==
    ASSUME NotSkipped, [FaultsNext]_faultsVars
    PROVE  NotSkipped'
<1> USE DEF NotSkipped, Skipping
<1>1. CASE SkipStep
  <2>1. CASE SkipChunk
    BY <2>1 DEF SkipChunk
  <2>2. CASE SkipCountedShort \/ SkipLineAtEof
    BY <2>2 DEF SkipCountedShort, SkipLineAtEof, Return
  <2>3. CASE SkipCountedEnd
    BY <2>3 DEF SkipCountedEnd, SkipEnd, Return
  <2>4. CASE SkipLine
    <3>1. \/ call' = "none"
          \/ call' = "parse"
          \/ call' = call /\ finished' = finished
      BY <2>4 DEF SkipLine, SkipEnd, Return
    <3> QED
      BY <3>1
  <2> QED
    BY <1>1, <2>1, <2>2, <2>3, <2>4 DEF SkipStep
<1>2. CASE SlurpLine \/ SlurpLineAtEof
  <2>1. call' \in {"none", "panicked", "read_to_end"}
    BY <1>2 DEF SlurpLine, SlurpLineAtEof, Return
  <2> QED
    BY <2>1
<1>3. CASE ParserStep
  BY <1>3 DEF ParserStep, NextUnfinished, NextSkip, NextParse, ParseBlob, ParseOther, ParseEof,
     SkipBegin, Idle, Return, stateVars
<1>4. ASSUME NEW t \in Threads, ReaderStep(t) PROVE NotSkipped'
  <2>1. CASE Open(t)
    BY <2>1 DEF Open, stateVars
  <2>2. CASE Close(t) \/ SkipNothing(t)
    BY <2>2 DEF Close, SkipNothing, Return
  <2>3. ASSUME NEW size \in BufSizes, Read(t, size) PROVE NotSkipped'
    <3>1. call' = "none"
      BY <2>3 DEF Read, ReadNothing, ReadCounted, ReadCountedAtEof, ReadBufferedLine,
         ReadNextLine, ReadNextLineAtEof, CopyLine, Return
    <3> QED
      BY <3>1
  <2>4. CASE SkipRest(t)
    BY <2>4 DEF SkipRest, SkipBegin
  <2>5. CASE ReadToEndCounted(t) \/ ReadToEndDelimited(t)
    <3>1. call' \in {"none", "read_to_end"}
      BY <2>5 DEF ReadToEndCounted, ReadToEndDelimited, Return
    <3> QED
      BY <3>1
  <2> QED
    BY <1>4, <2>1, <2>2, <2>3, <2>4, <2>5 DEF ReaderStep
<1>5. CASE ReaderFails
  <2>1. call' = "none"
    BY <1>5 DEF ReaderFails, ReadCountedFails, ReadLineFails, SkipCountedFails, SkipLineFails,
       ReadToEndCountedFails, SlurpLineFails, Fails, Return
  <2> QED
    BY <2>1
<1>6. CASE UNCHANGED faultsVars
  BY <1>6 DEF faultsVars, vars, stateVars
<1> QED
  BY <1>1, <1>2, <1>3, <1>4, <1>5, <1>6 DEF FaultsNext, Next, LoopStep

\* For every caller, also one that uses the reader again after read_to_end, or
\* calls read_to_end on a reader it has used: only read_to_end itself takes what
\* follows a finished data stream.  No read, skip, close or call of next that is
\* refused does, and no failure of the reader in one of them.
THEOREM OnlyReadToEndEverPassesData == FaultsSpec => OnlyReadToEndPassesData
<1> DEFINE Moves == finished /\ in_data /\ in_data' /\ finished' /\ pos' # pos =>
                        \/ call = "read_to_end"
                        \/ Idle /\ ret'.op = "read_to_end"
<1>1. FaultsInit => NotSkipped
  BY DEF FaultsInit, Init, NotSkipped, Skipping
<1>2. NotSkipped /\ [FaultsNext]_faultsVars => NotSkipped'
  BY NotSkippedStep
<1>3. NotSkipped /\ [FaultsNext]_faultsVars => [Moves]_vars
  <2> SUFFICES ASSUME NotSkipped, [FaultsNext]_faultsVars, finished, in_data', finished',
                      pos' # pos
               PROVE  \/ call = "read_to_end"
                      \/ Idle /\ ret'.op = "read_to_end"
    OBVIOUS
  <2>1. ~SkipStep
    BY DEF NotSkipped, SkipStep, SkipChunk, SkipCountedShort, SkipCountedEnd,
       SkipLineAtEof, SkipLine
  <2>2. CASE SlurpLine \/ SlurpLineAtEof
    BY <2>2 DEF SlurpLine, SlurpLineAtEof
  <2>3. CASE ParserStep
    BY <2>3 DEF ParserStep, NextUnfinished, NextSkip, NextParse, ParseBlob, ParseOther,
       ParseEof, SkipBegin, inputVars
  <2>4. ASSUME NEW t \in Threads, ReaderStep(t)
        PROVE  Idle /\ ret'.op = "read_to_end"
    <3>1. CASE ReadToEndCounted(t)
      BY <3>1 DEF ReadToEndCounted, MayReadToEnd, Return, Result
    <3>2. CASE ~ReadToEndCounted(t)
      <4>1. \A size \in BufSizes : Read(t, size) => ReadNothing(t, size)
        BY DEF Read, ReadCounted, ReadCountedAtEof, ReadBufferedLine, ReadNextLine,
           ReadNextLineAtEof, CanRead
      <4> QED
        BY <2>4, <3>2, <4>1 DEF ReaderStep, Open, Close, ReadNothing, SkipRest, SkipNothing,
           SkipBegin, ReadToEndDelimited, inputVars
    <3> QED
      BY <3>1, <3>2
  <2>5. CASE ReaderFails
    <3>1. ~SkipCountedFails /\ ~SkipLineFails
      BY DEF NotSkipped, SkipCountedFails, SkipLineFails
    <3>2. \A t \in Threads, size \in BufSizes :
              ~ReadCountedFails(t, size) /\ ~ReadLineFails(t, size)
      BY DEF ReadCountedFails, ReadLineFails, CanRead
    <3>3. CASE \E t \in Threads : ReadToEndCountedFails(t)
      BY <3>3 DEF ReadToEndCountedFails, MayReadToEnd, Fails, Return, Result
    <3>4. CASE SlurpLineFails
      BY <3>4 DEF SlurpLineFails
    <3> QED
      BY <2>5, <3>1, <3>2, <3>3, <3>4 DEF ReaderFails
  <2>6. CASE UNCHANGED faultsVars
    BY <2>6 DEF faultsVars, vars, inputVars
  <2> QED
    BY <2>1, <2>2, <2>3, <2>4, <2>5, <2>6 DEF FaultsNext, Next, LoopStep
<1> QED
  BY <1>1, <1>2, <1>3, PTL DEF FaultsSpec, OnlyReadToEndPassesData

\* The data reader implements Framing, whatever fails, but for the end of a data
\* stream that a failure has cut or has come right after.
THEOREM ReaderFaultsImplementFraming ==
    ASSUME OneRead
    PROVE  FaultsSpec => FaultsImplementFraming
<1>1. FaultsInit => FaultsInv /\ Frames!Init
  BY FaultsInvInit DEF FaultsInit, Init, InputInit, Frames!Init, Frames!Delimited, Delimited
<1>2. FaultsInv /\ [FaultsNext]_faultsVars => FaultsInv'
  BY FaultsInvStep
<1>3. FaultsInv /\ [FaultsNext]_faultsVars =>
          [Frames!Next \/ (~finished /\ (cut \/ lf_missed'))]_Frames!framingVars
  <2> SUFFICES ASSUME FaultsInv, [FaultsNext]_faultsVars
               PROVE  \/ Frames!Next
                      \/ ~finished /\ (cut \/ lf_missed')
                      \/ UNCHANGED Frames!framingVars
    OBVIOUS
  <2>1. finished \in BOOLEAN /\ Calls
    BY DEF FaultsInv, Calls, TypeOK
  <2>2. CASE Next /\ finished
    <3>1. CASE ParseOther \/ \E h \in Headers : ParseBlob(h)
      BY <2>1, <3>1, DirectiveIsFramed DEF Calls
    <3>2. CASE UNCHANGED <<stream, pos, finished, header, start, in_data>>
      BY <2>1, <2>2, <3>2, StutterIsFramed
    <3> QED
      BY <2>1, <2>2, <3>1, <3>2, FinishedStep
  <2>3. CASE Next /\ ~finished /\ ~cut
    <3>1. DataStep
      BY <2>3, UncutInv, IInvStep
    <3>2. CASE ParseOther \/ \E h \in Headers : ParseBlob(h)
      BY <2>1, <3>2, DirectiveIsFramed DEF Calls
    <3>3. CASE /\ UNCHANGED <<stream, header, start, in_data>>
               /\ finished' = finished /\ (finished => pos' = pos)
      BY <2>1, <3>3, StutterIsFramed
    <3>4. CASE /\ UNCHANGED <<stream, header, start, in_data>>
               /\ ~finished /\ finished' = TRUE /\ ResumesAt(header, start, pos')
      BY <3>4, DataIsFramed
    <3> QED
      BY <3>1, <3>2, <3>3, <3>4 DEF DataStep
  <2>4. CASE ReaderFails
    <3>1. FailedCall /\ FailedData
      BY <2>4, FaultStep
    <3>2. CASE lf_missed' = TRUE
      BY <3>1, <3>2 DEF FailedCall
    <3>3. CASE finished' = FALSE
      <4>1. finished' = finished /\ UNCHANGED <<stream, header, start>> /\ ~finished
        BY <2>1, <3>1, <3>3 DEF FailedCall
      <4> QED
        BY <2>1, <4>1, StutterIsFramed
    <3> QED
      BY <3>1, <3>2, <3>3 DEF FailedData
  <2>5. CASE UNCHANGED faultsVars
    <3>1. UNCHANGED <<stream, pos, finished, header, start>>
      BY <2>5 DEF faultsVars, vars, inputVars, stateVars, ghostVars
    <3> QED
      BY <2>1, <3>1, StutterIsFramed
  <2> QED
    BY <2>2, <2>3, <2>4, <2>5 DEF FaultsNext
<1> QED
  BY <1>1, <1>2, <1>3, PTL DEF FaultsSpec, FaultsImplementFraming
=============================================================================
