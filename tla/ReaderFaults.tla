----------------------------- MODULE ReaderFaults -----------------------------
(***************************************************************************)
(* DataReader over a reader that may fail: every call of it that can       *)
(* return an io::Error (the `?`s of the data functions in input.rs), with  *)
(* whatever it has consumed by then, after which the caller may go on, or  *)
(* try again.                                                              *)
(*                                                                         *)
(* What the reader has put into line_buf before it fails stays there, and  *)
(* is taken for a line when the caller reads on.  The directives between   *)
(* the data streams do not fail here: they do in Parser.                   *)
(***************************************************************************)
EXTENDS DataReader

CONSTANT Faulty     \* the streams whose reader may fail

VARIABLES           \* ghosts, of the latest data stream
    cut,            \* a failure has lost its caller's place in it
    lf_missed       \* the optional LF after it has not been looked for

faultVars     == <<cut, lf_missed>>
faultsVars    == <<vars, faultVars>>

FaultsInit == Init /\ cut = FALSE /\ lf_missed = FALSE

Fails(op) == stream \in Faulty /\ Return(op, "Io", 0)

\* read_line fails after some bytes of the line, and before its LF.
BreakLine ==
    \E k \in 0..(Len(stream) - pos) :
        /\ \A i \in 1..k : stream[pos + i] # LF
        /\ pos' = pos + k

\* read_line returns the delimiter, and then the reader fails.
PassDelimiter ==
    \E n \in 0..(Len(stream) - pos) :
        /\ ReadLine(n)
        /\ pos < Len(stream) /\ Slice(pos, pos + n) = header.delim
        /\ pos' = LineEnd(pos, n)

-----------------------------------------------------------------------------
(* read_data.                                                                *)

\* Mutant: the LF is looked for before the bytes are counted.
ReadCountedFailsFirst(t, size) ==
    /\ CanRead(t, size) /\ header.is_counted /\ ~eof
    /\ Fails("read")
    /\ \/ UNCHANGED <<pos, lf_missed, skipped>>
       \/ LET n == header.len - len_read
          IN  /\ n \in 0..size /\ pos + n <= Len(stream)
              /\ pos' = pos + n
              /\ lf_missed' = TRUE
              /\ skipped' = (skipped \/ n > 0)
    /\ used' = TRUE
    /\ UNCHANGED <<stream, eof, line, stateVars, callerVars, localVars, start,
                   in_data, out, cut>>

\* The bytes that came with the failure are in the caller's buffer, and it is
\* not told so: of counted data, they count as skipped.
ReadCountedFails(t, size) ==
    /\ CanRead(t, size) /\ header.is_counted /\ ~eof
    /\ Fails("read")
    /\ \/ UNCHANGED <<pos, finished, len_read, skipped, lf_missed>>
       \/ LET n == header.len - len_read
          IN  /\ n \in 0..size /\ pos + n <= Len(stream)
              /\ pos' = pos + n
              /\ len_read' = header.len
              /\ finished' = TRUE /\ lf_missed' = TRUE
              /\ skipped' = (skipped \/ n > 0)
    /\ used' = TRUE
    /\ UNCHANGED <<stream, eof, line, closed, header, line_buf, line_offset,
                   callerVars, localVars, start, in_data, out, cut>>

ReadLineFails(t, size) ==
    /\ CanRead(t, size) /\ ~header.is_counted
    /\ line_offset >= Len(line_buf) /\ ~eof
    /\ Fails("read")
    /\ \/ /\ BreakLine
          /\ cut' = (cut \/ pos' # pos)
          /\ UNCHANGED <<eof, line, finished, lf_missed>>
       \/ /\ PassDelimiter
          /\ finished' = TRUE /\ lf_missed' = TRUE
          /\ UNCHANGED cut
    /\ line_buf' = Slice(pos, pos') /\ line_offset' = 0
    /\ used' = TRUE
    /\ UNCHANGED <<stream, closed, header, len_read, callerVars, localVars,
                   start, in_data, out, skipped>>

-----------------------------------------------------------------------------
(* skip_data.  line_offset is left as it is, beyond what line_buf then has.  *)

\* Mutant: the data is taken to be finished before it has been skipped.
SkipCountedFailsFinished ==
    /\ Skipping /\ header.is_counted
    /\ Fails(call)
    /\ finished' = TRUE
    /\ lf_missed' = TRUE
    /\ UNCHANGED <<inputVars, closed, header, len_read, line_buf, line_offset,
                   callerVars, localVars, ghostVars, cut>>

\* fill_buf fails, in the loop or for the optional LF after it.
SkipCountedFails ==
    /\ Skipping /\ header.is_counted
    /\ Fails(call)
    /\ finished' = (len_read >= header.len)
    /\ lf_missed' = (lf_missed \/ finished')
    /\ UNCHANGED <<inputVars, closed, header, len_read, line_buf, line_offset,
                   callerVars, localVars, ghostVars, cut>>

SkipLineFails ==
    /\ Skipping /\ ~header.is_counted /\ ~eof
    /\ Fails(call)
    /\ \/ /\ BreakLine
          /\ cut' = (cut \/ pos' # pos \/ line_offset # 0)
          /\ UNCHANGED <<eof, line, finished, lf_missed>>
       \/ /\ PassDelimiter
          /\ finished' = TRUE /\ lf_missed' = TRUE
          /\ UNCHANGED cut
    /\ line_buf' = Slice(pos, pos')
    /\ UNCHANGED <<stream, closed, header, len_read, line_offset, callerVars,
                   localVars, ghostVars>>

-----------------------------------------------------------------------------
(* read_to_end.  It returns by `?` before it sets finished and len_read: a    *)
(* reader that is then read on does not know that it has been read.          *)

\* In the data, or at the optional LF after all of it.
ReadToEndCountedFails(t) ==
    /\ MayReadToEnd(t) /\ header.is_counted
    /\ Fails("read_to_end")
    /\ \E k \in 0..Smaller(header.len, Len(stream) - pos) :
        /\ pos' = pos + k
        /\ line' = IF k < header.len THEN line ELSE line + CountLF(pos, pos + k)
        /\ cut' = (cut \/ k > 0)
    /\ used' = TRUE
    /\ UNCHANGED <<stream, eof, stateVars, callerVars, localVars,
                   start, in_data, out, skipped, lf_missed>>

SlurpLineFails ==
    /\ call = "read_to_end" /\ ~eof
    /\ Fails("read_to_end")
    /\ \/ /\ BreakLine
          /\ cut' = (cut \/ pos' # pos \/ slurped > 0)
          /\ UNCHANGED <<eof, line>>
       \/ PassDelimiter /\ cut' = TRUE
    /\ UNCHANGED <<stream, stateVars, callerVars, localVars, ghostVars, lf_missed>>

-----------------------------------------------------------------------------
ReaderFails ==
    \/ \E t \in Threads :
        \/ \E size \in BufSizes : ReadCountedFails(t, size) \/ ReadLineFails(t, size)
        \/ ReadToEndCountedFails(t)
    \/ SkipCountedFails
    \/ SkipLineFails
    \/ SlurpLineFails

\* A data stream begins.
NewData == finished /\ ~finished'

\* The ghosts in a step in which the reader does not fail.
NoFault ==
    /\ cut' = (cut /\ ~NewData)
    /\ lf_missed' = (lf_missed /\ ~NewData)

FaultsNext == (Next /\ NoFault) \/ ReaderFails

\* As DataReader: a running call is not suspended for ever.
FaultsSpec ==
    FaultsInit /\ [][FaultsNext]_faultsVars /\ WF_faultsVars(LoopStep /\ NoFault)

-----------------------------------------------------------------------------
\* Where the contents of the latest data stream end, with the delimiter.
PassedAt(p) ==
    \E q \in start..Len(stream) :
        /\ ContentsEnd(header, start, q)
        /\ p = IF header.is_counted THEN q ELSE LineEnd(q, Len(header.delim))

\* Whichever calls have failed and been made again, the parser resumes where the
\* data stream's own header says, or at the LF after it; unless a failure has
\* split a line, or has come in a read_to_end.
ResumesAfterFaults ==
    in_data /\ finished /\ ~cut =>
        IF lf_missed THEN PassedAt(pos) ELSE ResumesAt(header, start, pos)

\* What has been counted is what has been consumed, after failures as well.
AccountedUnlessCut == ~cut => Accounted

\* The caller is given the contents and nothing else, by retries as well.
DeliversUnlessCut == ~cut => DeliversContents

\* The data reader implements Framing but for the end of a data stream that a
\* failure has cut, or has come right after: even these leave all other data
\* streams and directives as Framing says.
FaultsImplementFraming ==
    /\ Frames!Init
    /\ [][Frames!Next \/ (~finished /\ (cut \/ lf_missed'))]_Frames!framingVars
=============================================================================
