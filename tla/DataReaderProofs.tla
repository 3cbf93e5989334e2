--------------------------- MODULE DataReaderProofs ---------------------------
(***************************************************************************)
(* Theorems about reading data streams, for every stream, every header,    *)
(* every number of threads and every size of buffer.                       *)
(***************************************************************************)
EXTENDS DataReader, LinesProofs

\* The smaller of two numbers is one of them.
LEMMA SmallerFacts ==
    ASSUME NEW m \in Int, NEW n \in Int
    PROVE  /\ Smaller(m, n) \in Int
           /\ Smaller(m, n) = m \/ Smaller(m, n) = n
           /\ Smaller(m, n) <= m /\ Smaller(m, n) <= n
BY DEF Smaller

\* Copying from a line keeps the buffer and the caller's bytes well typed.
LEMMA CopyLineType ==
    ASSUME TypeOK, NEW buf \in Seq(Bytes), NEW offset \in Nat,
           NEW size \in Nat, offset <= Len(buf), CopyLine(buf, offset, size)
    PROVE  /\ line_buf' \in Seq(Bytes)
           /\ line_offset' \in Nat /\ line_offset' <= Len(line_buf')
           /\ len_read' \in Nat
           /\ out' \in Seq(Bytes)
           /\ call' = "none"
           /\ \E n \in Nat : /\ line_offset' = offset + n
                            /\ len_read' = len_read + n
<1> DEFINE n == Smaller(Len(buf) - offset, size)
<1>1. Len(buf) \in Nat /\ Len(buf) - offset \in Nat /\ len_read \in Nat
  BY LenProperties DEF TypeOK
<1>2. n \in Nat /\ n <= Len(buf) - offset
  BY <1>1, SmallerFacts DEF Smaller
<1>3. /\ line_buf' = buf /\ line_offset' = offset + n
      /\ len_read' = len_read + n /\ call' = "none"
      /\ out' = out \o SubSeq(buf, offset + 1, offset + n)
  BY DEF CopyLine, Return
<1> HIDE DEF n
<1>4. SubSeq(buf, offset + 1, offset + n) \in Seq(Bytes)
  <2>1. /\ offset + 1 \in Int /\ offset + n \in Int
        /\ \A i \in (offset + 1)..(offset + n) : i \in 1..Len(buf)
    BY <1>1, <1>2
  <2>2. \A i \in (offset + 1)..(offset + n) : buf[i] \in Bytes
    BY <2>1, LenProperties
  <2> QED
    BY <2>1, <2>2, SubSeqProperties
<1>5. out' \in Seq(Bytes)
  BY <1>3, <1>4, ConcatProperties DEF TypeOK
<1> QED
  BY <1>1, <1>2, <1>3, <1>5

\* Appending a slice of the stream to the caller's bytes.
LEMMA OutType ==
    ASSUME TypeOK, NEW p \in 0..Len(stream), NEW q \in p..Len(stream)
    PROVE  /\ Slice(p, q) \in Seq(Bytes) /\ Len(Slice(p, q)) = q - p
           /\ out \o Slice(p, q) \in Seq(Bytes)
BY SliceProperties, ConcatProperties DEF TypeOK, InputTypeOK

\* What read_line leaves the input in, for whichever of its positions a caller
\* goes on from.
LEMMA ReadLineType ==
    ASSUME TypeOK, NEW n, ReadLine(n)
    PROVE  /\ eof' \in BOOLEAN /\ line' \in Nat
           /\ LineEnd(pos, n) \in pos..Len(stream)
           /\ pos + n \in pos..Len(stream)
           /\ SkipOptionalLF(LineEnd(pos, n)) \in LineEnd(pos, n)..Len(stream)
           /\ Slice(pos, LineEnd(pos, n)) \in Seq(Bytes)
           /\ Len(Slice(pos, LineEnd(pos, n))) = LineEnd(pos, n) - pos
<1>1. stream \in Seq(Bytes) /\ pos \in 0..Len(stream) /\ Len(stream) \in Nat
  BY LenProperties DEF TypeOK, InputTypeOK
<1>2. eof' \in BOOLEAN /\ line' \in Nat
  BY DEF ReadLine, TypeOK, InputTypeOK
<1>3. LineEnd(pos, n) \in pos..Len(stream) /\ pos + n \in pos..Len(stream)
  BY <1>1, LineEndBounds DEF ReadLine
<1>4. LineEnd(pos, n) \in 0..Len(stream)
  BY <1>1, <1>3
<1>5. SkipOptionalLF(LineEnd(pos, n)) \in LineEnd(pos, n)..Len(stream)
  BY <1>1, <1>4, SkipBounds
<1> QED
  BY <1>1, <1>2, <1>3, <1>5, OutType

-----------------------------------------------------------------------------
(* Type correctness.                                                        *)

\* open, close, and the reads that return at once.
LEMMA TypeOKOpenClose ==
    ASSUME TypeOK, NEW t \in Threads,
           Open(t) \/ Close(t) \/ SkipNothing(t)
    PROVE  TypeOK'
<1>1. CASE Open(t)
  BY <1>1 DEF Open, TypeOK, InputTypeOK, inputVars, stateVars, localVars, ghostVars
<1>2. CASE Close(t)
  BY <1>2 DEF Close, Return, TypeOK, InputTypeOK, inputVars, callerVars,
              localVars, ghostVars
<1>3. CASE SkipNothing(t)
  BY <1>3 DEF SkipNothing, Return, TypeOK, InputTypeOK, inputVars, stateVars,
              callerVars, localVars, ghostVars
<1> QED
  BY <1>1, <1>2, <1>3

\* read.
LEMMA TypeOKRead ==
    ASSUME TypeOK, NEW t \in Threads, NEW size \in BufSizes, Read(t, size)
    PROVE  TypeOK'
<1>0. /\ stream \in Seq(Bytes) /\ pos \in 0..Len(stream) /\ Len(stream) \in Nat
      /\ header.len \in Nat /\ len_read \in Nat /\ size \in Nat
  BY LenProperties, DataReaderAssumption DEF TypeOK, InputTypeOK, HeaderType
<1>1. CASE ReadNothing(t, size) \/ ReadCountedAtEof(t, size)
           \/ ReadNextLineAtEof(t, size)
  BY <1>1 DEF ReadNothing, ReadCountedAtEof, ReadNextLineAtEof, Return, TypeOK,
              InputTypeOK, inputVars, stateVars, callerVars, localVars, ghostVars
<1>2. CASE ReadCounted(t, size)
  <2>1. PICK n \in 0..Smaller(Smaller(header.len - len_read, size), Len(stream) - pos) :
            /\ len_read' = len_read + n
            /\ finished' = (len_read' >= header.len)
            /\ pos' = IF finished' THEN SkipOptionalLF(pos + n) ELSE pos + n
            /\ line' = line + CountLF(pos, pos + n)
            /\ out' = out \o Slice(pos, pos + n)
            /\ call' = "none"
    BY <1>2 DEF ReadCounted, Return
  <2>2. n \in Nat /\ n <= Len(stream) - pos
    <3> DEFINE wanted == Smaller(header.len - len_read, size)
    <3>1. wanted \in Int
      BY <1>0 DEF Smaller
    <3> HIDE DEF wanted
    <3>2. /\ Smaller(wanted, Len(stream) - pos) \in Int
          /\ Smaller(wanted, Len(stream) - pos) <= Len(stream) - pos
      BY <1>0, <3>1 DEF Smaller
    <3>3. n \in 0..Smaller(wanted, Len(stream) - pos)
      BY <2>1 DEF wanted
    <3> QED
      BY <1>0, <3>2, <3>3
  <2>3. pos + n \in pos..Len(stream) /\ pos + n \in 0..Len(stream)
    BY <1>0, <2>2
  <2>4. pos' \in pos..Len(stream)
    BY <1>0, <2>1, <2>3, SkipBounds
  <2>5. line' \in Nat
    <3>1. CountLF(pos, pos + n) \in Nat
      BY <1>0, <2>2, CountLFNat
    <3> QED
      BY <2>1, <3>1 DEF TypeOK, InputTypeOK
  <2>6. out' \in Seq(Bytes)
    BY <1>0, <2>1, <2>3, OutType
  <2>7. slurped' \in 0..pos'
    BY <1>0, <1>2, <2>4 DEF ReadCounted, localVars, TypeOK
  <2>8. finished' \in BOOLEAN /\ len_read' \in Nat
    BY <1>0, <2>1, <2>2
  <2>9. /\ UNCHANGED <<stream, eof, closed, header, line_buf, line_offset, blob,
                       readers, data_opened, start_len, start, in_data, skipped>>
        /\ used' = TRUE
    BY <1>2 DEF ReadCounted, callerVars, localVars
  <2>10. pos' \in 0..Len(stream) /\ call' = "none"
    BY <1>0, <2>1, <2>4
  <2> QED
    BY <2>5, <2>6, <2>7, <2>8, <2>9, <2>10 DEF TypeOK, InputTypeOK
<1>3. CASE ReadBufferedLine(t, size)
  <2>1. line_offset <= Len(line_buf)
    BY <1>3, LenProperties DEF ReadBufferedLine, TypeOK
  <2>2. /\ line_buf' \in Seq(Bytes) /\ line_offset' \in Nat /\ len_read' \in Nat
        /\ out' \in Seq(Bytes) /\ call' = "none"
    BY <1>0, <1>3, <2>1, CopyLineType DEF ReadBufferedLine, TypeOK
  <2> QED
    BY <1>3, <2>2 DEF ReadBufferedLine, TypeOK, InputTypeOK, inputVars, callerVars,
                      localVars
<1>4. CASE ReadNextLine(t, size)
  <2>1. PICK n \in 0..(Len(stream) - pos) :
            /\ ReadLine(n)
            /\ \/ /\ pos' = pos
                  /\ line_buf' = <<>> /\ line_offset' = 0
                  /\ Return("read", "Unterminated", 0)
                  /\ UNCHANGED <<finished, len_read, out>>
               \/ /\ pos' = SkipOptionalLF(LineEnd(pos, n))
                  /\ line_buf' = Slice(pos, LineEnd(pos, n)) /\ line_offset' = 0
                  /\ finished' = TRUE
                  /\ Return("read", "Ok", 0)
                  /\ UNCHANGED <<len_read, out>>
               \/ /\ pos' = LineEnd(pos, n)
                  /\ CopyLine(Slice(pos, LineEnd(pos, n)), 0, size)
                  /\ UNCHANGED finished
    BY <1>4 DEF ReadNextLine
  <2>2. /\ eof' \in BOOLEAN /\ line' \in Nat
        /\ LineEnd(pos, n) \in pos..Len(stream)
        /\ SkipOptionalLF(LineEnd(pos, n)) \in LineEnd(pos, n)..Len(stream)
        /\ Slice(pos, LineEnd(pos, n)) \in Seq(Bytes)
    BY <2>1, ReadLineType
  <2>3. pos' \in pos..Len(stream)
    BY <1>0, <2>1, <2>2
  <2>4. /\ line_buf' \in Seq(Bytes) /\ line_offset' \in Nat /\ len_read' \in Nat
        /\ out' \in Seq(Bytes) /\ call' = "none" /\ finished' \in BOOLEAN
    <3>1. CASE CopyLine(Slice(pos, LineEnd(pos, n)), 0, size) /\ UNCHANGED finished
      <4>1. Len(Slice(pos, LineEnd(pos, n))) \in Nat
        BY <2>2, LenProperties
      <4>2. /\ line_buf' \in Seq(Bytes) /\ line_offset' \in Nat
            /\ len_read' \in Nat /\ out' \in Seq(Bytes) /\ call' = "none"
        BY <1>0, <2>2, <3>1, <4>1, CopyLineType
      <4> QED
        BY <3>1, <4>2 DEF TypeOK
    <3>2. CASE UNCHANGED <<len_read, out>>
      <4>1. CASE CopyLine(Slice(pos, LineEnd(pos, n)), 0, size) /\ UNCHANGED finished
        BY <3>1, <4>1
      <4>2. CASE ~(CopyLine(Slice(pos, LineEnd(pos, n)), 0, size) /\ UNCHANGED finished)
        <5>1. /\ line_buf' = <<>> \/ line_buf' = Slice(pos, LineEnd(pos, n))
              /\ line_offset' = 0 /\ call' = "none"
              /\ finished' = finished \/ finished' = TRUE
          BY <2>1, <4>2 DEF Return
        <5>2. line_buf' \in Seq(Bytes)
          BY <2>2, <5>1, EmptySeq
        <5> QED
          BY <3>2, <5>1, <5>2 DEF TypeOK
      <4> QED
        BY <4>1, <4>2
    <3> QED
      BY <2>1, <3>1, <3>2
  <2>5. slurped' \in 0..pos'
    BY <1>0, <1>4, <2>3 DEF ReadNextLine, localVars, TypeOK
  <2> QED
    BY <1>0, <1>4, <2>2, <2>3, <2>4, <2>5
    DEF ReadNextLine, TypeOK, InputTypeOK, callerVars, localVars
<1> QED
  BY <1>1, <1>2, <1>3, <1>4 DEF Read

\* skip_data, from its call to its end.
LEMMA TypeOKSkip ==
    ASSUME TypeOK, SkipStep \/ NextSkip \/ \E t \in Threads : SkipRest(t)
    PROVE  TypeOK'
<1>0. /\ stream \in Seq(Bytes) /\ pos \in 0..Len(stream) /\ Len(stream) \in Nat
      /\ header.len \in Nat /\ len_read \in Nat /\ start_len \in Nat
      /\ Len(line_buf) \in Nat /\ line_offset \in Nat
  BY LenProperties DEF TypeOK, InputTypeOK, HeaderType
<1>1. CASE NextSkip \/ \E t \in Threads : SkipRest(t)
  <2>1. PICK op \in {"skip_rest", "next"} :
            /\ SkipBegin(op)
            /\ UNCHANGED data_opened
            /\ readers' \in SUBSET Threads /\ blob' \in BOOLEAN /\ used' \in BOOLEAN
    BY <1>1 DEF NextSkip, SkipRest, callerVars, TypeOK
  <2>2. /\ len_read' \in Nat /\ start_len' \in Nat /\ call' \in {op, "panicked"}
        /\ skipped' = TRUE
        /\ UNCHANGED <<stream, pos, eof, line, finished, closed, header, line_buf,
                       line_offset, slurped, start, in_data, out>>
    BY <1>0, <2>1 DEF SkipBegin, Pending, inputVars
  <2> QED
    BY <2>1, <2>2 DEF TypeOK, InputTypeOK
<1>2. CASE SkipChunk
  <2>1. PICK n \in 1..Smaller(header.len - len_read, Len(stream) - pos) :
            /\ pos' = pos + n
            /\ line' = line + CountLF(pos, pos + n)
            /\ len_read' = len_read + n
    BY <1>2 DEF SkipChunk
  <2>2. n \in Nat /\ n <= Len(stream) - pos
    BY <1>0, <2>1 DEF Smaller
  <2>3. CountLF(pos, pos + n) \in Nat
    BY <1>0, <2>2, CountLFNat
  <2>4. line' \in Nat
    BY <2>1, <2>3 DEF TypeOK, InputTypeOK
  <2>5. pos' \in pos..Len(stream) /\ len_read' \in Nat
    BY <1>0, <2>1, <2>2
  <2>6. slurped' \in 0..pos'
    BY <1>0, <1>2, <2>5 DEF SkipChunk, localVars, TypeOK
  <2>7. UNCHANGED <<stream, eof, finished, closed, header, line_buf, line_offset,
                    blob, readers, data_opened, call, start_len, start, in_data,
                    out, skipped, used>>
    BY <1>2 DEF SkipChunk, callerVars, localVars, ghostVars
  <2> QED
    BY <1>0, <2>4, <2>5, <2>6, <2>7 DEF TypeOK, InputTypeOK
<1>3. CASE SkipCountedShort \/ SkipLineAtEof
  BY <1>3 DEF SkipCountedShort, SkipLineAtEof, Return, TypeOK, InputTypeOK,
              inputVars, stateVars, callerVars, localVars, ghostVars
<1>4. CASE SkipCountedEnd
  <2>1. pos' \in pos..Len(stream)
    BY <1>0, <1>4, SkipBounds DEF SkipCountedEnd
  <2>2. slurped' \in 0..pos' /\ pos' \in 0..Len(stream)
    BY <1>0, <1>4, <2>1 DEF SkipCountedEnd, localVars, TypeOK
  <2>3. call' \in {"none", "parse"}
    BY <1>4 DEF SkipCountedEnd, SkipEnd, Return
  <2> QED
    BY <1>4, <2>2, <2>3 DEF SkipCountedEnd, TypeOK, InputTypeOK, callerVars,
                            localVars, ghostVars
<1>5. CASE SkipLine
  <2>1. PICK n \in 0..(Len(stream) - pos) :
            /\ ReadLine(n)
            /\ line_buf' = Slice(pos, LineEnd(pos, n))
            /\ \/ /\ pos' = pos
                  /\ Return(call, "Unterminated", 0)
                  /\ UNCHANGED <<finished, len_read>>
               \/ /\ pos' = SkipOptionalLF(LineEnd(pos, n))
                  /\ finished' = TRUE
                  /\ SkipEnd(len_read - start_len)
                  /\ UNCHANGED len_read
               \/ /\ pos' = LineEnd(pos, n)
                  /\ len_read' = len_read + Len(line_buf')
                  /\ UNCHANGED <<call, ret, finished>>
    BY <1>5 DEF SkipLine
  <2>2. /\ eof' \in BOOLEAN /\ line' \in Nat
        /\ LineEnd(pos, n) \in pos..Len(stream)
        /\ SkipOptionalLF(LineEnd(pos, n)) \in LineEnd(pos, n)..Len(stream)
        /\ Slice(pos, LineEnd(pos, n)) \in Seq(Bytes)
    BY <2>1, ReadLineType
  <2>3. line_buf' \in Seq(Bytes) /\ Len(line_buf') \in Nat
    BY <2>1, <2>2, LenProperties
  <2>4. pos' \in pos..Len(stream)
    BY <1>0, <2>1, <2>2
  <2>5. len_read' \in Nat /\ finished' \in BOOLEAN
    <3>1. /\ len_read' = len_read \/ len_read' = len_read + Len(line_buf')
          /\ finished' = finished \/ finished' = TRUE
      BY <2>1
    <3>2. len_read' \in Nat
      BY <1>0, <2>3, <3>1
    <3>3. finished' \in BOOLEAN
      BY <3>1 DEF TypeOK
    <3> QED
      BY <3>2, <3>3
  <2>6. call' \in {"none", "parse", call}
    BY <2>1 DEF Return, SkipEnd
  <2>7. slurped' \in 0..pos'
    BY <1>0, <1>5, <2>4 DEF SkipLine, localVars, TypeOK
  <2> QED
    BY <1>0, <1>5, <2>2, <2>3, <2>4, <2>5, <2>6, <2>7
    DEF SkipLine, TypeOK, InputTypeOK, callerVars, localVars, ghostVars
<1> QED
  BY <1>1, <1>2, <1>3, <1>4, <1>5 DEF SkipStep

\* read_to_end.
LEMMA TypeOKReadToEnd ==
    ASSUME TypeOK,
           \/ SlurpLine \/ SlurpLineAtEof
           \/ \E t \in Threads : ReadToEndCounted(t) \/ ReadToEndDelimited(t)
    PROVE  TypeOK'
<1>0. /\ stream \in Seq(Bytes) /\ pos \in 0..Len(stream) /\ Len(stream) \in Nat
      /\ header.len \in Nat /\ len_read \in Nat /\ slurped \in 0..pos
  BY LenProperties DEF TypeOK, InputTypeOK, HeaderType
<1>1. CASE \E t \in Threads : ReadToEndCounted(t)
  <2> DEFINE n == Smaller(header.len, Len(stream) - pos)
  <2>1. n \in Nat /\ pos + n \in pos..Len(stream) /\ pos + n \in 0..Len(stream)
    BY <1>0 DEF Smaller
  <2>2. /\ line' = line + CountLF(pos, pos + n)
        /\ \/ pos' = pos + n /\ UNCHANGED <<finished, len_read, out>>
           \/ /\ pos' = SkipOptionalLF(pos + n)
              /\ finished' = TRUE
              /\ len_read' = len_read + n
              /\ out' = out \o Slice(pos, pos + n)
        /\ call' = "none" /\ used' = TRUE
        /\ UNCHANGED <<stream, eof, closed, header, line_buf, line_offset, blob,
                       readers, data_opened, start_len, slurped, start, in_data,
                       skipped>>
    BY <1>1 DEF ReadToEndCounted, Return, callerVars, localVars
  <2> HIDE DEF n
  <2>3. SkipOptionalLF(pos + n) \in (pos + n)..Len(stream)
    BY <1>0, <2>1, SkipBounds
  <2>4. pos' \in pos..Len(stream)
    BY <1>0, <2>1, <2>2, <2>3
  <2>5. CountLF(pos, pos + n) \in Nat
    BY <1>0, <2>1, CountLFNat
  <2>6. out \o Slice(pos, pos + n) \in Seq(Bytes)
    BY <1>0, <2>1, OutType
  <2>7. line' \in Nat
    BY <2>2, <2>5 DEF TypeOK, InputTypeOK
  <2>8. finished' \in BOOLEAN /\ len_read' \in Nat /\ out' \in Seq(Bytes)
    <3>1. /\ len_read' = len_read \/ len_read' = len_read + n
          /\ finished' = finished \/ finished' = TRUE
          /\ out' = out \/ out' = out \o Slice(pos, pos + n)
      BY <2>2
    <3>2. len_read' \in Nat
      BY <1>0, <2>1, <3>1
    <3>3. finished' \in BOOLEAN /\ out' \in Seq(Bytes)
      BY <2>6, <3>1 DEF TypeOK
    <3> QED
      BY <3>2, <3>3
  <2>9. slurped' \in 0..pos' /\ pos' \in 0..Len(stream)
    BY <1>0, <2>2, <2>4
  <2> QED
    BY <2>2, <2>7, <2>8, <2>9 DEF TypeOK, InputTypeOK
<1>2. CASE SlurpLineAtEof \/ \E t \in Threads : ReadToEndDelimited(t)
  <2>1. slurped' \in 0..pos'
    BY <1>0, <1>2 DEF SlurpLineAtEof, ReadToEndDelimited, inputVars, localVars
  <2> QED
    BY <1>2, <2>1 DEF SlurpLineAtEof, ReadToEndDelimited, TypeOK, InputTypeOK,
                      inputVars, stateVars, callerVars, localVars, ghostVars
<1>3. CASE SlurpLine
  <2>1. PICK n \in 0..(Len(stream) - pos) :
            /\ ReadLine(n)
            /\ \/ /\ pos' = pos
                  /\ Return("read_to_end", "Unterminated", 0)
                  /\ UNCHANGED <<finished, len_read, slurped, out>>
               \/ /\ pos' = SkipOptionalLF(LineEnd(pos, n))
                  /\ finished' = TRUE
                  /\ len_read' = len_read + slurped
                  /\ out' = out \o Slice(pos - slurped, pos)
                  /\ Return("read_to_end", "Ok", slurped)
                  /\ UNCHANGED slurped
               \/ /\ pos' = LineEnd(pos, n)
                  /\ slurped' = slurped + (pos' - pos)
                  /\ UNCHANGED <<call, ret, finished, len_read, out>>
    BY <1>3 DEF SlurpLine
  <2>2. /\ eof' \in BOOLEAN /\ line' \in Nat
        /\ LineEnd(pos, n) \in pos..Len(stream)
        /\ SkipOptionalLF(LineEnd(pos, n)) \in LineEnd(pos, n)..Len(stream)
    BY <2>1, ReadLineType
  <2>3. pos' \in pos..Len(stream) /\ pos' \in 0..Len(stream)
    BY <1>0, <2>1, <2>2
  <2>4. pos - slurped \in 0..Len(stream) /\ pos \in (pos - slurped)..Len(stream)
    BY <1>0
  <2>5. out \o Slice(pos - slurped, pos) \in Seq(Bytes)
    BY <2>4, OutType
  <2>6. /\ finished' \in BOOLEAN /\ len_read' \in Nat /\ out' \in Seq(Bytes)
        /\ call' \in {"none", call}
    <3>1. /\ len_read' = len_read \/ len_read' = len_read + slurped
          /\ finished' = finished \/ finished' = TRUE
          /\ out' = out \/ out' = out \o Slice(pos - slurped, pos)
          /\ call' \in {"none", call}
      BY <2>1 DEF Return
    <3>2. len_read' \in Nat
      BY <1>0, <3>1
    <3>3. finished' \in BOOLEAN /\ out' \in Seq(Bytes)
      BY <2>5, <3>1 DEF TypeOK
    <3> QED
      BY <3>1, <3>2, <3>3
  <2>7. slurped' \in 0..pos'
    BY <1>0, <2>1, <2>3
  <2> QED
    BY <1>3, <2>2, <2>3, <2>6, <2>7
    DEF SlurpLine, TypeOK, InputTypeOK, callerVars
<1> QED
  BY <1>1, <1>2, <1>3

\* next, but for its skip of the data.
LEMMA TypeOKParse ==
    ASSUME TypeOK,
           \/ NextUnfinished \/ NextParse \/ ParseOther \/ ParseEof
           \/ \E h \in Headers : ParseBlob(h)
    PROVE  TypeOK'
<1>0. /\ stream \in Seq(Bytes) /\ pos \in 0..Len(stream) /\ Len(stream) \in Nat
      /\ slurped \in 0..pos
  BY LenProperties DEF TypeOK, InputTypeOK
<1>1. CASE NextUnfinished \/ NextParse \/ ParseEof
  BY <1>1 DEF NextUnfinished, NextParse, ParseEof, Return, TypeOK, InputTypeOK,
              inputVars, stateVars, callerVars, localVars, ghostVars
<1>2. CASE ParseOther
  <2>1. PICK n \in 0..(Len(stream) - pos) :
            ReadLine(n) /\ pos' = LineEnd(pos, n) /\ call' = "none"
    BY <1>2 DEF ParseOther, Return
  <2>2. eof' \in BOOLEAN /\ line' \in Nat /\ pos' \in pos..Len(stream)
    BY <2>1, ReadLineType
  <2>3. slurped' \in 0..pos' /\ pos' \in 0..Len(stream)
    BY <1>0, <1>2, <2>2 DEF ParseOther, localVars
  <2> QED
    BY <1>2, <2>1, <2>2, <2>3 DEF ParseOther, TypeOK, InputTypeOK, stateVars,
                                  callerVars, localVars
<1>3. CASE \E h \in Headers : ParseBlob(h)
  <2>1. PICK h \in Headers : ParseBlob(h)
    BY <1>3
  <2>2. PICK n \in 0..(Len(stream) - pos) :
            ReadLine(n) /\ pos' = LineEnd(pos, n)
    BY <2>1 DEF ParseBlob
  <2>3. eof' \in BOOLEAN /\ line' \in Nat /\ pos' \in pos..Len(stream)
    BY <2>2, ReadLineType
  <2>4. slurped' \in 0..pos' /\ pos' \in 0..Len(stream) /\ start' = pos'
    BY <1>0, <2>1, <2>3 DEF ParseBlob, localVars
  <2>5. line_buf' \in Seq(Bytes) /\ line_offset' \in Nat /\ out' \in Seq(Bytes)
    <3>1. /\ IF h.is_counted
             THEN UNCHANGED <<line_buf, line_offset>>
             ELSE line_buf' = <<>> /\ line_offset' = 0
          /\ out' = <<>>
      BY <2>1 DEF ParseBlob
    <3>2. <<>> \in Seq(Bytes) /\ line_buf \in Seq(Bytes) /\ line_offset \in Nat
      BY EmptySeq DEF TypeOK
    <3>3. CASE h.is_counted
      <4>1. line_buf' = line_buf /\ line_offset' = line_offset
        BY <3>1, <3>3
      <4> QED
        BY <3>1, <3>2, <4>1
    <3>4. CASE ~h.is_counted
      <4>1. line_buf' = <<>> /\ line_offset' = 0
        BY <3>1, <3>4
      <4> QED
        BY <3>1, <3>2, <4>1
    <3> QED
      BY <3>3, <3>4
  <2>6. h \in HeaderType
    BY DataReaderAssumption
  <2>7. /\ finished' = FALSE /\ closed' = FALSE /\ header' = h /\ len_read' = 0
        /\ data_opened' = FALSE /\ blob' = TRUE /\ call' = "none"
        /\ in_data' = TRUE /\ skipped' = FALSE /\ used' = FALSE
        /\ UNCHANGED <<stream, readers, start_len>>
    BY <2>1 DEF ParseBlob, Return, localVars
  <2> QED
    BY <2>3, <2>4, <2>5, <2>6, <2>7 DEF TypeOK, InputTypeOK
<1> QED
  BY <1>1, <1>2, <1>3

\* Every step keeps the types.
LEMMA TypeOKStep ==
    ASSUME TypeOK, [Next]_vars
    PROVE  TypeOK'
<1>1. CASE ParserStep
  BY <1>1, TypeOKSkip, TypeOKParse DEF ParserStep
<1>2. CASE LoopStep
  BY <1>2, TypeOKSkip, TypeOKReadToEnd DEF LoopStep
<1>3. CASE \E t \in Threads : ReaderStep(t)
  <2>1. PICK t \in Threads : ReaderStep(t)
    BY <1>3
  <2>2. CASE \E size \in BufSizes : Read(t, size)
    BY <2>2, TypeOKRead
  <2>3. CASE ~ \E size \in BufSizes : Read(t, size)
    BY <2>1, <2>3, TypeOKOpenClose, TypeOKSkip, TypeOKReadToEnd DEF ReaderStep
  <2> QED
    BY <2>2, <2>3
<1>4. CASE UNCHANGED vars
  BY <1>4 DEF vars, inputVars, stateVars, callerVars, localVars, ghostVars,
              TypeOK, InputTypeOK
<1> QED
  BY <1>1, <1>2, <1>3, <1>4 DEF Next

\* The initial state has the types.
LEMMA TypeOKInit ==
    ASSUME Init
    PROVE  TypeOK
<1>1. stream \in Seq(Bytes) /\ Len(stream) \in Nat
  BY LinesAssumption, LenProperties DEF Init, InputInit
<1>2. header \in HeaderType
  <2>1. <<>> \in Seq(Bytes)
    BY EmptySeq
  <2> QED
    BY <2>1 DEF Init, Delimited, HeaderType
<1>3. out \in Seq(Bytes) /\ line_buf \in Seq(Bytes)
  BY EmptySeq DEF Init
<1>4. start \in 0..Len(stream) /\ pos \in 0..Len(stream) /\ slurped \in 0..pos
  BY <1>1 DEF Init, InputInit
<1> QED
  BY <1>1, <1>2, <1>3, <1>4 DEF Init, InputInit, TypeOK, InputTypeOK

\* The state of the parser, of its input and of the data reader always has the
\* types of their fields; in particular the input is never read past its end.
THEOREM TypeCorrect == Spec => []TypeOK
<1>1. Init => TypeOK
  BY TypeOKInit
<1>2. TypeOK /\ [Next]_vars => TypeOK'
  BY TypeOKStep
<1> QED
  BY <1>1, <1>2, PTL DEF Spec

-----------------------------------------------------------------------------
(* The inductive invariant.                                                 *)

\* The data reader belongs to one thread, while the blob is borrowed; a data
\* stream that has not been opened has not been touched.
Ownership ==
    /\ ExclusiveReader
    /\ call \in {"next", "parse"} => ~blob
    /\ call = "next" => ~data_opened
    /\ call \in {"skip_rest", "read_to_end"} => used
    /\ ~data_opened => ~used /\ out = <<>>

\* Which calls are made before the data is finished.
Control ==
    /\ call = "parse" => finished
    /\ call \in {"skip_rest", "next", "read_to_end"} => ~finished
    /\ call = "read_to_end" => ~header.is_counted
    /\ ~finished => in_data
    /\ eof => pos = Len(stream)
    /\ blob /\ ~used => ~finished /\ pos = start

\* A counted data stream has been consumed up to len_read or is cut short.
CountedProgress ==
    \/ pos = start + len_read /\ len_read <= header.len
    \/ pos = Len(stream) /\ len_read < header.len

\* A delimited one has been consumed up to the start of a line, past none that
\* is the delimiter.
DelimitedProgress ==
    /\ NoDelimiterBefore(header, start, pos)
    /\ LineStart(start, pos) \/ pos = Len(stream)

Progress ==
    ~finished =>
        /\ start <= pos
        /\ IF header.is_counted THEN CountedProgress ELSE DelimitedProgress

\* What has been consumed of a delimited data stream and not been counted is
\* what the buffered line has left.
Buffered ==
    ~finished /\ ~header.is_counted /\ pos < Len(stream) =>
        /\ Idle => /\ line_offset <= Len(line_buf)
                   /\ pos = start + len_read + Pending
        /\ Skipping => pos = start + len_read

-----------------------------------------------------------------------------
(* The data reader belongs to one thread.                                   *)

\* A step of a thread that holds the data reader, or of a call it has made,
\* leaves the ownership alone.
LEMMA OwnershipRead ==
    ASSUME Ownership, UNCHANGED <<blob, readers, data_opened>>,
           data_opened, call' # "parse", call' # "next",
           call' \in {"skip_rest", "read_to_end"} => used'
    PROVE  Ownership'
BY DEF Ownership, ExclusiveReader

\* Every step keeps the ownership of the data stream.
LEMMA OwnershipStep ==
    ASSUME TypeOK, Ownership, [Next]_vars
    PROVE  Ownership'
<1>1. CASE \E t \in Threads : ReaderStep(t)
  <2>1. PICK t \in Threads : ReaderStep(t)
    BY <1>1
  <2>2. CASE Open(t)
    <3>1. /\ blob /\ data_opened' = TRUE
          /\ readers' = IF data_opened THEN readers ELSE readers \cup {t}
          /\ UNCHANGED <<blob, call, used, out>>
      BY <2>2 DEF Open, ghostVars
    <3>2. ~data_opened => readers = {}
      BY DEF Ownership, ExclusiveReader
    <3> QED
      BY <3>1, <3>2 DEF Ownership, ExclusiveReader
  <2>3. CASE ~Open(t)
    <3>1. t \in readers /\ data_opened
      BY <2>1, <2>3 DEF ReaderStep, Close, Read, ReadNothing, ReadCounted,
           ReadCountedAtEof, ReadBufferedLine, ReadNextLine, ReadNextLineAtEof,
           CanRead, SkipRest, SkipNothing, ReadToEndCounted, ReadToEndDelimited,
           MayReadToEnd, Ownership, ExclusiveReader
    <3>2. UNCHANGED <<blob, readers, data_opened>>
      BY <2>1, <2>3 DEF ReaderStep, Close, Read, ReadNothing, ReadCounted,
           ReadCountedAtEof, ReadBufferedLine, ReadNextLine, ReadNextLineAtEof,
           SkipRest, SkipNothing, ReadToEndCounted, ReadToEndDelimited, callerVars
    <3>3. /\ call' \in {"none", "skip_rest", "read_to_end", "panicked"}
          /\ call' \in {"skip_rest", "read_to_end"} => used'
      BY <2>1, <2>3 DEF ReaderStep, Close, Read, ReadNothing, ReadCounted,
           ReadCountedAtEof, ReadBufferedLine, ReadNextLine, ReadNextLineAtEof,
           CopyLine, Return, SkipRest, SkipBegin, SkipNothing, ReadToEndCounted,
           ReadToEndDelimited
    <3> QED
      BY <3>1, <3>2, <3>3, OwnershipRead
  <2> QED
    BY <2>2, <2>3
<1>2. CASE SlurpLine \/ SlurpLineAtEof
  <2>1. /\ call = "read_to_end"
        /\ UNCHANGED <<blob, readers, data_opened, used>>
        /\ call' \in {"none", "read_to_end", "panicked"}
    BY <1>2 DEF SlurpLine, SlurpLineAtEof, Return, callerVars, ghostVars
  <2>2. data_opened /\ used
    BY <2>1 DEF Ownership
  <2> QED
    BY <2>1, <2>2, OwnershipRead
<1>3. CASE SkipStep
  <2>1. /\ call \in {"skip_rest", "next"}
        /\ UNCHANGED <<blob, readers, data_opened, used, out>>
        /\ \/ call' = call
           \/ call' = "none"
           \/ call' = "parse" /\ call = "next"
    BY <1>3 DEF SkipStep, SkipChunk, SkipCountedShort, SkipCountedEnd,
         SkipLineAtEof, SkipLine, Skipping, SkipEnd, Return, callerVars, ghostVars
  <2> QED
    BY <2>1 DEF Ownership, ExclusiveReader
<1>4. CASE ParserStep
  <2>1. CASE NextUnfinished \/ NextSkip \/ NextParse
    <3>1. /\ blob' = FALSE /\ readers' = {}
          /\ UNCHANGED <<data_opened, used, out>>
          /\ call' \in {"none", "parse", "next", "panicked"}
          /\ call' = "next" => ~data_opened
      BY <2>1 DEF NextUnfinished, NextSkip, SkipBegin, NextParse, Return, ghostVars
    <3> QED
      BY <3>1 DEF Ownership, ExclusiveReader
  <2>2. CASE ParseOther \/ ParseEof
    <3>1. UNCHANGED <<blob, readers, data_opened, used, out>> /\ call' = "none"
      BY <2>2 DEF ParseOther, ParseEof, Return, callerVars, ghostVars
    <3> QED
      BY <3>1 DEF Ownership, ExclusiveReader
  <2>3. CASE \E h \in Headers : ParseBlob(h)
    <3>1. /\ call = "parse" /\ call' = "none" /\ readers' = readers
          /\ data_opened' = FALSE /\ used' = FALSE /\ out' = <<>>
      BY <2>3 DEF ParseBlob, Return
    <3>2. readers = {}
      BY <3>1 DEF Ownership, ExclusiveReader
    <3> QED
      BY <3>1, <3>2 DEF Ownership, ExclusiveReader
  <2> QED
    BY <1>4, <2>1, <2>2, <2>3 DEF ParserStep
<1>5. CASE UNCHANGED vars
  BY <1>5 DEF vars, callerVars, ghostVars, Ownership, ExclusiveReader
<1> QED
  BY <1>1, <1>2, <1>3, <1>4, <1>5 DEF Next, LoopStep

\* It always holds.
LEMMA OwnershipHolds == Spec => []Ownership
<1>1. Init => Ownership
  BY DEF Init, Ownership, ExclusiveReader
<1>2. TypeOK /\ Ownership /\ [Next]_vars => Ownership'
  BY OwnershipStep
<1> QED
  BY <1>1, <1>2, TypeCorrect, PTL DEF Spec

\* At most one thread holds the DataReader of a blob, however many race to open
\* it, and none once next has been called: the unsafe `&mut` that open takes of
\* data_state (data.rs:77-81) is unique.
THEOREM OneReaderAtATime == Spec => []ExclusiveReader
<1>1. Ownership => ExclusiveReader
  BY DEF Ownership
<1> QED
  BY <1>1, OwnershipHolds, PTL

\* next skips a data stream only if it was never opened, so that it never skips
\* the rest of one that its caller has begun to read.
THEOREM OnlyUnopenedSkipped == Spec => []NextSkipsOnlyUnopened
<1>1. Ownership => NextSkipsOnlyUnopened
  BY DEF Ownership, ExclusiveReader, NextSkipsOnlyUnopened
<1> QED
  BY <1>1, OwnershipHolds, PTL

-----------------------------------------------------------------------------
(* Where the data of a data stream ends.                                    *)

\* What a step does to the data stream: but for the steps that read directives,
\* it leaves the stream in progress, or leaves a finished one where it is, or
\* finishes it where the next directive begins.
DataStep ==
    \/ ParseOther
    \/ \E h \in Headers : ParseBlob(h)
    \/ /\ UNCHANGED <<stream, header, start, in_data>>
       /\ \/ finished' = finished /\ (finished => pos' = pos)
          \/ ~finished /\ finished' = TRUE /\ ResumesAt(header, start, pos')

IInv == TypeOK /\ Ownership /\ Control /\ Progress /\ Buffered

\* A step that neither moves the input nor touches the data reader's state.
LEMMA QuietStep ==
    ASSUME IInv,
           UNCHANGED <<stream, pos, eof, finished, header, len_read, line_buf,
                       line_offset, start, in_data>>,
           blob' /\ ~used' => blob /\ ~used,
           \/ call' = "panicked"
           \/ call' = call
           \/ call' = "none" /\ Idle
           \/ call' = "none" /\ eof
           \/ call' = "parse" /\ finished
           \/ call' = "read_to_end" /\ ~finished /\ ~header.is_counted
    PROVE  Control' /\ Progress' /\ Buffered' /\ DataStep
<1>1. Control'
  BY DEF IInv, Control
<1>2. Progress'
  BY DEF IInv, Progress, CountedProgress, DelimitedProgress, NoDelimiterBefore,
         DelimiterAt, LineStart, IsLine, Slice
<1>3. DataStep
  BY DEF DataStep
<1>4. Buffered'
  <2> SUFFICES ASSUME ~finished, ~header.is_counted, pos < Len(stream)
               PROVE  /\ Idle' => /\ line_offset <= Len(line_buf)
                                  /\ pos = start + len_read + Pending
                      /\ Skipping' => pos = start + len_read
    BY DEF Buffered, Pending
  <2>1. ~eof
    BY LenProperties DEF IInv, Control, TypeOK, InputTypeOK
  <2>2. Skipping' => Skipping
    BY <2>1 DEF Skipping
  <2>3. Idle' => Idle
    BY <2>1 DEF Idle
  <2> QED
    BY <2>2, <2>3 DEF IInv, Buffered
<1> QED
  BY <1>1, <1>2, <1>3, <1>4

\* A counted data stream moves on by n bytes, and by an optional LF when that
\* was all of it.
LEMMA CountedStep ==
    ASSUME IInv, ~finished, header.is_counted, NEW n \in Nat,
           pos + n <= Len(stream), n > 0 => len_read + n <= header.len,
           UNCHANGED <<stream, header, start, in_data>>,
           len_read' = len_read + n,
           \/ finished' = FALSE /\ pos' = pos + n
              /\ (n > 0 \/ len_read < header.len)
           \/ finished' = TRUE /\ pos' = SkipOptionalLF(pos + n)
              /\ len_read' >= header.len
    PROVE  Progress' /\ Buffered' /\ DataStep
<1>0. /\ stream \in Seq(Bytes) /\ pos \in 0..Len(stream) /\ Len(stream) \in Nat
      /\ header \in HeaderType /\ header.len \in Nat /\ len_read \in Nat
      /\ start \in 0..Len(stream) /\ start <= pos
  BY LenProperties DEF IInv, Progress, TypeOK, InputTypeOK, HeaderType
<1>1. CountedProgress
  BY DEF IInv, Progress
<1>2. CASE finished' = FALSE
  <2>1. pos' = pos + n /\ (n > 0 \/ len_read < header.len)
    BY <1>2
  <2>2. start' <= pos'
    BY <1>0, <2>1
  <2>3. CountedProgress'
    <3>1. CASE pos = start + len_read /\ len_read <= header.len
      BY <1>0, <2>1, <3>1 DEF CountedProgress
    <3>2. CASE pos = Len(stream) /\ len_read < header.len
      BY <1>0, <2>1, <3>2 DEF CountedProgress
    <3> QED
      BY <1>1, <3>1, <3>2 DEF CountedProgress
  <2>4. Progress' /\ Buffered'
    BY <2>2, <2>3 DEF Progress, Buffered
  <2>5. DataStep
    BY <1>2 DEF DataStep, IInv, TypeOK
  <2> QED
    BY <2>4, <2>5
<1>3. CASE finished' = TRUE
  <2>1. pos' = SkipOptionalLF(pos + n) /\ len_read + n >= header.len
    BY <1>3
  <2>2. pos + n = start + header.len
    <3>1. CASE pos = start + len_read /\ len_read <= header.len
      BY <1>0, <2>1, <3>1
    <3>2. CASE pos = Len(stream) /\ len_read < header.len
      BY <1>0, <2>1, <3>2
    <3> QED
      BY <1>1, <3>1, <3>2 DEF CountedProgress
  <2>3. start \in Nat /\ pos + n \in start..Len(stream)
    BY <1>0
  <2>4. ResumesAt(header, start, SkipOptionalLF(pos + n))
    BY <1>0, <2>2, <2>3, CountedEnds
  <2> QED
    BY <1>3, <2>1, <2>4 DEF Progress, Buffered, DataStep
<1> QED
  BY <1>2, <1>3

\* A delimited data stream moves on by a line.
LEMMA LineStep ==
    ASSUME IInv, ~finished, ~header.is_counted, NEW n, ReadLine(n),
           UNCHANGED <<stream, header, start, in_data>>,
           \/ finished' = FALSE /\ pos = Len(stream) /\ pos' = pos
           \/ /\ finished' = TRUE /\ pos < Len(stream)
              /\ Slice(pos, pos + n) = header.delim
              /\ pos' = SkipOptionalLF(LineEnd(pos, n))
           \/ /\ finished' = FALSE /\ pos < Len(stream)
              /\ Slice(pos, pos + n) # header.delim
              /\ pos' = LineEnd(pos, n)
    PROVE  Progress' /\ DataStep /\ (eof' => pos' = Len(stream))
<1>0. /\ stream \in Seq(Bytes) /\ pos \in 0..Len(stream) /\ Len(stream) \in Nat
      /\ header \in HeaderType /\ start \in Nat /\ pos \in start..Len(stream)
      /\ IsLine(pos, n)
  BY LenProperties DEF IInv, Progress, TypeOK, InputTypeOK, ReadLine
<1>1. DelimitedProgress
  BY DEF IInv, Progress
<1>2. CASE finished' = FALSE /\ pos = Len(stream) /\ pos' = pos
  <2>1. DelimitedProgress'
    BY <1>1, <1>2 DEF DelimitedProgress, NoDelimiterBefore, DelimiterAt,
       LineStart, IsLine, Slice
  <2>2. Progress'
    BY <1>0, <1>2, <2>1 DEF Progress
  <2>3. DataStep
    BY <1>2 DEF DataStep, IInv, TypeOK
  <2> QED
    BY <1>2, <2>2, <2>3
<1>3. CASE pos < Len(stream)
  <2>1. /\ NoDelimiterBefore(header, start, pos)
        /\ LineStart(start, pos)
    BY <1>0, <1>1, <1>3 DEF DelimitedProgress
  <2>2. /\ n \in Nat /\ LineEnd(pos, n) \in pos..Len(stream)
    BY <1>0, LineEndBounds
  <2>3. SkipOptionalLF(Len(stream)) = Len(stream)
    BY <1>0 DEF SkipOptionalLF
  <2>6. eof' => LineEnd(pos, n) = Len(stream)
    <3>1. eof' => pos + n = Len(stream)
      BY DEF ReadLine
    <3> QED
      BY <1>0, <3>1 DEF LineEnd
  <2>4. CASE finished' = TRUE
    <3>1. pos' = SkipOptionalLF(LineEnd(pos, n)) /\ Slice(pos, pos + n) = header.delim
      BY <2>4
    <3>2. ResumesAt(header, start, SkipOptionalLF(LineEnd(pos, n)))
      BY <1>0, <2>1, <3>1, DelimiterEnds
    <3> QED
      BY <2>3, <2>4, <2>6, <3>1, <3>2 DEF Progress, DataStep
  <2>5. CASE finished' = FALSE
    <3>0. Slice(pos, pos + n) # header.delim /\ pos' = LineEnd(pos, n)
      BY <1>0, <1>3, <2>5
    <3>1. /\ NoDelimiterBefore(header, start, LineEnd(pos, n))
          /\ LineStart(start, LineEnd(pos, n)) \/ LineEnd(pos, n) = Len(stream)
      BY <1>0, <1>3, <2>1, <3>0, LinePassed
    <3>2. start <= LineEnd(pos, n)
      BY <1>0, <2>2
    <3>3. DelimitedProgress'
      BY <3>0, <3>1 DEF DelimitedProgress, NoDelimiterBefore, DelimiterAt,
         LineStart, IsLine, Slice
    <3>4. Progress'
      BY <3>0, <3>2, <3>3 DEF Progress
    <3>5. DataStep
      BY <2>5 DEF DataStep, IInv, TypeOK
    <3> QED
      BY <2>6, <3>0, <3>4, <3>5
  <2> QED
    BY <2>4, <2>5
<1> QED
  BY <1>0, <1>2, <1>3

\* read.
LEMMA ReadData ==
    ASSUME IInv, NEW t \in Threads, NEW size \in BufSizes, Read(t, size)
    PROVE  Control' /\ Progress' /\ Buffered' /\ DataStep
<1>0. /\ stream \in Seq(Bytes) /\ pos \in 0..Len(stream) /\ Len(stream) \in Nat
      /\ header.len \in Nat /\ len_read \in Nat /\ size \in Nat /\ start \in Nat
      /\ line_buf \in Seq(Bytes) /\ Len(line_buf) \in Nat /\ line_offset \in Nat
  BY LenProperties, DataReaderAssumption DEF IInv, TypeOK, InputTypeOK, HeaderType
<1>1. CASE ReadNothing(t, size) \/ ReadCountedAtEof(t, size)
           \/ ReadNextLineAtEof(t, size)
  <2>1. /\ UNCHANGED <<stream, pos, eof, finished, header, len_read, line_buf,
                       line_offset, start, in_data>>
        /\ blob' /\ ~used' => blob /\ ~used
        /\ call' = "none" /\ Idle
    BY <1>1 DEF ReadNothing, ReadCountedAtEof, ReadNextLineAtEof, CanRead, Return,
                inputVars, stateVars, callerVars, ghostVars
  <2> QED
    BY <2>1, QuietStep
<1>2. CASE ReadCounted(t, size)
  <2>0. /\ ~finished /\ header.is_counted /\ ~eof /\ used' = TRUE /\ call' = "none"
        /\ UNCHANGED <<stream, eof, header, start, in_data>>
    BY <1>2 DEF ReadCounted, CanRead, Return
  <2>1. PICK n \in 0..Smaller(Smaller(header.len - len_read, size), Len(stream) - pos) :
            /\ n = 0 => header.len = len_read \/ pos = Len(stream)
            /\ len_read' = len_read + n
            /\ finished' = (len_read' >= header.len)
            /\ pos' = IF finished' THEN SkipOptionalLF(pos + n) ELSE pos + n
    BY <1>2 DEF ReadCounted
  <2>2. /\ n \in Nat /\ pos + n <= Len(stream)
        /\ n > 0 => len_read + n <= header.len
    BY <1>0, <2>1 DEF Smaller
  <2>3. finished' \in BOOLEAN
    BY <2>1
  <2>4. CASE len_read + n >= header.len
    <3>1. finished' = TRUE /\ pos' = SkipOptionalLF(pos + n)
      BY <2>1, <2>4
    <3>2. Progress' /\ Buffered' /\ DataStep
      BY <2>0, <2>1, <2>2, <2>4, <3>1, CountedStep
    <3>3. Control'
      BY <2>0, <3>1 DEF Control, IInv
    <3> QED
      BY <3>2, <3>3
  <2>5. CASE len_read + n < header.len
    <3>0. ~(len_read' >= header.len)
      BY <1>0, <2>1, <2>2, <2>5
    <3>1. finished' = FALSE /\ pos' = pos + n
      <4>1. ~finished'
        BY <2>1, <3>0
      <4>2. pos' = pos + n
        BY <2>1, <4>1
      <4> QED
        BY <2>3, <4>1, <4>2
    <3>2. n > 0 \/ len_read < header.len
      BY <1>0, <2>2, <2>5
    <3>3. Progress' /\ Buffered' /\ DataStep
      BY <2>0, <2>1, <2>2, <3>1, <3>2, CountedStep
    <3>4. Control'
      BY <2>0, <3>1 DEF Control, IInv
    <3> QED
      BY <3>3, <3>4
  <2> QED
    BY <1>0, <2>2, <2>4, <2>5
<1>3. CASE ReadBufferedLine(t, size)
  <2>1. /\ ~finished /\ ~header.is_counted /\ Idle /\ line_offset < Len(line_buf)
        /\ CopyLine(line_buf, line_offset, size) /\ used' = TRUE
        /\ UNCHANGED <<stream, pos, eof, finished, header, start, in_data>>
    BY <1>3 DEF ReadBufferedLine, CanRead, inputVars
  <2>2. /\ line_offset' <= Len(line_buf') /\ line_offset' \in Nat /\ len_read' \in Nat
        /\ call' = "none"
        /\ \E n \in Nat : line_offset' = line_offset + n /\ len_read' = len_read + n
    <3>1. line_offset <= Len(line_buf)
      BY <1>0, <2>1
    <3>2. TypeOK /\ CopyLine(line_buf, line_offset, size)
      BY <2>1 DEF IInv
    <3> QED
      BY <1>0, <3>1, <3>2, CopyLineType
  <2>3. line_buf' = line_buf
    BY <2>1 DEF CopyLine
  <2>4. Control'
    BY <2>1, <2>2 DEF Control, IInv
  <2>5. Progress'
    BY <2>1 DEF IInv, Progress, DelimitedProgress, NoDelimiterBefore, DelimiterAt,
           LineStart, IsLine, Slice
  <2>6. Buffered'
    <3>1. pos < Len(stream) => pos = start + len_read + (Len(line_buf) - line_offset)
      BY <2>1 DEF IInv, Buffered, Pending
    <3>2. PICK n \in Nat : line_offset' = line_offset + n /\ len_read' = len_read + n
      BY <2>2
    <3>3. start + len_read + (Len(line_buf) - line_offset)
              = start + len_read' + (Len(line_buf) - line_offset')
      BY <1>0, <3>2
    <3>4. pos < Len(stream) => pos = start + len_read' + (Len(line_buf) - line_offset')
      BY <3>1, <3>3
    <3> QED
      BY <2>1, <2>2, <2>3, <3>4 DEF Buffered, Pending, Skipping
  <2>7. DataStep
    BY <2>1 DEF DataStep
  <2> QED
    BY <2>4, <2>5, <2>6, <2>7
<1>4. CASE ReadNextLine(t, size)
  <2>0. /\ ~finished /\ ~header.is_counted /\ Idle /\ line_offset >= Len(line_buf)
        /\ used' = TRUE /\ UNCHANGED <<stream, header, start, in_data>>
    BY <1>4 DEF ReadNextLine, CanRead
  <2>1. PICK n \in 0..(Len(stream) - pos) :
            /\ ReadLine(n)
            /\ IF pos = Len(stream)
               THEN /\ pos' = pos
                    /\ line_buf' = <<>> /\ line_offset' = 0
                    /\ Return("read", "Unterminated", 0)
                    /\ UNCHANGED <<finished, len_read, out>>
               ELSE IF Slice(pos, pos + n) = header.delim
               THEN /\ pos' = SkipOptionalLF(LineEnd(pos, n))
                    /\ line_buf' = Slice(pos, LineEnd(pos, n)) /\ line_offset' = 0
                    /\ finished' = TRUE
                    /\ Return("read", "Ok", 0)
                    /\ UNCHANGED <<len_read, out>>
               ELSE /\ pos' = LineEnd(pos, n)
                    /\ CopyLine(Slice(pos, LineEnd(pos, n)), 0, size)
                    /\ UNCHANGED finished
    BY <1>4 DEF ReadNextLine
  <2>2. finished = FALSE
    BY <2>0 DEF IInv, TypeOK
  <2>3. CASE pos = Len(stream)
    <3>1. finished' = FALSE /\ pos' = pos /\ call' = "none"
      BY <2>1, <2>2, <2>3 DEF Return
    <3>2. Progress' /\ DataStep /\ (eof' => pos' = Len(stream))
      BY <2>0, <2>1, <2>3, <3>1, LineStep
    <3>3. Control'
      BY <2>0, <3>1, <3>2 DEF Control, IInv
    <3>4. Buffered'
      BY <1>0, <2>0, <2>3, <3>1 DEF Buffered
    <3> QED
      BY <3>2, <3>3, <3>4
  <2>4. CASE pos < Len(stream) /\ Slice(pos, pos + n) = header.delim
    <3>1. /\ finished' = TRUE /\ pos' = SkipOptionalLF(LineEnd(pos, n))
          /\ call' = "none"
      BY <1>0, <2>1, <2>4 DEF Return
    <3>2. Progress' /\ DataStep /\ (eof' => pos' = Len(stream))
      BY <2>0, <2>1, <2>4, <3>1, LineStep
    <3>3. Control'
      BY <2>0, <3>1, <3>2 DEF Control, IInv
    <3>4. Buffered'
      BY <3>1 DEF Buffered
    <3> QED
      BY <3>2, <3>3, <3>4
  <2>5. CASE pos < Len(stream) /\ Slice(pos, pos + n) # header.delim
    <3>1. /\ finished' = FALSE /\ pos' = LineEnd(pos, n)
          /\ CopyLine(Slice(pos, LineEnd(pos, n)), 0, size)
      BY <1>0, <2>1, <2>2, <2>5
    <3>2. Progress' /\ DataStep /\ (eof' => pos' = Len(stream))
      BY <2>0, <2>1, <2>5, <3>1, LineStep
    <3>3. /\ Slice(pos, LineEnd(pos, n)) \in Seq(Bytes)
          /\ Len(Slice(pos, LineEnd(pos, n))) = LineEnd(pos, n) - pos
          /\ LineEnd(pos, n) \in pos..Len(stream)
      BY <2>1, ReadLineType DEF IInv
    <3>4. /\ line_offset' \in Nat /\ line_offset' <= Len(line_buf')
          /\ len_read' \in Nat /\ call' = "none"
          /\ \E c \in Nat : line_offset' = 0 + c /\ len_read' = len_read + c
      BY <1>0, <3>1, <3>3, CopyLineType DEF IInv
    <3>5. Len(line_buf') = LineEnd(pos, n) - pos
      BY <3>1, <3>3 DEF CopyLine
    <3>6. Control'
      BY <2>0, <3>1, <3>2, <3>4 DEF Control, IInv
    <3>7. Buffered'
      <4>1. /\ line_offset <= Len(line_buf)
            /\ pos = start + len_read + (Len(line_buf) - line_offset)
        BY <2>0, <2>5 DEF IInv, Buffered, Pending
      <4>2. pos = start + len_read
        BY <1>0, <2>0, <4>1
      <4>3. pos' = start + len_read' + (Len(line_buf') - line_offset')
        <5>1. PICK c \in Nat : line_offset' = 0 + c /\ len_read' = len_read + c
          BY <3>4
        <5>2. LineEnd(pos, n)
                  = start + len_read' + ((LineEnd(pos, n) - pos) - line_offset')
          BY <1>0, <3>3, <4>2, <5>1
        <5> QED
          BY <3>1, <3>5, <5>2
      <4> QED
        BY <2>0, <3>4, <4>3 DEF Buffered, Pending, Skipping
    <3> QED
      BY <3>2, <3>6, <3>7
  <2> QED
    BY <1>0, <2>3, <2>4, <2>5
<1> QED
  BY <1>1, <1>2, <1>3, <1>4 DEF Read

\* skip_data, from its call to its end.
LEMMA SkipData ==
    ASSUME IInv, SkipStep \/ NextSkip \/ \E t \in Threads : SkipRest(t)
    PROVE  Control' /\ Progress' /\ Buffered' /\ DataStep
<1>0. /\ stream \in Seq(Bytes) /\ pos \in 0..Len(stream) /\ Len(stream) \in Nat
      /\ header.len \in Nat /\ len_read \in Nat /\ start \in Nat
      /\ Len(line_buf) \in Nat /\ line_offset \in Nat
  BY LenProperties DEF IInv, TypeOK, InputTypeOK, HeaderType
<1>1. CASE NextSkip \/ \E t \in Threads : SkipRest(t)
  <2>1. PICK op \in {"skip_rest", "next"} :
            /\ SkipBegin(op)
            /\ Idle /\ ~finished
            /\ op = "skip_rest" => used'
            /\ op = "next" => blob' = FALSE
            /\ blob' /\ ~used' => blob /\ ~used
    BY <1>1 DEF NextSkip, SkipRest, callerVars
  <2>2. /\ call' \in {op, "panicked"}
        /\ \/ len_read' = len_read
           \/ ~header.is_counted /\ len_read' = len_read + Pending
        /\ ~header.is_counted /\ call' = op => len_read' = len_read + Pending
        /\ UNCHANGED <<stream, pos, eof, finished, header, line_buf,
                       line_offset, start, in_data>>
    BY <2>1 DEF SkipBegin, inputVars
  <2>3. Control'
    BY <2>1, <2>2 DEF Control, IInv
  <2>4. Progress'
    BY <2>1, <2>2 DEF IInv, Progress, CountedProgress, DelimitedProgress,
       NoDelimiterBefore, DelimiterAt, LineStart, IsLine, Slice
  <2>5. Buffered'
    <3>1. ~header.is_counted /\ pos < Len(stream) => pos = start + len_read + Pending
      BY <2>1 DEF IInv, Buffered
    <3>2. Pending \in Int
      BY <1>0 DEF Pending
    <3>3. ASSUME ~header.is_counted, pos < Len(stream), call' = op
          PROVE  pos = start + len_read'
      <4>1. len_read' = len_read + Pending
        BY <2>2, <3>3
      <4>2. pos = start + len_read + Pending
        BY <3>1, <3>3
      <4> QED
        BY <1>0, <3>2, <4>1, <4>2
    <3> QED
      BY <2>2, <3>3 DEF Buffered, Idle, Skipping
  <2>6. DataStep
    BY <2>1, <2>2 DEF DataStep
  <2> QED
    BY <2>3, <2>4, <2>5, <2>6
<1>2. ASSUME SkipStep
      PROVE  Skipping /\ ~finished
  BY <1>2 DEF SkipStep, SkipChunk, SkipCountedShort, SkipCountedEnd, SkipLineAtEof,
     SkipLine, Skipping, IInv, Control
<1>3. CASE SkipChunk
  <2>1. PICK n \in 1..Smaller(header.len - len_read, Len(stream) - pos) :
            pos' = pos + n /\ len_read' = len_read + n
    BY <1>3 DEF SkipChunk
  <2>2. n \in Nat /\ n > 0 /\ pos + n <= Len(stream) /\ len_read + n <= header.len
    BY <1>0, <2>1 DEF Smaller
  <2>3. /\ UNCHANGED <<stream, eof, finished, header, start, in_data, call, blob, used>>
        /\ header.is_counted /\ pos < Len(stream)
    BY <1>3 DEF SkipChunk, callerVars, ghostVars
  <2>4. ~finished /\ finished' = FALSE /\ Skipping
    BY <1>2, <1>3, <2>3 DEF SkipStep, IInv, TypeOK
  <2>5. Progress' /\ Buffered' /\ DataStep
    BY <2>1, <2>2, <2>3, <2>4, CountedStep
  <2>6. ~eof
    BY <1>0, <2>3 DEF IInv, Control
  <2>7. blob => used
    BY <2>4 DEF IInv, Ownership, Skipping
  <2>8. Control'
    BY <2>3, <2>4, <2>6, <2>7 DEF Control, Skipping, IInv
  <2> QED
    BY <2>5, <2>8
<1>4. CASE SkipCountedShort
  <2>1. /\ UNCHANGED <<stream, pos, finished, header, start, in_data, len_read, blob, used>>
        /\ header.is_counted /\ pos = Len(stream) /\ call' = "none"
    BY <1>4 DEF SkipCountedShort, Return, stateVars, callerVars, ghostVars
  <2>2. Control'
    BY <2>1 DEF Control, IInv
  <2>3. Progress'
    BY <2>1 DEF IInv, Progress, CountedProgress
  <2> QED
    BY <2>1, <2>2, <2>3 DEF Buffered, DataStep
<1>5. CASE SkipCountedEnd
  <2>1. /\ UNCHANGED <<stream, eof, header, start, in_data, len_read, blob, used>>
        /\ header.is_counted /\ finished' = TRUE /\ pos' = SkipOptionalLF(pos)
        /\ len_read >= header.len
        /\ call' = IF call = "next" THEN "parse" ELSE "none"
    BY <1>5 DEF SkipCountedEnd, SkipEnd, Return, callerVars, ghostVars
  <2>2. /\ pos + 0 = pos /\ pos + 0 <= Len(stream) /\ len_read' = len_read + 0
        /\ ~finished /\ Skipping
    BY <1>0, <1>2, <1>5, <2>1 DEF SkipStep
  <2>3. Progress' /\ Buffered' /\ DataStep
    <3>1. pos' = SkipOptionalLF(pos + 0)
      BY <2>1, <2>2
    <3>2. len_read' >= header.len
      BY <2>1
    <3> QED
      BY <2>1, <2>2, <3>1, <3>2, CountedStep
  <2>4. eof' => pos' = Len(stream)
    BY <1>0, <2>1 DEF IInv, Control, SkipOptionalLF
  <2>5. blob' => used'
    BY <2>1, <2>2 DEF IInv, Ownership, Skipping
  <2>6. Control'
    BY <1>2, <1>5, <2>1, <2>4, <2>5 DEF Control, IInv, SkipStep
  <2> QED
    BY <2>3, <2>6
<1>6. CASE SkipLineAtEof
  <2>1. /\ UNCHANGED <<stream, pos, eof, finished, header, len_read, line_buf,
                       line_offset, start, in_data, blob, used>>
        /\ call' = "none" /\ eof
    BY <1>6 DEF SkipLineAtEof, Return, inputVars, stateVars, callerVars, ghostVars
  <2> QED
    BY <2>1, QuietStep
<1>7. CASE SkipLine
  <2>0. /\ UNCHANGED <<stream, header, start, in_data, blob, used>>
        /\ ~header.is_counted /\ ~finished /\ Skipping /\ finished = FALSE
    BY <1>2, <1>7 DEF SkipLine, SkipStep, callerVars, ghostVars, IInv, TypeOK
  <2>1. PICK n \in 0..(Len(stream) - pos) :
            /\ ReadLine(n)
            /\ line_buf' = Slice(pos, LineEnd(pos, n))
            /\ IF pos = Len(stream)
               THEN /\ pos' = pos
                    /\ Return(call, "Unterminated", 0)
                    /\ UNCHANGED <<finished, len_read>>
               ELSE IF Slice(pos, pos + n) = header.delim
               THEN /\ pos' = SkipOptionalLF(LineEnd(pos, n))
                    /\ finished' = TRUE
                    /\ SkipEnd(len_read - start_len)
                    /\ UNCHANGED len_read
               ELSE /\ pos' = LineEnd(pos, n)
                    /\ len_read' = len_read + Len(line_buf')
                    /\ UNCHANGED <<call, ret, finished>>
    BY <1>7 DEF SkipLine
  <2>2. blob => used
    BY <2>0 DEF IInv, Ownership, Skipping
  <2>3. CASE pos = Len(stream)
    <3>1. finished' = FALSE /\ pos' = pos /\ call' = "none"
      BY <2>0, <2>1, <2>3 DEF Return
    <3>2. Progress' /\ DataStep /\ (eof' => pos' = Len(stream))
      BY <2>0, <2>1, <2>3, <3>1, LineStep
    <3>3. Control'
      BY <2>0, <2>2, <3>1, <3>2 DEF Control, IInv
    <3>4. Buffered'
      BY <1>0, <2>0, <2>3, <3>1 DEF Buffered
    <3> QED
      BY <3>2, <3>3, <3>4
  <2>4. CASE pos < Len(stream) /\ Slice(pos, pos + n) = header.delim
    <3>1. /\ finished' = TRUE /\ pos' = SkipOptionalLF(LineEnd(pos, n))
          /\ call' \in {"none", "parse"}
      BY <1>0, <2>1, <2>4 DEF SkipEnd, Return
    <3>2. Progress' /\ DataStep /\ (eof' => pos' = Len(stream))
      BY <2>0, <2>1, <2>4, <3>1, LineStep
    <3>3. Control'
      BY <2>0, <2>2, <3>1, <3>2 DEF Control, IInv
    <3>4. Buffered'
      BY <3>1 DEF Buffered
    <3> QED
      BY <3>2, <3>3, <3>4
  <2>5. CASE pos < Len(stream) /\ Slice(pos, pos + n) # header.delim
    <3>1. /\ finished' = FALSE /\ pos' = LineEnd(pos, n) /\ call' = call
          /\ len_read' = len_read + Len(line_buf')
      BY <1>0, <2>0, <2>1, <2>5
    <3>2. Progress' /\ DataStep /\ (eof' => pos' = Len(stream))
      BY <2>0, <2>1, <2>5, <3>1, LineStep
    <3>3. /\ Len(line_buf') = LineEnd(pos, n) - pos
          /\ LineEnd(pos, n) \in pos..Len(stream)
      BY <2>1, ReadLineType DEF IInv
    <3>4. Control'
      BY <2>0, <2>2, <3>1, <3>2 DEF Control, IInv
    <3>5. Buffered'
      <4>1. pos = start + len_read
        BY <2>0, <2>5 DEF IInv, Buffered
      <4>2. pos' = start + len_read'
        BY <1>0, <3>1, <3>3, <4>1
      <4> QED
        BY <2>0, <3>1, <4>2 DEF Buffered, Idle, Skipping
    <3> QED
      BY <3>2, <3>4, <3>5
  <2> QED
    BY <1>0, <2>3, <2>4, <2>5
<1> QED
  BY <1>1, <1>3, <1>4, <1>5, <1>6, <1>7 DEF SkipStep

\* read_to_end, of a data stream that has not been read yet.
LEMMA ReadToEndData ==
    ASSUME IInv, OneRead,
           \/ SlurpLine \/ SlurpLineAtEof
           \/ \E t \in Threads : ReadToEndCounted(t) \/ ReadToEndDelimited(t)
    PROVE  Control' /\ Progress' /\ Buffered' /\ DataStep
<1>0. /\ stream \in Seq(Bytes) /\ pos \in 0..Len(stream) /\ Len(stream) \in Nat
      /\ header \in HeaderType /\ header.len \in Nat /\ len_read \in Nat
      /\ start \in 0..Len(stream)
  BY LenProperties DEF IInv, TypeOK, InputTypeOK, HeaderType
<1>1. ASSUME NEW t \in Threads, MayReadToEnd(t)
      PROVE  ~finished /\ finished = FALSE /\ pos = start /\ in_data /\ Idle
  BY <1>1 DEF MayReadToEnd, IInv, Control, Ownership, ExclusiveReader, TypeOK
<1>2. CASE \E t \in Threads : ReadToEndCounted(t)
  <2>0. /\ ~finished /\ finished = FALSE /\ pos = start /\ in_data
        /\ header.is_counted /\ used' = TRUE /\ call' = "none"
        /\ UNCHANGED <<stream, eof, header, start, in_data>>
    BY <1>1, <1>2 DEF ReadToEndCounted, Return
  <2> DEFINE n == Smaller(header.len, Len(stream) - pos)
  <2>1. /\ n \in Nat /\ pos + n <= Len(stream) /\ n <= header.len
        /\ n < header.len => pos + n = Len(stream)
    BY <1>0 DEF Smaller
  <2>2. IF n < header.len
        THEN pos' = pos + n /\ UNCHANGED <<finished, len_read>>
        ELSE pos' = SkipOptionalLF(pos + n) /\ finished' = TRUE
    BY <1>2 DEF ReadToEndCounted
  <2> HIDE DEF n
  <2>3. CASE n < header.len
    <3>1. /\ pos' = Len(stream) /\ pos + n = Len(stream)
          /\ finished' = FALSE /\ len_read' = len_read
      BY <2>0, <2>1, <2>2, <2>3
    <3>2. CountedProgress
      BY <2>0 DEF IInv, Progress
    <3>3. len_read < header.len
      BY <1>0, <2>0, <2>1, <2>3, <3>2 DEF CountedProgress
    <3>4. Progress'
      BY <1>0, <2>0, <3>1, <3>3 DEF Progress, CountedProgress
    <3>5. Control'
      BY <2>0, <3>1 DEF Control, IInv
    <3> QED
      BY <2>0, <3>1, <3>4, <3>5 DEF Buffered, DataStep
  <2>4. CASE ~(n < header.len)
    <3>1. n = header.len /\ pos' = SkipOptionalLF(pos + n) /\ finished' = TRUE
      BY <1>0, <2>1, <2>2, <2>4
    <3>2. start \in Nat /\ pos + n \in start..Len(stream) /\ pos + n = start + header.len
      BY <1>0, <2>0, <2>1, <3>1
    <3>3. ResumesAt(header, start, SkipOptionalLF(pos + n))
      BY <1>0, <2>0, <3>2, CountedEnds
    <3>4. eof' => pos' = Len(stream)
      <4>1. eof => pos + n = Len(stream)
        BY <1>0, <2>1 DEF IInv, Control
      <4>2. SkipOptionalLF(Len(stream)) = Len(stream)
        BY <1>0 DEF SkipOptionalLF
      <4> QED
        BY <2>0, <3>1, <4>1, <4>2
    <3>5. Control'
      BY <2>0, <3>1, <3>4 DEF Control, IInv
    <3> QED
      BY <2>0, <3>1, <3>3, <3>5 DEF Progress, Buffered, DataStep
  <2> QED
    BY <2>3, <2>4
<1>3. CASE \E t \in Threads : ReadToEndDelimited(t)
  <2>1. /\ UNCHANGED <<stream, pos, eof, finished, header, len_read, line_buf,
                       line_offset, start, in_data>>
        /\ used' = TRUE /\ call' = "read_to_end" /\ ~finished /\ ~header.is_counted
    BY <1>1, <1>3 DEF ReadToEndDelimited, inputVars, stateVars
  <2> QED
    BY <2>1, QuietStep
<1>4. CASE SlurpLineAtEof
  <2>1. /\ UNCHANGED <<stream, pos, eof, finished, header, len_read, line_buf,
                       line_offset, start, in_data, blob, used>>
        /\ call' = "panicked"
    BY <1>4 DEF SlurpLineAtEof, inputVars, stateVars, callerVars, ghostVars
  <2> QED
    BY <2>1, QuietStep
<1>5. CASE SlurpLine
  <2>0. /\ call = "read_to_end"
        /\ UNCHANGED <<stream, header, start, in_data, blob, used>>
    BY <1>5 DEF SlurpLine, callerVars
  <2>1. ~finished /\ finished = FALSE /\ ~header.is_counted /\ used
    BY <2>0 DEF IInv, Control, Ownership, TypeOK
  <2>2. PICK n \in 0..(Len(stream) - pos) :
            /\ ReadLine(n)
            /\ IF pos = Len(stream)
               THEN /\ pos' = pos
                    /\ Return("read_to_end", "Unterminated", 0)
                    /\ UNCHANGED <<finished, len_read, slurped, out>>
               ELSE IF Slice(pos, pos + n) = header.delim
               THEN /\ pos' = SkipOptionalLF(LineEnd(pos, n))
                    /\ finished' = TRUE
                    /\ len_read' = len_read + slurped
                    /\ out' = out \o Slice(pos - slurped, pos)
                    /\ Return("read_to_end", "Ok", slurped)
                    /\ UNCHANGED slurped
               ELSE /\ pos' = LineEnd(pos, n)
                    /\ slurped' = slurped + (pos' - pos)
                    /\ UNCHANGED <<call, ret, finished, len_read, out>>
    BY <1>5 DEF SlurpLine
  <2>3. /\ \/ finished' = FALSE /\ pos = Len(stream) /\ pos' = pos /\ call' = "none"
           \/ /\ finished' = TRUE /\ pos < Len(stream) /\ call' = "none"
              /\ Slice(pos, pos + n) = header.delim
              /\ pos' = SkipOptionalLF(LineEnd(pos, n))
           \/ /\ finished' = FALSE /\ pos < Len(stream) /\ call' = "read_to_end"
              /\ Slice(pos, pos + n) # header.delim
              /\ pos' = LineEnd(pos, n)
    BY <1>0, <2>0, <2>1, <2>2 DEF Return
  <2>4. Progress' /\ DataStep /\ (eof' => pos' = Len(stream))
    BY <2>0, <2>1, <2>2, <2>3, LineStep
  <2>5. Control'
    BY <2>0, <2>1, <2>3, <2>4 DEF Control, IInv
  <2>6. Buffered'
    BY <1>0, <2>0, <2>3 DEF Buffered, Idle, Skipping
  <2> QED
    BY <2>4, <2>5, <2>6
<1> QED
  BY <1>2, <1>3, <1>4, <1>5

\* There is nothing yet at the position where a data stream begins.
LEMMA NothingFrom ==
    ASSUME NEW p \in Nat
    PROVE  p = p + 0 /\ \A q \in p..(p - 1) : FALSE
OBVIOUS

\* A data stream that begins has not been read, whatever was the matter with
\* the one before.
LEMMA BlobBegins ==
    ASSUME TypeOK, NEW h \in Headers, ParseBlob(h)
    PROVE  Progress' /\ Buffered'
<1>1. PICK n \in 0..(Len(stream) - pos) : ReadLine(n) /\ pos' = LineEnd(pos, n)
  BY DEF ParseBlob
<1>2. /\ stream' = stream /\ finished' = FALSE /\ header' = h /\ len_read' = 0
      /\ start' = pos' /\ call' = "none"
      /\ ~h.is_counted => line_buf' = <<>> /\ line_offset' = 0
  BY DEF ParseBlob, Return
<1>3. pos' \in Nat /\ h.len \in Nat
  <2>1. pos' \in pos..Len(stream)
    BY <1>1, ReadLineType
  <2>2. pos \in Nat /\ Len(stream) \in Nat
    BY LenProperties DEF TypeOK, InputTypeOK
  <2> QED
    BY <2>1, <2>2, DataReaderAssumption DEF HeaderType
<1>4. Progress'
  <2>1. CASE h.is_counted
    <3>1. pos' = pos' + 0
      BY <1>3, NothingFrom
    <3>2. 0 <= h.len
      BY <1>3
    <3>3. pos' = start' + len_read' /\ len_read' <= header'.len
      BY <1>2, <3>1, <3>2
    <3>4. start' <= pos'
      BY <1>2, <1>3
    <3> QED
      BY <1>2, <2>1, <3>3, <3>4 DEF Progress, CountedProgress
  <2>2. CASE ~h.is_counted
    <3>1. \A q \in pos'..(pos' - 1) : FALSE
      BY <1>3, NothingFrom
    <3>2. NoDelimiterBefore(header, start, pos)'
      BY <1>2, <3>1 DEF NoDelimiterBefore
    <3>3. LineStart(start, pos)'
      BY <1>2 DEF LineStart
    <3>4. DelimitedProgress'
      BY <3>2, <3>3 DEF DelimitedProgress
    <3> QED
      BY <1>2, <1>3, <2>2, <3>4 DEF Progress
  <2> QED
    BY <2>1, <2>2
<1>5. Buffered'
  BY <1>2, <1>3 DEF Buffered, Pending, Idle, Skipping
<1> QED
  BY <1>4, <1>5

\* next, but for its skip of the data.
LEMMA ParseData ==
    ASSUME IInv,
           \/ NextUnfinished \/ NextParse \/ ParseOther \/ ParseEof
           \/ \E h \in Headers : ParseBlob(h)
    PROVE  Control' /\ Progress' /\ Buffered' /\ DataStep
<1>0. /\ stream \in Seq(Bytes) /\ pos \in 0..Len(stream) /\ Len(stream) \in Nat
  BY LenProperties DEF IInv, TypeOK, InputTypeOK
<1>1. CASE NextUnfinished \/ NextParse
  <2>1. /\ UNCHANGED <<stream, pos, eof, finished, header, len_read, line_buf,
                       line_offset, start, in_data>>
        /\ blob' = FALSE
        /\ \/ call' = "none" /\ Idle
           \/ call' = "parse" /\ finished
    BY <1>1 DEF NextUnfinished, NextParse, Return, inputVars, stateVars, ghostVars
  <2> QED
    BY <2>1, QuietStep
<1>2. CASE ParseEof
  <2>1. /\ UNCHANGED <<stream, pos, eof, finished, header, len_read, line_buf,
                       line_offset, start, in_data, blob, used>>
        /\ call' = "none" /\ eof
    BY <1>2 DEF ParseEof, Return, inputVars, stateVars, callerVars, ghostVars
  <2> QED
    BY <2>1, QuietStep
<1>3. CASE ParseOther
  <2>1. PICK n \in 0..(Len(stream) - pos) :
            ReadLine(n) /\ pos' = LineEnd(pos, n) /\ call' = "none"
    BY <1>3 DEF ParseOther, Return
  <2>2. UNCHANGED <<stream, finished, header, blob>> /\ call = "parse"
    BY <1>3 DEF ParseOther, stateVars, callerVars
  <2>3. finished /\ ~blob
    BY <2>2 DEF IInv, Control, Ownership
  <2>4. eof' => pos' = Len(stream)
    <3>1. (eof' => pos + n = Len(stream)) /\ IsLine(pos, n)
      BY <2>1 DEF ReadLine
    <3>2. n \in Nat
      BY <1>0, <3>1, LineEndBounds
    <3> QED
      BY <1>0, <2>1, <3>1, <3>2 DEF LineEnd
  <2>5. Control'
    BY <2>1, <2>2, <2>3, <2>4 DEF Control
  <2> QED
    BY <1>3, <2>2, <2>3, <2>5 DEF Progress, Buffered, DataStep
<1>4. CASE \E h \in Headers : ParseBlob(h)
  <2>1. PICK h \in Headers : ParseBlob(h)
    BY <1>4
  <2>2. PICK n \in 0..(Len(stream) - pos) :
            ReadLine(n) /\ pos' = LineEnd(pos, n)
    BY <2>1 DEF ParseBlob
  <2>3. /\ stream' = stream /\ finished' = FALSE /\ header' = h /\ len_read' = 0
        /\ start' = pos' /\ in_data' = TRUE /\ used' = FALSE /\ call' = "none"
        /\ ~h.is_counted => line_buf' = <<>> /\ line_offset' = 0
    BY <2>1 DEF ParseBlob, Return
  <2>5. eof' => pos' = Len(stream)
    <3>1. (eof' => pos + n = Len(stream)) /\ IsLine(pos, n)
      BY <2>2 DEF ReadLine
    <3>2. n \in Nat
      BY <1>0, <3>1, LineEndBounds
    <3> QED
      BY <1>0, <2>2, <3>1, <3>2 DEF LineEnd
  <2>6. Control'
    BY <2>3, <2>5 DEF Control
  <2>7. Progress' /\ Buffered'
    BY <2>1, BlobBegins DEF IInv
  <2>9. DataStep
    BY <2>1 DEF DataStep
  <2> QED
    BY <2>6, <2>7, <2>9
<1> QED
  BY <1>1, <1>2, <1>3, <1>4

\* Every step keeps the invariant and does one of DataStep's things to the data.
LEMMA IInvStep ==
    ASSUME OneRead, IInv, [Next]_vars
    PROVE  IInv' /\ DataStep
<1>1. TypeOK' /\ Ownership'
  BY TypeOKStep, OwnershipStep DEF IInv
<1>2. Control' /\ Progress' /\ Buffered' /\ DataStep
  <2>1. CASE ParserStep
    BY <2>1, SkipData, ParseData DEF ParserStep
  <2>2. CASE LoopStep
    BY <2>2, SkipData, ReadToEndData DEF LoopStep
  <2>3. CASE \E t \in Threads : ReaderStep(t)
    <3>1. PICK t \in Threads : ReaderStep(t)
      BY <2>3
    <3>2. CASE \E size \in BufSizes : Read(t, size)
      BY <3>2, ReadData
    <3>3. CASE SkipRest(t) \/ ReadToEndCounted(t) \/ ReadToEndDelimited(t)
      BY <3>3, SkipData, ReadToEndData
    <3>4. CASE Open(t) \/ Close(t) \/ SkipNothing(t)
      <4>1. /\ UNCHANGED <<stream, pos, eof, finished, header, len_read, line_buf,
                           line_offset, start, in_data, blob, used>>
            /\ \/ call' = call
               \/ call' = "none" /\ Idle
        BY <3>4 DEF Open, Close, SkipNothing, Return, inputVars, stateVars,
                    callerVars, ghostVars
      <4> QED
        BY <4>1, QuietStep
    <3> QED
      BY <3>1, <3>2, <3>3, <3>4 DEF ReaderStep
  <2>4. CASE UNCHANGED vars
    <3>1. UNCHANGED <<stream, pos, eof, finished, header, len_read, line_buf,
                      line_offset, start, in_data, blob, used, call>>
      BY <2>4 DEF vars, inputVars, stateVars, callerVars, ghostVars
    <3> QED
      BY <3>1, QuietStep
  <2> QED
    BY <2>1, <2>2, <2>3, <2>4 DEF Next
<1> QED
  BY <1>1, <1>2 DEF IInv

\* The invariant holds at first.
LEMMA IInvInit ==
    ASSUME Init
    PROVE  IInv
<1>1. stream \in Seq(Bytes) /\ Len(stream) \in Nat
  BY LinesAssumption, LenProperties DEF Init, InputInit
<1>2. Ownership /\ Control /\ Progress /\ Buffered
  BY DEF Init, InputInit, Ownership, ExclusiveReader, Control, Progress, Buffered
<1> QED
  BY <1>2, TypeOKInit DEF IInv

\* The position that a finished data stream leaves stays right until the next
\* directive is read.
LEMMA ResumesStep ==
    ASSUME DataStep, ResumesAfterData
    PROVE  ResumesAfterData'
<1>1. CASE ParseOther
  BY <1>1 DEF ParseOther, ResumesAfterData
<1>2. CASE \E h \in Headers : ParseBlob(h)
  BY <1>2 DEF ParseBlob, ResumesAfterData
<1>3. CASE /\ UNCHANGED <<stream, header, start, in_data>>
           /\ finished' = finished /\ (finished => pos' = pos)
  <2>1. CASE finished
    BY <1>3, <2>1 DEF ResumesAfterData, ResumesAt, ContentsEnd, DelimiterAt,
       NoDelimiterBefore, LineStart, IsLine, Slice, SkipOptionalLF, LineEnd
  <2>2. CASE ~finished
    BY <1>3, <2>2 DEF ResumesAfterData
  <2> QED
    BY <2>1, <2>2
<1>4. CASE /\ UNCHANGED <<stream, header, start, in_data>>
           /\ ~finished /\ finished' = TRUE /\ ResumesAt(header, start, pos')
  <2>1. ResumesAt(header, start, pos)'
    BY <1>4 DEF ResumesAt, ContentsEnd, DelimiterAt, NoDelimiterBefore,
       LineStart, IsLine, Slice, SkipOptionalLF, LineEnd
  <2> QED
    BY <2>1 DEF ResumesAfterData
<1> QED
  BY <1>1, <1>2, <1>3, <1>4 DEF DataStep

\* However the data of a blob is read, in pieces of any sizes by any thread, in
\* one go, skipped in part or in whole, and whatever errors a cut-short stream
\* has given on the way: a data stream that is finished has been left exactly
\* where its own header says the next directive begins.
THEOREM ResumesAfterTheData ==
    ASSUME OneRead
    PROVE  Spec => []ResumesAfterData
<1>1. Init => IInv /\ ResumesAfterData
  BY IInvInit DEF Init, ResumesAfterData
<1>2. IInv /\ ResumesAfterData /\ [Next]_vars => (IInv /\ ResumesAfterData)'
  BY IInvStep, ResumesStep
<1> QED
  BY <1>1, <1>2, PTL DEF Spec

\* The invariant has the count of what has been consumed.
LEMMA InvAccounted ==
    ASSUME IInv
    PROVE  Accounted
<1> SUFFICES ASSUME Idle, in_data, ~finished, pos < Len(stream)
             PROVE  pos = start + len_read + (IF header.is_counted THEN 0 ELSE Pending)
  BY DEF Accounted
<1>1. start \in Nat /\ len_read \in Nat /\ pos \in Nat /\ Len(stream) \in Nat
  BY LenProperties DEF IInv, TypeOK, InputTypeOK
<1>2. CASE header.is_counted
  BY <1>1, <1>2 DEF IInv, Progress, CountedProgress
<1>3. CASE ~header.is_counted
  BY <1>1, <1>3 DEF IInv, Buffered
<1> QED
  BY <1>2, <1>3

\* What read and skip_rest have counted, and what the buffered line still holds,
\* is what has been consumed of the data stream.
THEOREM ConsumedIsAccountedFor ==
    ASSUME OneRead
    PROVE  Spec => []Accounted
<1>1. Init => IInv
  BY IInvInit
<1>2. IInv /\ [Next]_vars => IInv'
  BY IInvStep
<1>3. IInv => Accounted
  BY InvAccounted
<1> QED
  BY <1>1, <1>2, <1>3, PTL DEF Spec

\* Once a data stream is finished, no call of its reader moves the input, if
\* callers use read_to_end only on a reader they have not used yet.
THEOREM FinishedStaysPut ==
    ASSUME OneRead
    PROVE  Spec => FinishedIsFinal
<1>1. Init => IInv
  BY IInvInit
<1>2. IInv /\ [Next]_vars => IInv'
  BY IInvStep
<1>3. IInv /\ [Next]_vars =>
          [finished /\ in_data /\ in_data' /\ finished' => pos' = pos]_vars
  <2> SUFFICES ASSUME IInv, [Next]_vars, finished, in_data, in_data', finished'
               PROVE  pos' = pos
    OBVIOUS
  <2>1. DataStep
    BY IInvStep
  <2> QED
    BY <2>1 DEF DataStep, ParseOther, ParseBlob
<1> QED
  BY <1>1, <1>2, <1>3, PTL DEF Spec, FinishedIsFinal

\* A step that reads a directive is one of Framing,
LEMMA DirectiveIsFramed ==
    ASSUME TypeOK, Control, ParseOther \/ \E h \in Headers : ParseBlob(h)
    PROVE  Frames!Next
<1>1. CASE ParseOther
  <2>1. finished /\ finished' /\ UNCHANGED <<stream, header>>
    BY <1>1 DEF ParseOther, stateVars, Control
  <2>2. finished = TRUE /\ finished' = TRUE
    BY <1>1, <2>1 DEF TypeOK, ParseOther, stateVars
  <2>3. PICK n \in 0..(Len(stream) - pos) : IsLine(pos, n) /\ pos' = LineEnd(pos, n)
    BY <1>1 DEF ParseOther, ReadLine
  <2>4. Frames!Directive
    BY <2>1, <2>2, <2>3 DEF Frames!Directive, Frames!IsLine, Frames!LineEnd, IsLine, LineEnd
  <2> QED
    BY <2>4 DEF Frames!Next
<1>2. CASE \E h \in Headers : ParseBlob(h)
  <2>1. /\ finished = TRUE /\ finished' = FALSE /\ stream' = stream
        /\ header' \in Headers /\ start' = pos'
    BY <1>2 DEF ParseBlob, Control, TypeOK
  <2>2. PICK n \in 0..(Len(stream) - pos) : IsLine(pos, n) /\ pos' = LineEnd(pos, n)
    BY <1>2 DEF ParseBlob, ReadLine
  <2>3. Frames!Directive
    BY <2>1, <2>2 DEF Frames!Directive, Frames!IsLine, Frames!LineEnd, IsLine, LineEnd
  <2> QED
    BY <2>3 DEF Frames!Next
<1> QED
  BY <1>1, <1>2

\* and so is one that finishes a data stream where it should,
LEMMA DataIsFramed ==
    ASSUME UNCHANGED <<stream, header>>, ~finished, finished' = TRUE,
           ResumesAt(header, start, pos')
    PROVE  Frames!Next
<1>1. Frames!ResumesAt(header, start, pos')
  BY DEF ResumesAt, ContentsEnd, DelimiterAt, NoDelimiterBefore, LineStart,
     IsLine, Slice, SkipOptionalLF, LineEnd, Frames!ResumesAt,
     Frames!ContentsEnd, Frames!DelimiterAt, Frames!NoDelimiterBefore,
     Frames!LineStart, Frames!IsLine, Frames!Slice, Frames!SkipOptionalLF,
     Frames!LineEnd
<1>2. Frames!Data
  BY <1>1 DEF Frames!Data
<1> QED
  BY <1>2 DEF Frames!Next

\* while reading on, and anything after the data, is nothing to it.
LEMMA StutterIsFramed ==
    ASSUME UNCHANGED <<stream, header>>, finished \in BOOLEAN, finished' = finished,
           IF finished THEN pos' = pos ELSE start' = start
    PROVE  UNCHANGED Frames!framingVars
BY DEF Frames!framingVars

\* The data reader and the parser above it implement Framing: whatever the
\* callers do, the stream is cut into directives and data streams in one way.
THEOREM DataReaderImplementsFraming ==
    ASSUME OneRead
    PROVE  Spec => ImplementsFraming
<1>1. Init => IInv /\ Frames!Init
  BY IInvInit DEF Init, InputInit, Frames!Init, Frames!Delimited, Delimited
<1>2. IInv /\ [Next]_vars => IInv' /\ [Frames!Next]_Frames!framingVars
  <2> SUFFICES ASSUME IInv, [Next]_vars
               PROVE  IInv' /\ [Frames!Next]_Frames!framingVars
    OBVIOUS
  <2>1. IInv' /\ DataStep
    BY IInvStep
  <2>2. finished \in BOOLEAN /\ finished' \in BOOLEAN
    BY <2>1 DEF IInv, TypeOK
  <2>3. CASE ParseOther \/ \E h \in Headers : ParseBlob(h)
    BY <2>1, <2>3, DirectiveIsFramed DEF IInv
  <2>4. CASE /\ UNCHANGED <<stream, header, start, in_data>>
             /\ finished' = finished /\ (finished => pos' = pos)
    BY <2>1, <2>2, <2>4, StutterIsFramed
  <2>5. CASE /\ UNCHANGED <<stream, header, start, in_data>>
             /\ ~finished /\ finished' = TRUE /\ ResumesAt(header, start, pos')
    BY <2>1, <2>5, DataIsFramed
  <2> QED
    BY <2>1, <2>3, <2>4, <2>5 DEF DataStep
<1> QED
  BY <1>1, <1>2, PTL DEF Spec, ImplementsFraming, Frames!Spec
=============================================================================
