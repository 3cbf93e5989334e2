----------------------------- MODULE LinesProofs -----------------------------
(***************************************************************************)
(* Facts about positions, lines and data streams, for every stream: where  *)
(* lines end, and that reading line by line passes no delimiter.           *)
(***************************************************************************)
EXTENDS Lines, FiniteSetTheorems, SequenceTheorems, TLAPS

\* The length and the bytes of a slice.
LEMMA SliceProperties ==
    ASSUME stream \in Seq(Bytes),
           NEW p \in 0..Len(stream), NEW q \in p..Len(stream)
    PROVE  /\ Slice(p, q) \in Seq(Bytes)
           /\ Len(Slice(p, q)) = q - p
           /\ \A i \in 1..(q - p) : Slice(p, q)[i] = stream[p + i]
<1>1. Len(stream) \in Nat /\ \A i \in 1..Len(stream) : stream[i] \in Bytes
  BY LenProperties
<1> DEFINE m == p + 1
<1>2. /\ m \in Int /\ q \in Int /\ p \in Nat /\ q \in Nat /\ p <= q
      /\ \A i \in m..q : stream[i] \in Bytes
  BY <1>1
<1>3. m = p + 1
  OBVIOUS
<1> HIDE DEF m
<1>4. /\ SubSeq(stream, m, q) \in Seq(Bytes)
      /\ Len(SubSeq(stream, m, q)) = IF m <= q THEN q - m + 1 ELSE 0
      /\ \A i \in 1..(q - m + 1) : SubSeq(stream, m, q)[i] = stream[m + i - 1]
  BY <1>2, SubSeqProperties
<1>5. Len(SubSeq(stream, m, q)) = q - p
  <2>1. Len(SubSeq(stream, m, q)) = IF m <= q THEN q - m + 1 ELSE 0
    BY <1>4
  <2>2. p \in Nat /\ q \in Nat /\ p <= q /\ m = p + 1
    BY <1>2, <1>3
  <2>3. CASE m <= q
    BY <2>1, <2>2, <2>3
  <2>4. CASE ~(m <= q)
    BY <2>1, <2>2, <2>4
  <2> QED
    BY <2>3, <2>4
<1>6. q - m + 1 = q - p /\ \A i \in Int : m + i - 1 = p + i
  BY <1>2, <1>3
<1>7. \A i \in 1..(q - p) : SubSeq(stream, m, q)[i] = stream[p + i]
  BY <1>4, <1>6
<1> QED
  BY <1>3, <1>4, <1>5, <1>7 DEF Slice

\* A count of line feeds is a number.
LEMMA CountLFNat ==
    ASSUME NEW p \in Int, NEW q \in Int
    PROVE  CountLF(p, q) \in Nat
<1>1. IsFiniteSet((p + 1)..q)
  BY FS_Interval
<1>2. IsFiniteSet({i \in (p + 1)..q : stream[i] = LF})
  BY <1>1, FS_Subset
<1> QED
  BY <1>2, FS_CardinalityType DEF CountLF

\* A line that is not empty moves the position on, within the stream.
LEMMA LineEndBounds ==
    ASSUME stream \in Seq(Bytes), NEW p \in 0..Len(stream), NEW n, IsLine(p, n)
    PROVE  /\ n \in Nat /\ p + n \in p..Len(stream)
           /\ LineEnd(p, n) \in p..Len(stream)
           /\ p < Len(stream) => p < LineEnd(p, n)
           /\ p + n <= LineEnd(p, n) /\ LineEnd(p, n) <= p + n + 1
<1>1. Len(stream) \in Nat
  BY LenProperties
<1>2. n \in 0..(Len(stream) - p)
  BY DEF IsLine
<1> QED
  BY <1>1, <1>2 DEF LineEnd

\* Skipping an optional LF stays within the stream.
LEMMA SkipBounds ==
    ASSUME stream \in Seq(Bytes), NEW p \in 0..Len(stream)
    PROVE  SkipOptionalLF(p) \in p..Len(stream)
<1>1. Len(stream) \in Nat
  BY LenProperties
<1> QED
  BY <1>1 DEF SkipOptionalLF

\* Only one line begins at a position.
LEMMA LineUnique ==
    ASSUME stream \in Seq(Bytes), NEW p \in 0..Len(stream),
           NEW n, NEW m, IsLine(p, n), IsLine(p, m)
    PROVE  n = m
<1>1. ASSUME NEW i, NEW j, IsLine(p, i), IsLine(p, j), i < j
      PROVE  FALSE
  <2>1. /\ Len(stream) \in Nat /\ i \in Nat /\ j \in Nat
        /\ p + j <= Len(stream)
    BY <1>1, LenProperties DEF IsLine
  <2>2. i + 1 \in 1..j /\ p + i < Len(stream)
    BY <1>1, <2>1
  <2>3. stream[p + i + 1] = LF
    BY <1>1, <2>2 DEF IsLine
  <2>4. stream[p + (i + 1)] # LF
    BY <1>1, <2>2 DEF IsLine
  <2>5. p + (i + 1) = p + i + 1
    BY <2>1
  <2> QED
    BY <2>3, <2>4, <2>5
<1>2. n \in Nat /\ m \in Nat
  BY LineEndBounds
<1>3. ~(n < m) /\ ~(m < n)
  BY <1>1
<1> QED
  BY <1>2, <1>3

\* Reading a line that is not the delimiter passes no delimiter, and stops
\* where the next line starts or at the end of the stream.
LEMMA LinePassed ==
    ASSUME stream \in Seq(Bytes), NEW h \in HeaderType,
           NEW b \in Nat, NEW p \in b..Len(stream), NEW n,
           IsLine(p, n), p < Len(stream),
           NoDelimiterBefore(h, b, p), Slice(p, p + n) # h.delim
    PROVE  /\ NoDelimiterBefore(h, b, LineEnd(p, n))
           /\ LineStart(b, LineEnd(p, n)) \/ LineEnd(p, n) = Len(stream)
<1>0. Len(stream) \in Nat /\ p \in Nat /\ p \in 0..Len(stream)
  BY LenProperties
<1>1. /\ n \in Nat /\ p + n <= Len(stream)
      /\ p + n <= LineEnd(p, n) /\ LineEnd(p, n) <= p + n + 1
  BY <1>0, LineEndBounds
<1>2. LineStart(b, LineEnd(p, n)) \/ LineEnd(p, n) = Len(stream)
  BY <1>0, <1>1 DEF LineEnd, LineStart, IsLine
<1>3. ASSUME NEW q \in b..(LineEnd(p, n) - 1), DelimiterAt(h, b, q)
      PROVE  FALSE
  <2>1. CASE q < p
    <3>1. q \in b..(p - 1)
      BY <1>0, <2>1
    <3> QED
      BY <1>3, <3>1 DEF NoDelimiterBefore
  <2>2. CASE q = p
    <3>1. IsLine(p, Len(h.delim)) /\ Slice(p, p + Len(h.delim)) = h.delim
      BY <1>3, <2>2 DEF DelimiterAt
    <3>2. n = Len(h.delim)
      BY <1>0, <3>1, LineUnique
    <3> QED
      BY <3>1, <3>2
  <2>3. CASE q > p
    <3>1. q # b /\ q - p \in 1..n /\ p + (q - p) = q
      BY <1>0, <1>1, <2>3 DEF LineEnd
    <3>2. stream[q] = LF
      BY <1>3, <3>1 DEF DelimiterAt, LineStart
    <3>3. stream[p + (q - p)] # LF
      BY <3>1 DEF IsLine
    <3> QED
      BY <3>1, <3>2, <3>3
  <2> QED
    BY <1>0, <1>1, <2>1, <2>2, <2>3
<1> QED
  BY <1>2, <1>3 DEF NoDelimiterBefore

\* Reading the delimiter line ends the data stream.
LEMMA DelimiterEnds ==
    ASSUME stream \in Seq(Bytes), NEW h \in HeaderType, ~h.is_counted,
           NEW b \in Nat, NEW p \in b..Len(stream), NEW n,
           IsLine(p, n), Slice(p, p + n) = h.delim,
           NoDelimiterBefore(h, b, p), LineStart(b, p)
    PROVE  /\ ContentsEnd(h, b, p)
           /\ ResumesAt(h, b, SkipOptionalLF(LineEnd(p, n)))
<1>0. Len(stream) \in Nat /\ p \in 0..Len(stream)
  BY LenProperties
<1>1. n \in Nat /\ p + n \in p..Len(stream)
  BY <1>0, LineEndBounds
<1>2. n = Len(h.delim)
  <2>1. Len(Slice(p, p + n)) = (p + n) - p
    BY <1>0, <1>1, SliceProperties
  <2> QED
    BY <1>0, <1>1, <2>1
<1>3. ContentsEnd(h, b, p)
  BY <1>2 DEF ContentsEnd, DelimiterAt
<1> QED
  BY <1>2, <1>3 DEF ResumesAt

\* A counted data stream that fits in the stream ends after its bytes.
LEMMA CountedEnds ==
    ASSUME stream \in Seq(Bytes), NEW h \in HeaderType, h.is_counted,
           NEW b \in Nat, NEW p \in b..Len(stream), p = b + h.len
    PROVE  /\ ContentsEnd(h, b, p)
           /\ ResumesAt(h, b, SkipOptionalLF(p))
BY DEF ContentsEnd, ResumesAt
=============================================================================
