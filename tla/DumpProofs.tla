------------------------------ MODULE DumpProofs ------------------------------
(***************************************************************************)
(* Theorems about Dump: what is dumped is read back, for any data, texts,   *)
(* delimiters and lines, and however the writer takes them.                *)
(***************************************************************************)
EXTENDS Dump, LinesProofs

\* What is written of an item.
TextOf(item) ==
    IF item.kind = "data" THEN DumpData(item.buf) ELSE DumpLine(item.text)

ItemType ==
    {DataItem(b, n) : b \in DataBufs, n \in Nat}
        \cup {LineItem(t, n) : t \in Texts, n \in Nat}

\* The stream has t after p, as far as it goes before q.
Spells(p, q, t) ==
    /\ p \in 0..Len(stream) /\ q \in p..Len(stream)
    /\ q - p <= Len(t)
    /\ \A j \in 1..(q - p) : stream[p + j] = t[j]

\* An item that another one follows has been written whole.
Before ==
    \A i \in 1..(Len(items) - 1) :
        /\ Spells(items[i].at, items[i + 1].at, TextOf(items[i]))
        /\ items[i + 1].at - items[i].at = Len(TextOf(items[i]))

\* The last item has been written up to rest.
InProgress ==
    IF items = <<>>
    THEN rest = <<>>
    ELSE LET last == items[Len(items)]
             t == TextOf(last)
         IN  /\ Spells(last.at, Len(stream), t)
             /\ ~failed => rest = SubSeq(t, Len(stream) - last.at + 1, Len(t))
             /\ failed => rest = <<>>

IInv ==
    /\ stream \in Seq(Bytes) /\ rest \in Seq(Bytes) /\ failed \in BOOLEAN
    /\ items \in Seq(ItemType) /\ Len(items) <= MaxDumps
    /\ Before /\ InProgress

-----------------------------------------------------------------------------
(* What is written of each style, byte by byte.                              *)

\* Two bytes, D, l, X, D, and l twice.
IsDelimitedText(t, T, l, p, q, D, X) ==
    LET d == Len(D)
        x == Len(X)
    IN  /\ t \in Seq(T)
        /\ Len(t) = d + d + x + 5
        /\ t[1] = p /\ t[2] = q
        /\ \A j \in 1..d : t[2 + j] = D[j]
        /\ t[d + 3] = l
        /\ \A j \in 1..x : t[d + 3 + j] = X[j]
        /\ \A j \in 1..d : t[d + 3 + x + j] = D[j]
        /\ t[d + d + x + 4] = l
        /\ t[d + d + x + 5] = l

\* What DumpDelimited puts together.
LEMMA SevenParts ==
    ASSUME NEW T, NEW l \in T, NEW p \in T, NEW q \in T,
           NEW D \in Seq(T), NEW X \in Seq(T)
    PROVE  IsDelimitedText(<<p, q>> \o D \o <<l>> \o X \o D \o <<l, l>>,
                           T, l, p, q, D, X)
  BY DEF IsDelimitedText

\* Two bytes, l, X, and l.
IsCountedText(t, T, l, p, q, X) ==
    LET x == Len(X)
    IN  /\ t \in Seq(T)
        /\ Len(t) = x + 4
        /\ t[1] = p /\ t[2] = q /\ t[3] = l
        /\ \A j \in 1..x : t[3 + j] = X[j]
        /\ t[x + 4] = l

\* What DumpCounted puts together.
LEMMA FiveParts ==
    ASSUME NEW T, NEW l \in T, NEW p \in T, NEW q \in T, NEW X \in Seq(T)
    PROVE  IsCountedText(<<p, q, l>> \o X \o <<l>>, T, l, p, q, X)
  BY DEF IsCountedText

\* What DumpLine puts together.
LEMMA TwoParts ==
    ASSUME NEW T, NEW l \in T, NEW X \in Seq(T)
    PROVE  LET x == Len(X)
               t == X \o <<l>>
           IN  /\ t \in Seq(T)
               /\ Len(t) = x + 1
               /\ \A j \in 1..x : t[j] = X[j]
               /\ t[x + 1] = l
  OBVIOUS

\* The bytes of a command of one line.
IsLineText(t, s) ==
    /\ t \in Seq(Bytes)
    /\ Len(t) = Len(s) + 1
    /\ \A j \in 1..Len(s) : t[j] = s[j]
    /\ t[Len(s) + 1] = LF

\* The keywords are bytes.
LEMMA Keywords == "data " \in Bytes /\ "<<" \in Bytes /\ LF \in Bytes
  BY DumpAssumption, LinesAssumption

\* The facts about a value of DataBuf.
LEMMA DataBufTypes ==
    ASSUME NEW b \in DataBufs
    PROVE  /\ b.data \in Seq(Bytes)
           /\ b.delim # None => b.delim \in Seq(Bytes)
           /\ Len(b.data) \in Lengths
           /\ Decimal[Len(b.data)] \in Bytes \ {LF, "<<", "NUL"}
<1>1. Len(b.data) \in Lengths
  BY DEF Lengths
<1> QED
  BY <1>1, DumpAssumption

\* The bytes of delimited data.
LEMMA DelimitedText ==
    ASSUME NEW b \in DataBufs, b.delim # None
    PROVE  IsDelimitedText(DumpDelimited(b), Bytes, LF, "data ", "<<", b.delim, b.data)
<1>1. b.delim \in Seq(Bytes) /\ b.data \in Seq(Bytes)
  BY DataBufTypes
<1> QED
  BY <1>1, Keywords, SevenParts DEF DumpDelimited

\* The bytes of counted data.
LEMMA CountedText ==
    ASSUME NEW b \in DataBufs
    PROVE  IsCountedText(DumpCounted(b), Bytes, LF, "data ", Decimal[Len(b.data)], b.data)
<1>1. Decimal[Len(b.data)] \in Bytes /\ b.data \in Seq(Bytes)
  BY DataBufTypes
<1> QED
  BY <1>1, Keywords, FiveParts DEF DumpCounted

\* The bytes of a command of one line.
LEMMA LineText ==
    ASSUME NEW s \in Texts
    PROVE  IsLineText(DumpLine(s), s)
<1>1. s \in Seq(Bytes)
  BY DumpAssumption
<1> QED
  BY <1>1, Keywords, TwoParts DEF IsLineText, DumpLine

\* What is written of a value is some bytes.
LEMMA TextTypes ==
    ASSUME NEW item \in ItemType
    PROVE  TextOf(item) \in Seq(Bytes) /\ Len(TextOf(item)) > 0
<1>1. CASE item \in {DataItem(b, n) : b \in DataBufs, n \in Nat}
  <2>1. PICK b \in DataBufs, n \in Nat : item = DataItem(b, n)
    BY <1>1
  <2>2. TextOf(item) = DumpData(b)
    BY <2>1 DEF TextOf, DataItem
  <2>3. CASE b.delim # None /\ ValidDelim(b)
    <3>1. DumpData(b) = DumpDelimited(b) /\ b.data \in Seq(Bytes) /\ b.delim \in Seq(Bytes)
      BY <2>3, DataBufTypes DEF DumpData
    <3> DEFINE d == Len(b.delim)
               x == Len(b.data)
    <3>2. DumpDelimited(b) \in Seq(Bytes) /\ Len(DumpDelimited(b)) = d + d + x + 5
      BY <2>3, DelimitedText DEF IsDelimitedText
    <3>3. d \in Nat /\ x \in Nat
      BY <3>1, LenProperties
    <3> HIDE DEF d, x
    <3>4. d + d + x + 5 > 0
      BY <3>3
    <3>5. Len(DumpDelimited(b)) > 0
      BY <3>2, <3>4
    <3> QED
      BY <2>2, <3>1, <3>2, <3>5
  <2>4. CASE ~(b.delim # None /\ ValidDelim(b))
    <3>1. DumpData(b) = DumpCounted(b) /\ b.data \in Seq(Bytes)
      BY <2>4, DataBufTypes DEF DumpData
    <3>2. /\ DumpCounted(b) \in Seq(Bytes)
          /\ Len(DumpCounted(b)) = Len(b.data) + 4
      BY CountedText DEF IsCountedText
    <3>3. Len(b.data) \in Nat
      BY <3>1, LenProperties
    <3> QED
      BY <2>2, <3>1, <3>2, <3>3
  <2> QED
    BY <2>3, <2>4
<1>2. CASE item \in {LineItem(s, n) : s \in Texts, n \in Nat}
  <2>1. PICK s \in Texts, n \in Nat : item = LineItem(s, n)
    BY <1>2
  <2>2. TextOf(item) = DumpLine(s)
    BY <2>1 DEF TextOf, LineItem
  <2>3. Len(s) \in Nat
    BY DumpAssumption, LenProperties
  <2> QED
    BY <2>2, <2>3, LineText DEF IsLineText
<1> QED
  BY <1>1, <1>2 DEF ItemType

-----------------------------------------------------------------------------
(* What has been written, at any time.                                       *)

\* What is left to write of t, after k more bytes of it.
LEMMA TailOfTail ==
    ASSUME NEW T, NEW t \in Seq(T), NEW m \in 0..Len(t), NEW k \in 0..(Len(t) - m)
    PROVE  LET r == SubSeq(t, m + 1, Len(t))
           IN  /\ SubSeq(r, k + 1, Len(r)) = SubSeq(t, m + k + 1, Len(t))
               /\ Len(r) = Len(t) - m
               /\ \A j \in 1..(Len(t) - m) : r[j] = t[m + j]
               /\ r = <<>> => m = Len(t)
<1> DEFINE r == SubSeq(t, m + 1, Len(t))
<1>1. Len(t) \in Nat
  BY LenProperties
<1>2. Len(r) = Len(t) - m /\ r \in Seq(T)
  BY <1>1
<1>3. \A j \in 1..(Len(t) - m) : r[j] = t[m + j]
  BY <1>1
<1>4. r = <<>> => m = Len(t)
  <2> HIDE DEF r
  <2> QED
    BY <1>1, <1>2
<1>5. SubSeq(r, k + 1, Len(r)) = SubSeq(t, m + k + 1, Len(t))
  BY <1>1, <1>2
<1> QED
  BY <1>2, <1>3, <1>4, <1>5

\* The stream s after k bytes of r have been written.
LEMMA Extended ==
    ASSUME NEW T, NEW s \in Seq(T), NEW r \in Seq(T), NEW k \in 1..Len(r)
    PROVE  LET t == s \o SubSeq(r, 1, k)
           IN  /\ t \in Seq(T)
               /\ Len(t) = Len(s) + k
               /\ \A j \in 1..Len(s) : t[j] = s[j]
               /\ \A j \in 1..k : t[Len(s) + j] = r[j]
               /\ SubSeq(r, k + 1, Len(r)) \in Seq(T)
  OBVIOUS

\* The invariant holds at first.
LEMMA InitIInv == Init => IInv
<1> SUFFICES ASSUME Init PROVE IInv
  OBVIOUS
<1>1. /\ stream = <<>> /\ rest = <<>> /\ failed = FALSE /\ items = <<>>
  BY DEF Init
<1>2. <<>> \in Seq(Bytes) /\ <<>> \in Seq(ItemType) /\ Len(items) = 0
  BY <1>1
<1>3. MaxDumps \in Nat
  BY DumpAssumption
<1>4. Before
  BY <1>2 DEF Before
<1>5. InProgress
  BY <1>1 DEF InProgress
<1>6. Len(items) <= MaxDumps
  BY <1>2, <1>3
<1> QED
  BY <1>1, <1>2, <1>4, <1>5, <1>6 DEF IInv

\* What the last item is, when there is one.
LEMMA LastItem ==
    ASSUME IInv, items # <<>>
    PROVE  LET n == Len(items)
               last == items[n]
               t == TextOf(last)
               m == Len(stream) - last.at
           IN  /\ n \in Nat \ {0} /\ last \in ItemType /\ t \in Seq(Bytes)
               /\ Len(stream) \in Nat /\ Len(t) \in Nat /\ last.at \in 0..Len(stream)
               /\ m \in 0..Len(t) /\ Spells(last.at, Len(stream), t)
               /\ ~failed => rest = SubSeq(t, m + 1, Len(t))
               /\ failed => rest = <<>>
<1> DEFINE n == Len(items)
           last == items[n]
           t == TextOf(last)
<1>1. n \in Nat \ {0} /\ last \in ItemType
  BY DEF IInv
<1>2. t \in Seq(Bytes)
  BY <1>1, TextTypes
<1>3. Len(stream) \in Nat /\ Len(t) \in Nat
  BY <1>2, LenProperties DEF IInv
<1>4. /\ Spells(last.at, Len(stream), t)
      /\ ~failed => rest = SubSeq(t, Len(stream) - last.at + 1, Len(t))
      /\ failed => rest = <<>>
  BY DEF IInv, InProgress
<1> HIDE DEF last, t
<1>5. /\ last.at \in 0..Len(stream)
      /\ Len(stream) - last.at <= Len(t)
  BY <1>4 DEF Spells
<1>6. Len(stream) - last.at \in 0..Len(t)
  BY <1>3, <1>5
<1> QED
  BY <1>1, <1>2, <1>3, <1>4, <1>5, <1>6 DEF last, t

\* The dump of one more value begins.
LEMMA NewItem ==
    ASSUME IInv, MayDump, NEW it \in ItemType, it.at = Len(stream),
           rest' = TextOf(it), items' = Append(items, it), UNCHANGED <<stream, failed>>
    PROVE  IInv'
<1> DEFINE n == Len(items)
<1>1. n \in Nat /\ Len(stream) \in Nat /\ n < MaxDumps /\ rest = <<>> /\ ~failed
  BY LenProperties DEF IInv, MayDump
<1>2. /\ items' \in Seq(ItemType) /\ Len(items') = n + 1
      /\ items'[n + 1] = it /\ \A i \in 1..n : items'[i] = items[i]
  BY DEF IInv
<1>3. TextOf(it) \in Seq(Bytes) /\ Len(TextOf(it)) \in Nat
  BY TextTypes, LenProperties
<1>4. ASSUME NEW i \in 1..n
      PROVE  /\ Spells(items[i].at, items'[i + 1].at, TextOf(items[i]))
             /\ items'[i + 1].at - items[i].at = Len(TextOf(items[i]))
  <2>1. CASE i = n
    <3> DEFINE last == items[n]
               t == TextOf(last)
               m == Len(stream) - last.at
    <3>1. items # <<>>
      BY <1>1, <2>1
    <3>2. /\ t \in Seq(Bytes) /\ Len(t) \in Nat /\ last.at \in 0..Len(stream)
          /\ m \in 0..Len(t) /\ Spells(last.at, Len(stream), t)
          /\ rest = SubSeq(t, m + 1, Len(t))
      BY <1>1, <3>1, LastItem
    <3> HIDE DEF t
    <3>3. 0 \in 0..(Len(t) - m)
      BY <3>2
    <3>4. m = Len(t)
      BY <1>1, <3>2, <3>3, TailOfTail
    <3>5. items'[i + 1].at = Len(stream)
      BY <1>2, <2>1
    <3> QED
      BY <2>1, <3>2, <3>4, <3>5 DEF t
  <2>2. CASE i # n
    <3>1. i \in 1..(n - 1) /\ i + 1 \in 1..n
      BY <1>1, <2>2
    <3>2. items'[i + 1] = items[i + 1]
      BY <1>2, <3>1
    <3> QED
      BY <3>1, <3>2 DEF IInv, Before
  <2> QED
    BY <2>1, <2>2
<1>5. Before'
  <2>2. ASSUME NEW i \in 1..n
        PROVE  /\ Spells(items[i].at, items[i + 1].at, TextOf(items[i]))'
               /\ (items[i + 1].at - items[i].at = Len(TextOf(items[i])))'
    <3>1. items'[i] = items[i] /\ stream' = stream
      BY <1>2
    <3> QED
      BY <1>4, <3>1 DEF Spells, TextOf
  <2>3. 1..(Len(items') - 1) = 1..n
    BY <1>1, <1>2
  <2> QED
    BY <2>2, <2>3 DEF Before
<1>6. InProgress'
  <2>1. items' # <<>> /\ items'[Len(items')] = it
    BY <1>1, <1>2
  <2>2. Spells(it.at, Len(stream), TextOf(it))'
    BY <1>1, <1>3 DEF Spells
  <2>3. Len(stream') - it.at + 1 = 1
    BY <1>1
  <2>4. rest' = SubSeq(TextOf(it), 1, Len(TextOf(it)))
    BY <1>3
  <2> QED
    BY <1>1, <2>1, <2>2, <2>3, <2>4 DEF InProgress, TextOf
<1>7. Len(items') <= MaxDumps
  <2>1. MaxDumps \in Nat
    BY DumpAssumption
  <2> HIDE DEF n
  <2> QED
    BY <1>1, <1>2, <2>1
<1>8. stream' \in Seq(Bytes) /\ rest' \in Seq(Bytes) /\ failed' \in BOOLEAN
  BY <1>3 DEF IInv
<1> QED
  BY <1>2, <1>5, <1>6, <1>7, <1>8 DEF IInv

\* Some bytes of the value are written.
LEMMA WriteIInv == IInv /\ Write => IInv'
<1> SUFFICES ASSUME IInv, Write PROVE IInv'
  OBVIOUS
<1>1. PICK k \in 1..Len(rest) :
          /\ stream' = stream \o SubSeq(rest, 1, k)
          /\ rest' = SubSeq(rest, k + 1, Len(rest))
  BY DEF Write
<1>2. rest # <<>> /\ items' = items /\ failed' = failed
  BY DEF Write
<1>3. items # <<>> /\ ~failed
  BY <1>2 DEF IInv, InProgress
<1> DEFINE n == Len(items)
           last == items[n]
           t == TextOf(last)
           m == Len(stream) - last.at
<1>4. /\ n \in Nat \ {0} /\ last \in ItemType /\ t \in Seq(Bytes)
      /\ Len(stream) \in Nat /\ Len(t) \in Nat /\ last.at \in 0..Len(stream)
      /\ m \in 0..Len(t) /\ Spells(last.at, Len(stream), t)
      /\ rest = SubSeq(t, m + 1, Len(t))
  BY <1>3, LastItem
<1> HIDE DEF t, m
<1>5. Len(rest) = Len(t) - m /\ \A j \in 1..(Len(t) - m) : rest[j] = t[m + j]
  <2>1. 0 \in 0..(Len(t) - m)
    BY <1>4
  <2> QED
    BY <1>4, <2>1, TailOfTail
<1>6. k \in Nat /\ k \in 0..(Len(t) - m) /\ k > 0
  BY <1>1, <1>4, <1>5
<1>7. /\ stream' \in Seq(Bytes) /\ Len(stream') = Len(stream) + k
      /\ \A j \in 1..Len(stream) : stream'[j] = stream[j]
      /\ \A j \in 1..k : stream'[Len(stream) + j] = rest[j]
      /\ rest' \in Seq(Bytes)
  <2>1. stream \in Seq(Bytes) /\ rest \in Seq(Bytes)
    BY DEF IInv
  <2> QED
    BY <1>1, <2>1, Extended
<1>0. Len(stream') = Len(stream) + k /\ Len(stream) \in Nat /\ k \in Nat
  BY <1>4, <1>6, <1>7
<1>8. rest' = SubSeq(t, m + k + 1, Len(t))
  BY <1>1, <1>4, <1>6, TailOfTail
<1>9. Before'
  <2>1. ASSUME NEW i \in 1..(n - 1)
        PROVE  /\ Spells(items[i].at, items[i + 1].at, TextOf(items[i]))'
               /\ (items[i + 1].at - items[i].at = Len(TextOf(items[i])))'
    <3>1. /\ Spells(items[i].at, items[i + 1].at, TextOf(items[i]))
          /\ items[i + 1].at - items[i].at = Len(TextOf(items[i]))
      BY DEF IInv, Before
    <3> DEFINE p == items[i].at
               q == items[i + 1].at
               T == TextOf(items[i])
    <3>2. /\ p \in 0..Len(stream) /\ q \in p..Len(stream) /\ q - p <= Len(T)
          /\ \A j \in 1..(q - p) : stream[p + j] = T[j]
      BY <3>1 DEF Spells
    <3>3. p' = p /\ q' = q /\ T' = T
      BY <1>2 DEF TextOf
    <3> HIDE DEF p, q, T
    <3>4. /\ p \in 0..Len(stream') /\ q \in p..Len(stream')
          /\ \A j \in 1..(q - p) : p + j \in 1..Len(stream)
      <4>1. p \in 0..Len(stream) /\ q \in p..Len(stream)
        BY <3>2
      <4> QED
        BY <1>0, <4>1
    <3>5. \A j \in 1..(q - p) : stream'[p + j] = T[j]
      BY <1>7, <3>2, <3>4
    <3>6. Spells(p, q, T)'
      BY <3>2, <3>3, <3>4, <3>5 DEF Spells
    <3>7. (q - p = Len(T))'
      BY <3>1, <3>3 DEF p, q, T
    <3> QED
      BY <3>6, <3>7 DEF p, q, T
  <2>2. Len(items') = n
    BY <1>2
  <2> QED
    BY <2>1, <2>2 DEF Before
<1>10. InProgress'
  <2> DEFINE p == last.at
  <2>1. /\ p \in 0..Len(stream) /\ Len(stream) - p = m
        /\ \A j \in 1..m : stream[p + j] = t[j]
    BY <1>4 DEF Spells, m
  <2>2. Len(stream') - p = m + k /\ m + k <= Len(t)
    <3>1. p \in Nat /\ Len(stream) = p + m /\ m \in Nat /\ Len(t) \in Nat
      <4>1. p \in 0..Len(stream) /\ m = Len(stream) - p
        BY <1>4 DEF m
      <4> HIDE DEF p
      <4> QED
        BY <1>0, <1>4, <4>1
    <3> HIDE DEF p
    <3> QED
      BY <1>0, <1>6, <3>1
  <2>3. \A j \in 1..(m + k) : stream'[p + j] = t[j]
    <3> SUFFICES ASSUME NEW j \in 1..(m + k) PROVE stream'[p + j] = t[j]
      OBVIOUS
    <3>0. m \in Nat /\ p \in Nat /\ j \in Nat /\ Len(stream) = p + m
      <4>1. p \in 0..Len(stream) /\ m = Len(stream) - p
        BY <1>4 DEF m
      <4> HIDE DEF p
      <4>2. m \in Nat /\ p \in Nat /\ Len(stream) = p + m
        BY <1>0, <1>4, <4>1
      <4> QED
        BY <1>0, <4>2
    <3> HIDE DEF m, p
    <3>1. CASE j <= m
      <4>1. p + j \in 1..Len(stream) /\ j \in 1..m
        BY <3>0, <3>1
      <4> QED
        BY <1>7, <2>1, <4>1
    <3>2. CASE j > m
      <4> DEFINE i == j - m
      <4>1. i \in 1..k /\ i \in 1..(Len(t) - m) /\ p + j = Len(stream) + i /\ j = m + i
        BY <1>4, <1>6, <3>0, <3>2
      <4> HIDE DEF i
      <4>2. stream'[Len(stream) + i] = rest[i] /\ rest[i] = t[m + i]
        BY <1>5, <1>7, <4>1
      <4> QED
        BY <4>1, <4>2
    <3> QED
      BY <3>0, <3>1, <3>2
  <2>4. p \in 0..Len(stream') /\ Len(stream') \in p..Len(stream')
    <3> HIDE DEF p
    <3> QED
      BY <1>0, <2>1
  <2>5. items' # <<>> /\ items'[Len(items')] = last /\ items' = items
    BY <1>2, <1>3
  <2>6. TextOf(items[Len(items)])' = t
    BY <1>2 DEF TextOf, t
  <2>7. Spells(p, Len(stream), t)'
    <3>1. p' = p /\ t' = t
      BY <1>2 DEF t, TextOf
    <3> HIDE DEF p, m
    <3> QED
      BY <2>2, <2>3, <2>4, <3>1 DEF Spells
  <2>8. rest' = SubSeq(t, Len(stream') - p + 1, Len(t))
    BY <1>8, <2>2
  <2> QED
    BY <1>2, <1>3, <2>5, <2>6, <2>7, <2>8 DEF InProgress, t
<1> QED
  BY <1>2, <1>7, <1>9, <1>10 DEF IInv

\* Every step keeps the invariant.
LEMMA NextIInv == IInv /\ [Next]_vars => IInv'
<1> SUFFICES ASSUME IInv, [Next]_vars PROVE IInv'
  OBVIOUS
<1>1. Len(stream) \in Nat
  BY LenProperties DEF IInv
<1>2. CASE DumpDataBuf
  <2>1. PICK b \in DataBufs :
            rest' = DumpData(b) /\ items' = Append(items, DataItem(b, Len(stream)))
    BY <1>2 DEF DumpDataBuf
  <2>2. MayDump /\ UNCHANGED <<stream, failed>>
    BY <1>2 DEF DumpDataBuf
  <2> DEFINE it == DataItem(b, Len(stream))
  <2>3. it \in ItemType
    BY <1>1 DEF ItemType
  <2>4. it.at = Len(stream) /\ rest' = TextOf(it)
    BY <2>1 DEF DataItem, TextOf
  <2> HIDE DEF it
  <2> QED
    BY <2>1, <2>2, <2>3, <2>4, NewItem DEF it
<1>3. CASE DumpOneLine
  <2>1. PICK s \in Texts :
            rest' = DumpLine(s) /\ items' = Append(items, LineItem(s, Len(stream)))
    BY <1>3 DEF DumpOneLine
  <2>2. MayDump /\ UNCHANGED <<stream, failed>>
    BY <1>3 DEF DumpOneLine
  <2> DEFINE it == LineItem(s, Len(stream))
  <2>3. it \in ItemType
    BY <1>1 DEF ItemType
  <2>4. it.at = Len(stream) /\ rest' = TextOf(it)
    BY <2>1 DEF LineItem, TextOf
  <2> HIDE DEF it
  <2> QED
    BY <2>1, <2>2, <2>3, <2>4, NewItem DEF it
<1>4. CASE Write
  BY <1>4, WriteIInv
<1>5. CASE WriteFails
  <2>1. rest' = <<>> /\ failed' = TRUE /\ stream' = stream /\ items' = items
    BY <1>5 DEF WriteFails
  <2>2. Before'
    BY <2>1 DEF IInv, Before, Spells, TextOf
  <2>3. InProgress'
    BY <2>1 DEF IInv, InProgress, Spells, TextOf
  <2>4. rest' \in Seq(Bytes)
    BY <2>1
  <2> QED
    BY <2>1, <2>2, <2>3, <2>4 DEF IInv
<1>6. CASE UNCHANGED vars
  BY <1>6 DEF vars, IInv, Before, InProgress, Spells, TextOf
<1> QED
  BY <1>2, <1>3, <1>4, <1>5, <1>6 DEF Next

\* The invariant always holds.
LEMMA Inductive == Spec => []IInv
<1> QED
  BY InitIInv, NextIInv, PTL DEF Spec

-----------------------------------------------------------------------------
(* What has been written whole.                                              *)

\* The bytes of the stream after p are t, and end at e.
Whole(p, e, t) ==
    /\ p \in Nat /\ e = p + Len(t) /\ e \in 0..Len(stream)
    /\ \A j \in 1..Len(t) : stream[p + j] = t[j]

\* As many bytes as t has are t.
LEMMA SpellsWhole ==
    ASSUME NEW p, NEW q, NEW t, Len(t) \in Nat, Len(stream) \in Nat,
           Spells(p, q, t), q - p = Len(t)
    PROVE  Whole(p, q, t)
<1> DEFINE n == Len(t)
<1>1. /\ p \in 0..Len(stream) /\ q \in p..Len(stream) /\ q - p = n /\ n \in Nat
      /\ \A j \in 1..n : stream[p + j] = t[j]
  BY DEF Spells
<1> HIDE DEF n
<1>2. p \in Nat /\ q = p + n /\ q \in 0..Len(stream)
  BY <1>1
<1> QED
  BY <1>1, <1>2 DEF Whole, n

\* An item whose dump has returned has been written whole.
LEMMA DumpedWhole ==
    ASSUME IInv, NEW i \in 1..Len(items), Dumped(i)
    PROVE  items[i] \in ItemType /\ Whole(items[i].at, EndOf(i), TextOf(items[i]))
<1> DEFINE n == Len(items)
<1>1. n \in Nat /\ items[i] \in ItemType /\ Len(stream) \in Nat
  BY LenProperties DEF IInv
<1>2. Len(TextOf(items[i])) \in Nat
  BY <1>1, TextTypes, LenProperties
<1>3. CASE i < n
  <2>1. i \in 1..(n - 1) /\ EndOf(i) = items[i + 1].at
    BY <1>1, <1>3 DEF EndOf
  <2>2. /\ Spells(items[i].at, items[i + 1].at, TextOf(items[i]))
        /\ items[i + 1].at - items[i].at = Len(TextOf(items[i]))
    BY <2>1 DEF IInv, Before
  <2> QED
    BY <1>1, <1>2, <2>1, <2>2, SpellsWhole
<1>4. CASE ~(i < n)
  <2>1. i = n /\ EndOf(i) = Len(stream) /\ rest = <<>> /\ ~failed /\ items # <<>>
    BY <1>1, <1>4 DEF EndOf, Dumped
  <2> DEFINE t == TextOf(items[i])
             m == Len(stream) - items[i].at
  <2>2. /\ t \in Seq(Bytes) /\ Len(t) \in Nat /\ m \in 0..Len(t)
        /\ Spells(items[i].at, Len(stream), t) /\ rest = SubSeq(t, m + 1, Len(t))
    BY <2>1, LastItem
  <2> HIDE DEF t
  <2>3. 0 \in 0..(Len(t) - m)
    BY <2>2
  <2>4. m = Len(t)
    BY <2>1, <2>2, <2>3, TailOfTail
  <2>5. Whole(items[i].at, Len(stream), t)
    BY <1>1, <2>2, <2>4, SpellsWhole
  <2> QED
    BY <1>1, <2>1, <2>5 DEF t
<1> QED
  BY <1>3, <1>4

\* A slice of the stream that is spelled out.
LEMMA SliceIs ==
    ASSUME stream \in Seq(Bytes), NEW p \in 0..Len(stream), NEW q \in p..Len(stream),
           NEW s \in Seq(Bytes), Len(s) = q - p,
           \A j \in 1..(q - p) : stream[p + j] = s[j]
    PROVE  Slice(p, q) = s
<1>1. /\ Slice(p, q) \in Seq(Bytes) /\ Len(Slice(p, q)) = q - p
      /\ \A j \in 1..(q - p) : Slice(p, q)[j] = stream[p + j]
  BY SliceProperties
<1>2. Len(Slice(p, q)) = Len(s) /\ \A j \in 1..Len(s) : Slice(p, q)[j] = s[j]
  BY <1>1
<1> HIDE DEF Slice
<1> QED
  BY <1>1, <1>2, SeqEqual

\* A sequence of one byte.
LEMMA OneByte ==
    ASSUME NEW T, NEW c \in T
    PROVE  <<c>> \in Seq(T) /\ Len(<<c>>) = 1 /\ <<c>>[1] = c
  OBVIOUS

\* Positions in counted data.
LEMMA CountedPlaces ==
    ASSUME NEW p \in Nat, NEW x \in Nat
    PROVE  /\ 1 \in 1..(x + 4) /\ 2 \in 1..(x + 4) /\ 3 \in 1..(x + 4)
           /\ x + 4 \in 1..(x + 4) /\ p + (x + 4) = p + 3 + x + 1
           /\ \A j \in 1..x : 3 + j \in 1..(x + 4) /\ p + (3 + j) = p + 3 + j
  OBVIOUS

\* Where the parts of counted data are in the stream.
CountedIn(p, x, e, c, X) ==
    /\ e = p + 3 + x + 1
    /\ stream[p + 1] = "data " /\ stream[p + 2] = c /\ stream[p + 3] = LF
    /\ stream[p + 3 + x + 1] = LF
    /\ \A j \in 1..x : stream[p + 3 + j] = X[j]

\* Counted data, written whole, is where CountedIn says.
LEMMA CountedAt ==
    ASSUME NEW p \in Nat, NEW x \in Nat, NEW e, NEW t, NEW c, NEW X, Whole(p, e, t),
           IsCountedText(t, Bytes, LF, "data ", c, X), Len(X) = x
    PROVE  CountedIn(p, x, e, c, X)
<1>1. /\ Len(t) = x + 4 /\ t[1] = "data " /\ t[2] = c /\ t[3] = LF
      /\ \A j \in 1..x : t[3 + j] = X[j]
      /\ t[x + 4] = LF
  BY DEF IsCountedText
<1>2. e = p + (x + 4)
  BY <1>1 DEF Whole
<1>3. /\ stream[p + 1] = t[1] /\ stream[p + 2] = t[2] /\ stream[p + 3] = t[3]
      /\ stream[p + (x + 4)] = t[x + 4]
  <2>1. 1 \in 1..Len(t) /\ 2 \in 1..Len(t) /\ 3 \in 1..Len(t) /\ x + 4 \in 1..Len(t)
    BY <1>1, CountedPlaces
  <2>2. \A j \in 1..Len(t) : stream[p + j] = t[j]
    BY DEF Whole
  <2> QED
    BY <2>1, <2>2, Zenon
<1>4. \A j \in 1..x : stream[p + 3 + j] = X[j]
  <2> TAKE j \in 1..x
  <2>1. 3 + j \in 1..Len(t) /\ p + (3 + j) = p + 3 + j
    BY <1>1, CountedPlaces
  <2>2. stream[p + (3 + j)] = t[3 + j]
    BY <2>1, Zenon DEF Whole
  <2> QED
    BY <1>1, <2>1, <2>2
<1>5. p + (x + 4) = p + 3 + x + 1
  BY CountedPlaces
<1> QED
  BY <1>1, <1>2, <1>3, <1>4, <1>5 DEF CountedIn

\* Positions in a data line of two bytes.
LEMMA ShortLinePlaces ==
    ASSUME NEW p \in Nat, NEW L \in Nat, p + 3 <= L
    PROVE  /\ 2 \in 1..(L - p) /\ 2 \in 0..(L - p) /\ p + 2 < L /\ p + 2 + 1 = p + 3
           /\ p + 1 \in 0..L /\ p + 2 \in (p + 1)..L
           /\ (p + 2) - (p + 1) = 1 /\ p + 1 + 1 = p + 2
           /\ \A j \in 1..2 : j = 1 \/ j = 2
           /\ \A j \in 1..1 : j = 1
  OBVIOUS

\* A data line of two bytes, `data` and the argument.
LEMMA ShortDataLine ==
    ASSUME stream \in Seq(Bytes), NEW p \in Nat, NEW c \in Bytes, NEW h,
           p + 3 <= Len(stream), stream[p + 1] = "data ",
           stream[p + 2] = c, stream[p + 3] = LF, c # LF, IsHeader(<<c>>, h)
    PROVE  DataLineAt(p, h, p + 3)
<1> DEFINE L == Len(stream)
<1>1. L \in Nat /\ LF # "data " /\ p + 3 <= L
  BY LenProperties, DumpAssumption
<1> HIDE DEF L
<1>2. /\ 2 \in 1..(L - p) /\ 2 \in 0..(L - p) /\ p + 2 < L /\ p + 2 + 1 = p + 3
      /\ p + 1 \in 0..L /\ p + 2 \in (p + 1)..L
      /\ (p + 2) - (p + 1) = 1 /\ p + 1 + 1 = p + 2
      /\ \A j \in 1..2 : j = 1 \/ j = 2
      /\ \A j \in 1..1 : j = 1
  BY <1>1, ShortLinePlaces
<1>3. p + 3 = LineEnd(p, 2)
  BY <1>2 DEF LineEnd, L
<1>4. \A j \in 1..2 : stream[p + j] # LF
  BY <1>1, <1>2, Zenon
<1>5. IsLine(p, 2)
  BY <1>2, <1>4 DEF IsLine, L
<1> DEFINE s == <<c>>
<1>7. s \in Seq(Bytes) /\ Len(s) = 1 /\ s[1] = c
  BY OneByte
<1> HIDE DEF s
<1>8. \A j \in 1..((p + 2) - (p + 1)) : stream[p + 1 + j] = s[j]
  BY <1>2, <1>7
<1>9. Slice(p + 1, p + 2) = s
  BY <1>2, <1>7, <1>8, SliceIs DEF L
<1> QED
  BY <1>2, <1>3, <1>5, <1>9 DEF DataLineAt, L, s

\* Counted data is read back.
LEMMA CountedReadsBack ==
    ASSUME stream \in Seq(Bytes), NEW b \in DataBufs, NEW p, NEW e,
           Whole(p, e, DumpCounted(b))
    PROVE  LET h == Counted(Len(b.data))
               B == p + 3
               q == p + 3 + Len(b.data)
           IN  /\ DataLineAt(p, h, B) /\ B \in 0..Len(stream)
               /\ q \in B..Len(stream) /\ ContentsEnd(h, B, q)
               /\ Slice(B, q) = b.data
               /\ ResumesAt(h, B, e)
<1> DEFINE x == Len(b.data)
           c == Decimal[x]
           t == DumpCounted(b)
           X == b.data
           m == Len(t)
           L == Len(stream)
           h == Counted(x)
           B == p + 3
           q == p + 3 + x
<1>1. /\ m = x + 4 /\ t[1] = "data " /\ t[2] = c /\ t[3] = LF
      /\ \A j \in 1..x : t[3 + j] = X[j]
      /\ t[x + 4] = LF
  BY CountedText DEF IsCountedText
<1>2. /\ X \in Seq(Bytes) /\ x \in Nat /\ x \in Lengths /\ m \in Nat
      /\ c \in Bytes /\ c # LF /\ L \in Nat
  <2>1. X \in Seq(Bytes) /\ x \in Nat /\ x \in Lengths /\ c \in Bytes /\ c # LF /\ L \in Nat
    BY DataBufTypes, LenProperties
  <2>2. t \in Seq(Bytes)
    BY CountedText DEF IsCountedText
  <2> QED
    BY <2>1, <2>2, LenProperties
<1>3. /\ p \in Nat /\ e = p + m /\ e \in 0..L
      /\ \A j \in 1..m : stream[p + j] = t[j]
  BY DEF Whole
<1>4. IsHeader(<<c>>, h)
  BY <1>2 DEF IsHeader
<1>5. h.len = x /\ h.is_counted
  BY DEF Counted
<1> HIDE DEF x, c, t, X, m, h
<1>6. /\ e = q + 1 /\ e <= L
      /\ stream[p + 1] = "data " /\ stream[p + 2] = c /\ stream[p + 3] = LF
      /\ stream[q + 1] = LF
      /\ \A j \in 1..x : stream[B + j] = X[j]
  <2>1. IsCountedText(t, Bytes, LF, "data ", c, X) /\ Len(X) = x
    BY CountedText DEF t, c, X, x
  <2>2. Whole(p, e, t)
    BY DEF t
  <2>4. CountedIn(p, x, e, c, X)
    BY <1>2, <1>3, <2>1, <2>2, CountedAt
  <2>3. e <= L
    BY <1>2, <1>3
  <2> QED
    BY <2>3, <2>4 DEF CountedIn
<1>7. B \in 0..L /\ q \in B..L /\ q - B = x /\ q = B + x /\ B <= L /\ q < L
  <2>1. e = p + 3 + x + 1 /\ e <= L
    BY <1>6
  <2> QED
    BY <2>1, <1>2, <1>3
<1>8. DataLineAt(p, h, B)
  BY <1>2, <1>3, <1>4, <1>6, <1>7, ShortDataLine
<1> HIDE DEF B, q, L
<1>9. ContentsEnd(h, B, q)
  BY <1>5, <1>7 DEF ContentsEnd
<1>10. Slice(B, q) = X
  BY <1>2, <1>6, <1>7, SliceIs DEF x, X, L
<1>11. ResumesAt(h, B, e)
  <2>1. SkipOptionalLF(q) = e
    BY <1>6, <1>7 DEF SkipOptionalLF, L
  <2> QED
    BY <1>5, <1>7, <1>9, <2>1 DEF ResumesAt, L
<1> QED
  BY <1>7, <1>8, <1>9, <1>10, <1>11 DEF x, X, h, L, B, q

\* Where the parts of delimited data are in the stream.
DelimitedIn(p, d, x, e, D, X) ==
    LET B == p + d + 3
        q == p + d + 3 + x
    IN  /\ e = q + d + 2
        /\ stream[p + 1] = "data " /\ stream[p + 2] = "<<"
        /\ \A j \in 1..d : stream[p + 2 + j] = D[j]
        /\ stream[B] = LF
        /\ \A j \in 1..x : stream[B + j] = X[j]
        /\ \A j \in 1..d : stream[q + j] = D[j]
        /\ stream[q + d + 1] = LF /\ stream[q + d + 2] = LF

\* Positions in delimited data of m bytes ...
DelimitedPlaces(p, d, x, m) ==
    /\ 1 \in 1..m /\ 2 \in 1..m /\ d + 3 \in 1..m
    /\ d + d + x + 4 \in 1..m /\ d + d + x + 5 \in 1..m
    /\ p + (d + 3) = p + d + 3
    /\ p + (d + d + x + 4) = p + d + 3 + x + d + 1
    /\ p + (d + d + x + 5) = p + d + 3 + x + d + 2
    /\ \A j \in 1..d : 2 + j \in 1..m /\ p + (2 + j) = p + 2 + j
    /\ \A j \in 1..x : d + 3 + j \in 1..m /\ p + (d + 3 + j) = p + d + 3 + j
    /\ \A j \in 1..d : d + 3 + x + j \in 1..m
                       /\ p + (d + 3 + x + j) = p + d + 3 + x + j

\* ... are within it, and in its order.
LEMMA DelimitedPlacesHold ==
    ASSUME NEW p \in Nat, NEW d \in Nat, NEW x \in Nat, NEW m,
           m = d + d + x + 5
    PROVE  DelimitedPlaces(p, d, x, m)
  BY DEF DelimitedPlaces

\* Delimited data, written whole, is where DelimitedIn says.
LEMMA DelimitedAt ==
    ASSUME NEW p \in Nat, NEW d \in Nat, NEW x \in Nat, NEW e, NEW t, NEW D, NEW X,
           Whole(p, e, t), IsDelimitedText(t, Bytes, LF, "data ", "<<", D, X),
           Len(D) = d, Len(X) = x
    PROVE  DelimitedIn(p, d, x, e, D, X)
<1> DEFINE m == Len(t)
<1>1. /\ m = d + d + x + 5 /\ t[1] = "data " /\ t[2] = "<<"
      /\ \A j \in 1..d : t[2 + j] = D[j]
      /\ t[d + 3] = LF
      /\ \A j \in 1..x : t[d + 3 + j] = X[j]
      /\ \A j \in 1..d : t[d + 3 + x + j] = D[j]
      /\ t[d + d + x + 4] = LF /\ t[d + d + x + 5] = LF
  BY DEF IsDelimitedText
<1>2. e = p + m /\ \A j \in 1..m : stream[p + j] = t[j]
  BY DEF Whole
<1> HIDE DEF m
<1>3. m = d + d + x + 5
  BY <1>1
<1>4. DelimitedPlaces(p, d, x, m)
  BY <1>3, DelimitedPlacesHold
<1>5. /\ stream[p + 1] = "data " /\ stream[p + 2] = "<<"
      /\ stream[p + (d + 3)] = LF
      /\ stream[p + (d + d + x + 4)] = LF /\ stream[p + (d + d + x + 5)] = LF
  BY <1>1, <1>2, <1>4, Zenon DEF DelimitedPlaces
<1>6. ASSUME NEW j \in 1..d PROVE stream[p + 2 + j] = D[j]
  <2>1. stream[p + (2 + j)] = t[2 + j]
    BY <1>2, <1>4, Zenon DEF DelimitedPlaces
  <2> QED
    BY <1>1, <1>4, <2>1, Zenon DEF DelimitedPlaces
<1>7. ASSUME NEW j \in 1..x PROVE stream[p + d + 3 + j] = X[j]
  <2>1. stream[p + (d + 3 + j)] = t[d + 3 + j]
    BY <1>2, <1>4, Zenon DEF DelimitedPlaces
  <2> QED
    BY <1>1, <1>4, <2>1, Zenon DEF DelimitedPlaces
<1>8. ASSUME NEW j \in 1..d PROVE stream[p + d + 3 + x + j] = D[j]
  <2>1. stream[p + (d + 3 + x + j)] = t[d + 3 + x + j]
    BY <1>2, <1>4, Zenon DEF DelimitedPlaces
  <2> QED
    BY <1>1, <1>4, <2>1, Zenon DEF DelimitedPlaces
<1>9. e = p + d + 3 + x + d + 2
  BY <1>2, <1>3, <1>4 DEF DelimitedPlaces
<1> QED
  BY <1>4, <1>5, <1>6, <1>7, <1>8, <1>9, Zenon DEF DelimitedIn, DelimitedPlaces

\* The argument `<<` and a delimiter is a header.
LEMMA HeaderOfDelimiter ==
    ASSUME NEW D \in Seq(Bytes), D # <<>>, \A j \in 1..Len(D) : D[j] # "NUL",
           NEW s \in Seq(Bytes), NEW d \in Nat, d = Len(D), Len(s) = d + 1,
           s[1] = "<<", \A j \in 1..d : s[j + 1] = D[j]
    PROVE  IsHeader(s, Delimited(D))
<1>1. d > 0
  BY EmptySeq
<1>2. Len(s) > 1 /\ s # <<>>
  BY <1>1, EmptySeq
<1>3. /\ Tail(s) \in Seq(Bytes) /\ Len(Tail(s)) = Len(s) - 1
      /\ \A j \in 1..Len(Tail(s)) : Tail(s)[j] = s[j + 1]
  BY <1>2, HeadTailProperties
<1>4. Len(Tail(s)) = Len(D)
  BY <1>3
<1>5. \A j \in 1..Len(D) : Tail(s)[j] = D[j]
  BY <1>3, <1>4
<1>6. Tail(s) = D
  BY <1>3, <1>4, <1>5, SeqEqual
<1>7. \A j \in 1..Len(s) : s[j] # "NUL"
  <2> TAKE j \in 1..Len(s)
  <2>1. CASE j = 1
    BY <2>1
  <2>2. CASE j # 1
    <3>1. j - 1 \in 1..d /\ (j - 1) + 1 = j
      BY <2>2
    <3> QED
      BY <3>1
  <2> QED
    BY <2>1, <2>2
<1> QED
  BY <1>2, <1>6, <1>7 DEF IsHeader

\* Positions in the data line of delimited data.
LEMMA DelimitedLinePlaces ==
    ASSUME NEW p \in Nat, NEW d \in Nat, NEW L \in Nat, p + d + 3 <= L
    PROVE  /\ 2 + d \in 1..(L - p) /\ 2 + d \in 0..(L - p)
           /\ p + (2 + d) < L /\ p + (2 + d) + 1 = p + d + 3
           /\ p + 1 \in 0..L /\ p + (2 + d) \in (p + 1)..L
           /\ p + (2 + d) - (p + 1) = d + 1 /\ p + 1 + 1 = p + 2
           /\ \A j \in 1..(2 + d) :
                j = 1 \/ j = 2 \/ (j - 2 \in 1..d /\ p + 2 + (j - 2) = p + j)
           /\ \A j \in 1..(d + 1) :
                j = 1 \/ (j - 1 \in 1..d /\ p + 2 + (j - 1) = p + 1 + j
                        /\ (j - 1) + 1 = j)
  OBVIOUS

\* The byte c, and then D.
IsPrefixed(s, T, c, D) ==
    /\ s \in Seq(T) /\ Len(s) = Len(D) + 1 /\ s[1] = c
    /\ \A j \in 1..Len(D) : s[j + 1] = D[j]

\* What a concatenation with one byte is.
LEMMA Prefixed ==
    ASSUME NEW T, NEW c \in T, NEW D \in Seq(T)
    PROVE  IsPrefixed(<<c>> \o D, T, c, D)
  BY DEF IsPrefixed

\* A delimiter of a data line, of d bytes.
IsDelim(D, d) ==
    /\ Len(D) = d /\ D # <<>>
    /\ \A j \in 1..d : D[j] # LF /\ D[j] # "NUL"

\* The data line of delimited data.
LEMMA DelimitedDataLine ==
    ASSUME stream \in Seq(Bytes), NEW p \in Nat, NEW d \in Nat, NEW x \in Nat,
           NEW e \in 0..Len(stream), NEW D \in Seq(Bytes), NEW X,
           IsDelim(D, d), DelimitedIn(p, d, x, e, D, X)
    PROVE  DataLineAt(p, Delimited(D), p + d + 3)
<1> DEFINE L == Len(stream)
           k == "<<"
           s == <<k>> \o D
           n == 2 + d
<1>1. L \in Nat /\ LF # "data " /\ LF # "<<" /\ "<<" \in Bytes /\ p + d + 3 <= L
  <2>1. L \in Nat /\ LF # "data " /\ LF # "<<" /\ "<<" \in Bytes
    BY LenProperties, DumpAssumption
  <2>2. e = p + d + 3 + x + d + 2 /\ e \in 0..L /\ L \in Nat
    BY <2>1 DEF DelimitedIn
  <2> HIDE DEF L
  <2>3. p + d + 3 <= L
    BY <2>2
  <2> QED
    BY <2>1, <2>3
<1> HIDE DEF L
<1>12. /\ stream[p + 1] = "data " /\ stream[p + 2] = "<<"
       /\ \A j \in 1..d : stream[p + 2 + j] = D[j]
       /\ stream[p + d + 3] = LF
  BY DEF DelimitedIn
<1>13. /\ \A j \in 1..d : D[j] # LF
       /\ Len(D) = d /\ D # <<>> /\ \A j \in 1..Len(D) : D[j] # "NUL"
  BY DEF IsDelim
<1>2. /\ 2 + d \in 1..(L - p) /\ 2 + d \in 0..(L - p)
      /\ p + (2 + d) < L /\ p + (2 + d) + 1 = p + d + 3
      /\ p + 1 \in 0..L /\ p + (2 + d) \in (p + 1)..L
      /\ p + (2 + d) - (p + 1) = d + 1 /\ p + 1 + 1 = p + 2
  BY <1>1, DelimitedLinePlaces, Zenon
<1>3. /\ \A j \in 1..(2 + d) :
            j = 1 \/ j = 2 \/ (j - 2 \in 1..d /\ p + 2 + (j - 2) = p + j)
      /\ \A j \in 1..(d + 1) :
            j = 1 \/ (j - 1 \in 1..d /\ p + 2 + (j - 1) = p + 1 + j
                        /\ (j - 1) + 1 = j)
  BY <1>1, DelimitedLinePlaces, Zenon
<1>4. /\ s \in Seq(Bytes) /\ Len(s) = d + 1 /\ s[1] = "<<"
      /\ \A j \in 1..d : s[j + 1] = D[j]
  <2>1. k \in Bytes
    BY <1>1
  <2> HIDE DEF k
  <2>2. IsPrefixed(s, Bytes, k, D)
    BY <2>1, Prefixed
  <2> HIDE DEF s
  <2> QED
    BY <1>13, <2>2 DEF k, IsPrefixed
<1> HIDE DEF s, n
<1>5. p + d + 3 = LineEnd(p, n)
  BY <1>2 DEF LineEnd, L, n
<1>6. \A j \in 1..n : stream[p + j] # LF
  <2> TAKE j \in 1..n
  <2>1. CASE j = 1
    BY <1>1, <1>12, <2>1
  <2>2. CASE j = 2
    BY <1>1, <1>12, <2>2
  <2>3. CASE j - 2 \in 1..d /\ p + 2 + (j - 2) = p + j
    <3>1. stream[p + 2 + (j - 2)] = D[j - 2] /\ D[j - 2] # LF
      BY <1>12, <1>13, <2>3, Zenon
    <3> QED
      BY <2>3, <3>1, Zenon
  <2> QED
    BY <1>3, <2>1, <2>2, <2>3, Zenon DEF n
<1>7. IsLine(p, n)
  BY <1>2, <1>6, <1>12 DEF IsLine, L, n
<1>8. \A j \in 1..(d + 1) : stream[p + 1 + j] = s[j]
  <2> TAKE j \in 1..(d + 1)
  <2>1. CASE j = 1
    BY <1>2, <1>4, <1>12, <2>1
  <2>2. CASE j # 1
    <3>1. j - 1 \in 1..d /\ p + 2 + (j - 1) = p + 1 + j /\ (j - 1) + 1 = j
      BY <1>3, <2>2, Zenon
    <3>2. stream[p + 2 + (j - 1)] = D[j - 1]
      BY <1>12, <3>1, Zenon
    <3>4. s[(j - 1) + 1] = D[j - 1]
      BY <1>4, <3>1, Zenon
    <3>3. s[j] = D[j - 1]
      BY <3>1, <3>4, Zenon
    <3> QED
      BY <3>1, <3>2, <3>3, Zenon
  <2> QED
    BY <2>1, <2>2
<1>9. Slice(p + 1, p + n) = s
  <2> DEFINE u == p + 1
             v == p + n
  <2>1. u \in 0..L /\ v \in u..L /\ v - u = d + 1
    <3>1. p + 1 \in 0..L /\ p + n \in (p + 1)..L /\ p + n - (p + 1) = d + 1
      BY <1>2 DEF n
    <3>2. n \in Nat
      BY DEF n
    <3> QED
      BY <3>1, <3>2
  <2>2. \A j \in 1..(v - u) : stream[u + j] = s[j]
    BY <1>8, <2>1
  <2>3. Len(s) = v - u
    BY <1>4, <2>1
  <2> HIDE DEF u, v
  <2>4. Slice(u, v) = s
    BY <1>4, <2>1, <2>2, <2>3, SliceIs DEF L
  <2> QED
    BY <2>4 DEF u, v
<1>10. IsHeader(s, Delimited(D))
  BY <1>4, <1>13, HeaderOfDelimiter
<1>11. n \in 1..(Len(stream) - p) /\ stream[p + 1] = "data "
  BY <1>2, <1>12 DEF n, L
<1> QED
  BY <1>5, <1>7, <1>9, <1>10, <1>11 DEF DataLineAt

\* The x bytes after B are X, which ends in an LF.
HasData(B, x, X) ==
    /\ B + x <= Len(stream) /\ Len(X) = x /\ X \in Seq(Bytes)
    /\ x > 0 /\ X[x] = LF
    /\ \A j \in 1..x : stream[B + j] = X[j]

\* Positions in a delimiter found u bytes into the data.
LEMMA BetweenPlaces ==
    ASSUME NEW B \in Nat, NEW u \in Nat, NEW d \in Nat, NEW i \in (u + 1)..(u + d)
    PROVE  i - u \in 1..d /\ B + u + (i - u) = B + i /\ i \in Nat /\ i > 0
  OBVIOUS

\* A run of bytes between two LFs is one of the parts of Split.
LEMMA LinesOfData ==
    ASSUME NEW X \in Seq(Bytes), NEW x \in Nat, Len(X) = x, NEW u \in Nat, NEW v \in Nat,
           u <= v, v <= x,
           u = 0 \/ X[u] = LF, v = x \/ X[v + 1] = LF,
           \A i \in (u + 1)..v : X[i] # LF
    PROVE  SubSeq(X, u + 1, v) \in Split(X)
<1> DEFINE R == {r \in (0..Len(X)) \X (0..Len(X)) :
                    /\ r[1] <= r[2]
                    /\ r[1] = 0 \/ X[r[1]] = LF
                    /\ r[2] = Len(X) \/ X[r[2] + 1] = LF
                    /\ \A i \in (r[1] + 1)..r[2] : X[i] # LF}
           r0 == <<u, v>>
<1>1. u \in 0..Len(X) /\ v \in 0..Len(X)
  OBVIOUS
<1>2. r0 \in (0..Len(X)) \X (0..Len(X)) /\ r0[1] = u /\ r0[2] = v
  BY <1>1
<1> HIDE DEF r0
<1>3. r0 \in R
  BY <1>2
<1>4. Split(X) = {SubSeq(X, r[1] + 1, r[2]) : r \in R}
  BY Zenon DEF Split
<1> HIDE DEF R
<1>5. SubSeq(X, r0[1] + 1, r0[2]) \in Split(X)
  BY <1>3, <1>4
<1> QED
  BY <1>2, <1>5

\* A delimiter found in data is one of its lines.
LEMMA DelimiterInData ==
    ASSUME stream \in Seq(Bytes), NEW B \in Nat, NEW x \in Nat, NEW d \in Nat,
           NEW D, NEW X, HasData(B, x, X), IsDelim(D, d),
           NEW u \in Nat, u < x, DelimiterAt(Delimited(D), B, B + u)
    PROVE  D \in Split(X)
<1> DEFINE L == Len(stream)
           y == B + u
<1>1. L \in Nat /\ B + x <= L /\ x > 0 /\ y \in Nat /\ y = B + u
  BY LenProperties DEF HasData
<1>2. X[x] = LF /\ \A j \in 1..x : stream[B + j] = X[j]
  BY DEF HasData
<1>3. Delimited(D).delim = D /\ Len(D) = d
  BY DEF Delimited, IsDelim
<1> HIDE DEF L, y
<1>4. /\ y = B \/ stream[y] = LF
      /\ d \in 0..(L - y)
      /\ \A i \in 1..d : stream[y + i] # LF
      /\ y + d < L => stream[y + d + 1] = LF
      /\ Slice(y, y + d) = D
  BY <1>3, Zenon DEF DelimiterAt, LineStart, IsLine, L, y
<1>5. u + d < x
  <2> SUFFICES ASSUME ~(u + d < x) PROVE FALSE
    OBVIOUS
  <2>1. x - u \in 1..d /\ y + (x - u) = B + x /\ x \in 1..x
    BY <1>1
  <2>2. stream[y + (x - u)] # LF
    BY <1>4, <2>1, Zenon
  <2>3. stream[B + x] = LF
    BY <1>2, <2>1, Zenon
  <2> QED
    BY <2>1, <2>2, <2>3
<1>6. u = 0 \/ X[u] = LF
  <2> SUFFICES ASSUME u # 0 PROVE X[u] = LF
    OBVIOUS
  <2>1. u \in 1..x /\ y # B
    BY <1>1
  <2>2. stream[B + u] = X[u] /\ stream[y] = LF
    BY <1>2, <1>4, <2>1, Zenon
  <2> QED
    BY <1>1, <2>2
<1>7. X[u + d + 1] = LF
  <2>1. u + d + 1 \in 1..x /\ y + d < L /\ B + (u + d + 1) = y + d + 1
    BY <1>1, <1>5
  <2>2. stream[B + (u + d + 1)] = X[u + d + 1] /\ stream[y + d + 1] = LF
    BY <1>2, <1>4, <2>1, Zenon
  <2> QED
    BY <2>1, <2>2
<1>8. \A i \in (u + 1)..(u + d) : X[i] # LF
  <2> TAKE i \in (u + 1)..(u + d)
  <2>1. i - u \in 1..d /\ B + u + (i - u) = B + i /\ i \in 1..x
    BY <1>5, BetweenPlaces
  <2>2. stream[y + (i - u)] # LF /\ stream[B + i] = X[i]
    BY <1>2, <1>4, <2>1, Zenon
  <2> QED
    BY <2>1, <2>2, Zenon DEF y
<1>9. SubSeq(X, u + 1, u + d) = D
  <2>1. X \in Seq(Bytes) /\ Len(X) = x
    BY DEF HasData
  <2>2. u + 1 \in 1..(x + 1) /\ u + d \in u..x /\ u + d \in Nat
    BY <1>5
  <2>3. y \in 0..L /\ y + d \in y..L /\ y + d - y = d
    BY <1>1, <1>4
  <2>4. /\ Slice(y, y + d) \in Seq(Bytes) /\ Len(Slice(y, y + d)) = d
        /\ \A j \in 1..d : Slice(y, y + d)[j] = stream[y + j]
    <3> DEFINE z == y + d
    <3>1. z - y = d /\ z \in y..L /\ y \in 0..L
      BY <2>3
    <3> HIDE DEF z
    <3>2. /\ Slice(y, z) \in Seq(Bytes) /\ Len(Slice(y, z)) = z - y
          /\ \A j \in 1..(z - y) : Slice(y, z)[j] = stream[y + j]
      BY <3>1, SliceProperties DEF L
    <3> QED
      BY <3>1, <3>2, Zenon DEF z
  <2>5. D \in Seq(Bytes) /\ \A j \in 1..d : D[j] = stream[y + j]
    BY <1>4, <2>4
  <2> DEFINE s == SubSeq(X, u + 1, u + d)
  <2>6. s \in Seq(Bytes) /\ Len(s) = d /\ \A j \in 1..d : s[j] = X[u + j]
    BY <2>1, <2>2
  <2> HIDE DEF s
  <2>7. \A j \in 1..d : s[j] = D[j]
    <3> TAKE j \in 1..d
    <3>1. u + j \in 1..x /\ B + (u + j) = y + j
      BY <1>1, <1>5
    <3>2. stream[B + (u + j)] = X[u + j]
      BY <1>2, <3>1, Zenon
    <3> QED
      BY <2>5, <2>6, <3>1, <3>2
  <2>8. s = D
    BY <1>3, <2>5, <2>6, <2>7, SeqEqual
  <2> QED
    BY <2>8 DEF s
<1>10. SubSeq(X, u + 1, u + d) \in Split(X)
  <2> DEFINE v == u + d
  <2>1. v \in Nat /\ u <= v /\ v <= x /\ X[v + 1] = LF
    BY <1>5, <1>7
  <2>2. \A i \in (u + 1)..v : X[i] # LF
    BY <1>8
  <2>3. X \in Seq(Bytes) /\ Len(X) = x
    BY DEF HasData
  <2> HIDE DEF v
  <2>4. SubSeq(X, u + 1, v) \in Split(X)
    BY <1>6, <2>1, <2>2, <2>3, LinesOfData
  <2> QED
    BY <2>4 DEF v
<1> QED
  BY <1>9, <1>10, Zenon

\* The contents of delimited data end at its delimiter.
LEMMA DelimitedEnds ==
    ASSUME stream \in Seq(Bytes), NEW B \in Nat, NEW x \in Nat, NEW d \in Nat,
           NEW D \in Seq(Bytes), NEW X, HasData(B, x, X), IsDelim(D, d),
           D \notin Split(X), NEW q \in Nat, q = B + x,
           q + d + 1 <= Len(stream), stream[q + d + 1] = LF,
           \A j \in 1..d : stream[q + j] = D[j]
    PROVE  ContentsEnd(Delimited(D), B, q)
<1> DEFINE L == Len(stream)
           h == Delimited(D)
           v == q + d
<1>1. /\ Len(D) = d /\ h.delim = D /\ ~h.is_counted
      /\ \A j \in 1..d : D[j] # LF
  BY DEF IsDelim, Delimited
<1>2. /\ x > 0 /\ X[x] = LF /\ \A j \in 1..x : stream[B + j] = X[j]
  BY DEF HasData
<1> HIDE DEF h
<1>3. L \in Nat /\ q + d + 1 <= L
  BY LenProperties
<1> HIDE DEF L
<1>4. d \in 0..(L - q) /\ v \in q..L /\ q \in 0..L /\ v - q = d /\ v < L /\ v + 1 = q + d + 1
  BY <1>3
<1>5. LineStart(B, q)
  <2>1. x \in 1..x /\ stream[B + x] = X[x]
    BY <1>2
  <2> QED
    BY <1>2, <2>1 DEF LineStart
<1>6. IsLine(q, d)
  <2>1. \A j \in 1..d : stream[q + j] # LF
    BY <1>1
  <2> QED
    BY <1>4, <2>1, Zenon DEF IsLine, L, v
<1> HIDE DEF v
<1>7. Slice(q, v) = D
  <2>1. \A j \in 1..(v - q) : stream[q + j] = D[j]
    BY <1>4
  <2>2. Len(D) = v - q
    BY <1>1, <1>4
  <2> QED
    BY <1>4, <2>1, <2>2, SliceIs DEF L
<1>8. DelimiterAt(h, B, q)
  BY <1>1, <1>5, <1>6, <1>7, Zenon DEF DelimiterAt, v
<1>9. NoDelimiterBefore(h, B, q)
  <2> SUFFICES ASSUME NEW y \in B..(q - 1), DelimiterAt(h, B, y) PROVE FALSE
    BY DEF NoDelimiterBefore
  <2> DEFINE u == y - B
  <2>1. u \in Nat /\ u < x /\ B + u = y
    OBVIOUS
  <2> HIDE DEF u
  <2>2. DelimiterAt(Delimited(D), B, B + u)
    BY <2>1 DEF h
  <2> QED
    BY <2>1, <2>2, DelimiterInData
<1> QED
  BY <1>1, <1>8, <1>9 DEF ContentsEnd, h

\* Delimited data is read back.
LEMMA DelimitedReadsBack ==
    ASSUME stream \in Seq(Bytes), NEW b \in DataBufs, NEW p, NEW e,
           b.delim # None, ValidDelim(b), DelimIsText(b),
           Whole(p, e, DumpDelimited(b))
    PROVE  LET h == Delimited(b.delim)
               B == p + Len(b.delim) + 3
               q == p + Len(b.delim) + 3 + Len(b.data)
           IN  /\ DataLineAt(p, h, B) /\ B \in 0..Len(stream)
               /\ q \in B..Len(stream) /\ ContentsEnd(h, B, q)
               /\ Slice(B, q) = b.data
               /\ ResumesAt(h, B, e)
<1> DEFINE x == Len(b.data)
           d == Len(b.delim)
           D == b.delim
           X == b.data
           t == DumpDelimited(b)
           L == Len(stream)
           h == Delimited(D)
           B == p + d + 3
           q == p + d + 3 + x
           v == q + d
<1>1. /\ X \in Seq(Bytes) /\ D \in Seq(Bytes) /\ x \in Nat /\ d \in Nat /\ L \in Nat
      /\ Len(X) = x /\ Len(D) = d
  BY DataBufTypes, LenProperties
<1>2. IsDelim(D, d)
  <2>1. D # <<>> /\ \A j \in 1..d : D[j] # "NUL"
    BY DEF ValidDelim, EmptyDelim, DelimContainsNul
  <2>2. \A j \in 1..d : D[j] # LF
    BY DEF DelimIsText
  <2> QED
    BY <2>1, <2>2 DEF IsDelim
<1>3. X # <<>> /\ X[x] = LF /\ D \notin Split(X)
  BY DEF ValidDelim, NoFinalLf, DataContainsDelim
<1>4. x > 0
  BY <1>1, <1>3, EmptySeq
<1>5. /\ p \in Nat /\ e \in 0..L
  BY DEF Whole
<1>6. IsDelimitedText(t, Bytes, LF, "data ", "<<", D, X) /\ Whole(p, e, t)
  BY DelimitedText
<1> HIDE DEF x, d, D, X, t
<1>7. DelimitedIn(p, d, x, e, D, X)
  BY <1>1, <1>5, <1>6, DelimitedAt
<1>8. /\ e = q + d + 2 /\ stream[q + d + 1] = LF /\ stream[q + d + 2] = LF
      /\ \A j \in 1..d : stream[q + j] = D[j]
      /\ \A j \in 1..x : stream[B + j] = X[j]
  BY <1>7 DEF DelimitedIn
<1> HIDE DEF L, h
<1>9. /\ B \in Nat /\ q \in Nat /\ q = B + x /\ B \in 0..L /\ q \in B..L
      /\ q - B = x /\ d \in 0..(L - q) /\ v \in q..L /\ v < L
      /\ v + 1 < L /\ v + 1 + 1 = e /\ B + x <= L /\ v + 1 <= L
  <2>1. e = p + d + 3 + x + d + 2
    BY <1>8
  <2> QED
    BY <1>1, <1>5, <2>1
<1>10. DataLineAt(p, h, B)
  BY <1>1, <1>2, <1>5, <1>7, DelimitedDataLine DEF L, h
<1> HIDE DEF B, q
<1>11. HasData(B, x, X)
  BY <1>1, <1>3, <1>4, <1>8, <1>9 DEF HasData, L
<1>12. ContentsEnd(h, B, q)
  <2>1. q + d + 1 <= Len(stream)
    BY <1>9 DEF L
  <2>2. stream[q + d + 1] = LF /\ \A j \in 1..d : stream[q + j] = D[j]
    BY <1>8
  <2>3. B \in Nat /\ q \in Nat /\ q = B + x
    BY <1>9
  <2>4. x \in Nat /\ d \in Nat /\ D \in Seq(Bytes) /\ D \notin Split(X)
    BY <1>1, <1>3
  <2> HIDE DEF v
  <2>5. ContentsEnd(Delimited(D), B, q)
    BY <1>2, <1>11, <2>1, <2>2, <2>3, <2>4, DelimitedEnds, Zenon
  <2> QED
    BY <2>5 DEF h
<1>13. Slice(B, q) = X
  <2>1. B \in 0..Len(stream) /\ q \in B..Len(stream) /\ Len(X) = q - B
    BY <1>1, <1>9 DEF L
  <2>2. \A j \in 1..(q - B) : stream[B + j] = X[j]
    BY <1>8, <1>9
  <2> QED
    BY <1>1, <2>1, <2>2, SliceIs
<1>14. ResumesAt(h, B, e)
  <2>1. Len(h.delim) = d /\ ~h.is_counted
    BY <1>1 DEF h, Delimited
  <2>2. LineEnd(q, d) = v + 1
    BY <1>9 DEF LineEnd, L
  <2>3. stream[v + 1 + 1] = LF
    BY <1>8, <1>9
  <2> HIDE DEF v
  <2>4. SkipOptionalLF(v + 1) = e
    BY <1>9, <2>3 DEF SkipOptionalLF, L
  <2>5. e = SkipOptionalLF(LineEnd(q, Len(h.delim)))
    BY <2>1, <2>2, <2>4
  <2> QED
    BY <1>9, <1>12, <2>1, <2>5 DEF ResumesAt, L
<1> QED
  BY <1>9, <1>10, <1>12, <1>13, <1>14 DEF D, X, d, x, L, h, B, q

\* A command of one line ends in an LF, and is a line if it has no other one.
LEMMA LineIsReadBack ==
    ASSUME stream \in Seq(Bytes), NEW s \in Texts, NEW p, NEW e,
           Whole(p, e, DumpLine(s))
    PROVE  /\ LineStart(p, e) /\ e # p
           /\ \A j \in 1..Len(s) : stream[p + j] = s[j]
           /\ IsText(s) => /\ IsLine(p, Len(s)) /\ Slice(p, p + Len(s)) = s
                           /\ e = LineEnd(p, Len(s))
<1> DEFINE n == Len(s)
           t == DumpLine(s)
           L == Len(stream)
           q == p + n
<1>1. s \in Seq(Bytes) /\ n \in Nat /\ L \in Nat
  BY DumpAssumption, LenProperties
<1>0. IsText(s) <=> \A j \in 1..n : s[j] # LF
  BY DEF IsText
<1>2. /\ Len(t) = n + 1 /\ t[n + 1] = LF
      /\ \A j \in 1..n : t[j] = s[j]
  BY LineText DEF IsLineText
<1>3. /\ p \in Nat /\ e = p + Len(t) /\ e \in 0..L
      /\ \A j \in 1..Len(t) : stream[p + j] = t[j]
  BY DEF Whole
<1> HIDE DEF n, t, L
<1>4. /\ n + 1 \in 1..Len(t) /\ \A j \in 1..n : j \in 1..Len(t)
  BY <1>1, <1>2
<1>5. stream[p + (n + 1)] = LF /\ \A j \in 1..n : stream[p + j] = s[j]
  BY <1>2, <1>3, <1>4, Zenon
<1>6. /\ n \in 0..(L - p) /\ p + n < L /\ p + (n + 1) = p + n + 1 /\ e = p + n + 1
      /\ p \in 0..L /\ q \in p..L /\ q - p = n
  <2>1. e = p + (n + 1)
    BY <1>2, <1>3
  <2> QED
    BY <1>1, <1>3, <2>1
<1>7. ASSUME IsText(s) PROVE IsLine(p, n)
  <2>1. \A j \in 1..n : stream[p + j] # LF
    BY <1>0, <1>5, <1>7, Zenon
  <2> QED
    BY <1>5, <1>6, <2>1, Zenon DEF IsLine, L
<1>8. e = LineEnd(p, n)
  BY <1>6 DEF LineEnd, L
<1> HIDE DEF q
<1>9. Slice(p, q) = s
  <2>1. Len(s) = q - p /\ \A j \in 1..(q - p) : stream[p + j] = s[j]
    BY <1>5, <1>6 DEF n
  <2> QED
    BY <1>1, <1>6, <2>1, SliceIs DEF L
<1>10. LineStart(p, e) /\ e # p
  <2>1. e = p + (n + 1) /\ e # p
    BY <1>1, <1>2, <1>3
  <2> QED
    BY <1>5, <2>1, Zenon DEF LineStart
<1> QED
  BY <1>5, <1>7, <1>8, <1>9, <1>10 DEF n, q

\* What an item is, by its kind.
LEMMA ItemFields ==
    ASSUME NEW item \in ItemType
    PROVE  \/ /\ item.kind = "data" /\ item.at \in Nat /\ item.buf \in DataBufs
              /\ TextOf(item) = DumpData(item.buf)
           \/ /\ item.kind = "line" /\ item.at \in Nat /\ item.text \in Texts
              /\ TextOf(item) = DumpLine(item.text)
<1>1. CASE item \in {DataItem(b, n) : b \in DataBufs, n \in Nat}
  BY <1>1 DEF DataItem, TextOf
<1>2. CASE item \in {LineItem(s, n) : s \in Texts, n \in Nat}
  BY <1>2 DEF LineItem, TextOf
<1> QED
  BY <1>1, <1>2 DEF ItemType

\* TypeOK, from the invariant.
LEMMA IInvTypeOK == IInv => TypeOK
<1> SUFFICES ASSUME IInv PROVE TypeOK
  OBVIOUS
<1>1. /\ stream \in Seq(Bytes) /\ rest \in Seq(Bytes) /\ failed \in BOOLEAN
      /\ Len(items) <= MaxDumps /\ items \in Seq(ItemType) /\ Len(items) \in Nat
      /\ Len(stream) \in Nat
  BY LenProperties DEF IInv
<1>2. ASSUME NEW i \in 1..Len(items)
      PROVE  /\ items[i].kind \in {"data", "line"}
             /\ items[i].at \in 0..Len(stream)
             /\ i < Len(items) => items[i].at < items[i + 1].at
  <2>1. items[i] \in ItemType
    BY <1>1
  <2>2. items[i].kind \in {"data", "line"}
    BY <2>1, ItemFields
  <2>3. CASE i < Len(items)
    <3> DEFINE a == items[i].at
               z == items[i + 1].at
               m == Len(TextOf(items[i]))
               L == Len(stream)
    <3>1. i \in 1..(Len(items) - 1)
      BY <1>1, <2>3
    <3>2. /\ Spells(a, z, TextOf(items[i])) /\ z - a = m
      BY <3>1 DEF IInv, Before
    <3>3. a \in 0..L /\ z \in a..L
      BY <3>2 DEF Spells
    <3>4. m \in Nat /\ m > 0
      BY <2>1, TextTypes, LenProperties
    <3> HIDE DEF a, z, m, L
    <3>5. a \in 0..L /\ a < z
      BY <3>2, <3>3, <3>4
    <3> QED
      BY <2>2, <3>5 DEF a, z, L
  <2>4. CASE ~(i < Len(items))
    <3>1. i = Len(items) /\ items # <<>>
      BY <1>1, <2>4
    <3>2. Spells(items[i].at, Len(stream), TextOf(items[i]))
      BY <3>1 DEF IInv, InProgress
    <3>3. items[i].at \in 0..Len(stream)
      BY <3>2 DEF Spells
    <3> QED
      BY <2>2, <2>4, <3>3
  <2> QED
    BY <2>3, <2>4
<1> QED
  BY <1>1, <1>2 DEF TypeOK

\* LinesReadBack, from the invariant.
LEMMA IInvLinesReadBack == IInv => LinesReadBack
<1> SUFFICES ASSUME IInv, NEW i \in 1..Len(items), Dumped(i), items[i].kind = "line"
             PROVE  /\ IsText(items[i].text) <=> IsReadBackAsLine(i)
                    /\ LineStart(items[i].at, EndOf(i)) /\ EndOf(i) # items[i].at
  BY DEF LinesReadBack
<1> DEFINE p == items[i].at
           s == items[i].text
           e == EndOf(i)
<1>1. items[i] \in ItemType /\ Whole(items[i].at, EndOf(i), TextOf(items[i]))
  BY DumpedWhole
<1>2. items[i].text \in Texts /\ TextOf(items[i]) = DumpLine(items[i].text)
  BY <1>1, ItemFields
<1>3. Whole(p, e, DumpLine(s)) /\ stream \in Seq(Bytes)
  BY <1>1, <1>2 DEF IInv
<1>4. IsReadBackAsLine(i) <=> /\ IsLine(p, Len(s)) /\ Slice(p, p + Len(s)) = s
                              /\ e = LineEnd(p, Len(s))
  BY DEF IsReadBackAsLine
<1>5. s \in Texts
  BY <1>2
<1> HIDE DEF p, s, e
<1>6. /\ LineStart(p, e) /\ e # p
      /\ \A j \in 1..Len(s) : stream[p + j] = s[j]
      /\ IsText(s) => /\ IsLine(p, Len(s)) /\ Slice(p, p + Len(s)) = s
                      /\ e = LineEnd(p, Len(s))
  BY <1>3, <1>5, LineIsReadBack
<1>7. IsLine(p, Len(s)) => IsText(s)
  BY <1>6, Zenon DEF IsLine, IsText
<1>8. IsText(s) <=> IsReadBackAsLine(i)
  BY <1>4, <1>6, <1>7, Zenon
<1> QED
  BY <1>6, <1>8 DEF p, s, e

\* DataReadsBack, from the invariant, by the style of the data.
LEMMA IInvDataReadsBack == IInv => DataReadsBack
<1> SUFFICES ASSUME IInv, NEW i \in 1..Len(items), Dumped(i),
                    items[i].kind = "data", DelimIsText(items[i].buf)
             PROVE  ReadBack(i)
  BY DEF DataReadsBack
<1> DEFINE c == items[i].buf
           p == items[i].at
           e == EndOf(i)
<1>1. items[i] \in ItemType /\ Whole(p, e, TextOf(items[i])) /\ stream \in Seq(Bytes)
  BY DumpedWhole DEF IInv
<1>2. c \in DataBufs /\ TextOf(items[i]) = DumpData(c)
  BY <1>1, ItemFields
<1>3. Whole(p, e, DumpData(c)) /\ DelimIsText(c)
  BY <1>1, <1>2
<1> HIDE DEF c, p, e
<1>4. CASE c.delim # None /\ ValidDelim(c)
  <2> DEFINE h == Delimited(c.delim)
             B == p + Len(c.delim) + 3
             q == p + Len(c.delim) + 3 + Len(c.data)
  <2>1. Whole(p, e, DumpDelimited(c))
    BY <1>3, <1>4 DEF DumpData
  <2>2. /\ DataLineAt(p, h, B) /\ B \in 0..Len(stream)
        /\ q \in B..Len(stream) /\ ContentsEnd(h, B, q)
        /\ Slice(B, q) = c.data
        /\ ResumesAt(h, B, e)
    BY <1>1, <1>2, <1>3, <1>4, <2>1, DelimitedReadsBack
  <2>3. h \in HeadersOf(c)
    BY <1>4 DEF HeadersOf
  <2> HIDE DEF h, B, q
  <2> QED
    BY <2>2, <2>3 DEF ReadBack, c, p, e
<1>5. CASE ~(c.delim # None /\ ValidDelim(c))
  <2> DEFINE h == Counted(Len(c.data))
             B == p + 3
             q == p + 3 + Len(c.data)
  <2>1. Whole(p, e, DumpCounted(c))
    BY <1>3, <1>5 DEF DumpData
  <2>2. /\ DataLineAt(p, h, B) /\ B \in 0..Len(stream)
        /\ q \in B..Len(stream) /\ ContentsEnd(h, B, q)
        /\ Slice(B, q) = c.data
        /\ ResumesAt(h, B, e)
    BY <1>1, <1>2, <2>1, CountedReadsBack
  <2>3. h \in HeadersOf(c)
    BY <1>2, DataBufTypes DEF HeadersOf
  <2> HIDE DEF h, B, q
  <2> QED
    BY <2>2, <2>3 DEF ReadBack, c, p, e
<1> QED
  BY <1>4, <1>5

-----------------------------------------------------------------------------
\* The bytes and places of what is dumped are as TypeOK says.
THEOREM TypeCorrect == Spec => []TypeOK
  BY Inductive, IInvTypeOK, PTL

\* Data that is dumped is read back as it was, and the parser then is where
\* the next value begins (dump.rs:62-87), whatever the data and the delimiter,
\* if the delimiter has no LF.
THEOREM DataAlwaysReadsBack == Spec => []DataReadsBack
  BY Inductive, IInvDataReadsBack, PTL

\* A command of one line is read back as it was exactly if its text has no LF;
\* with one, too, the next value begins on a line of its own (dump.rs:14-63).
THEOREM LinesAlwaysReadBack == Spec => []LinesReadBack
  BY Inductive, IInvLinesReadBack, PTL
=============================================================================
