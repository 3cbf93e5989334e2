---------------------------- MODULE BufPoolProofs ----------------------------
(***************************************************************************)
(* The invariants of the line pool, for every number of buffers, every set *)
(* of texts and every capacity.                                            *)
(***************************************************************************)
EXTENDS BufPool, SequenceTheorems, TLAPS

-----------------------------------------------------------------------------
(* What the operations on lists do to their sets of elements.              *)

\* Appending a new element keeps a list free of duplicates.
LEMMA AppendUnique ==
    ASSUME NEW S, NEW s \in Seq(S), NEW e \in S
    PROVE  /\ ToSet(Append(s, e)) = ToSet(s) \cup {e}
           /\ IsInjective(s) /\ e \notin ToSet(s) => IsInjective(Append(s, e))
BY AppendProperties, LenProperties DEF ToSet, IsInjective

\* Popping the last element removes it, and nothing else.
LEMMA PopUnique ==
    ASSUME NEW S, NEW s \in Seq(S), s # <<>>
    PROVE  /\ Front(s) \in Seq(S)
           /\ Len(Front(s)) = Len(s) - 1
           /\ Last(s) \in S
           /\ Last(s) \in ToSet(s)
           /\ ToSet(Front(s)) \subseteq ToSet(s)
           /\ IsInjective(s) => /\ IsInjective(Front(s))
                                /\ Last(s) \notin ToSet(Front(s))
<1>1. Len(s) \in Nat \ {0} /\ s \in [1..Len(s) -> S] /\ DOMAIN s = 1..Len(s)
  BY EmptySeq, LenProperties
<1>2. /\ Front(s) \in Seq(S)
      /\ Len(Front(s)) = Len(s) - 1
      /\ \A i \in 1..(Len(s) - 1) : Front(s)[i] = s[i]
  BY <1>1, SubSeqProperties DEF Front
<1>3. DOMAIN Front(s) = 1..(Len(s) - 1)
  BY <1>2, LenProperties
<1> QED
  BY <1>1, <1>2, <1>3 DEF ToSet, IsInjective, Last

\* Removing the head removes it, and nothing else.
LEMMA TailUnique ==
    ASSUME NEW S, NEW s \in Seq(S), s # <<>>
    PROVE  /\ Tail(s) \in Seq(S)
           /\ Head(s) \in S
           /\ Head(s) \in ToSet(s)
           /\ ToSet(Tail(s)) \subseteq ToSet(s)
           /\ IsInjective(s) => /\ IsInjective(Tail(s))
                                /\ Head(s) \notin ToSet(Tail(s))
<1>1. Len(s) \in Nat \ {0} /\ s \in [1..Len(s) -> S] /\ DOMAIN s = 1..Len(s)
  BY EmptySeq, LenProperties
<1>2. /\ Tail(s) \in Seq(S)
      /\ Len(Tail(s)) = Len(s) - 1
      /\ \A i \in 1..(Len(s) - 1) : Tail(s)[i] = s[i + 1]
  BY <1>1, HeadTailProperties
<1>3. DOMAIN Tail(s) = 1..(Len(s) - 1)
  BY <1>2, LenProperties
<1>4. Head(s) = s[1]
  BY <1>1
<1> QED
  BY <1>1, <1>2, <1>3, <1>4 DEF ToSet, IsInjective

\* The last elements of a list.
LEMMA SuffixProperties ==
    ASSUME NEW S, NEW s \in Seq(S), NEW k \in 0..Len(s)
    PROVE  /\ SubSeq(s, k + 1, Len(s)) \in Seq(S)
           /\ Len(SubSeq(s, k + 1, Len(s))) = Len(s) - k
           /\ \A i \in 1..(Len(s) - k) : SubSeq(s, k + 1, Len(s))[i] = s[k + i]
<1>1. Len(s) \in Nat /\ \A i \in 1..Len(s) : s[i] \in S
  BY LenProperties
<1>2. /\ k \in Int /\ k + 1 \in Int /\ k <= Len(s)
      /\ \A i \in (k + 1)..Len(s) : s[i] \in S
  BY <1>1
<1> DEFINE m == k + 1
<1>3. m \in Int /\ Len(s) \in Int /\ \A i \in m..Len(s) : s[i] \in S
  BY <1>1, <1>2
<1> HIDE DEF m
<1>4. /\ SubSeq(s, m, Len(s)) \in Seq(S)
      /\ Len(SubSeq(s, m, Len(s))) = IF m <= Len(s) THEN Len(s) - m + 1 ELSE 0
      /\ \A i \in 1..(Len(s) - m + 1) : SubSeq(s, m, Len(s))[i] = s[m + i - 1]
  BY <1>3, SubSeqProperties
<1>5. m = k + 1
  BY DEF m
<1>6. Len(s) - m + 1 = Len(s) - k /\ \A i \in Int : m + i - 1 = k + i
  BY <1>1, <1>2, <1>5
<1>7. Len(SubSeq(s, m, Len(s))) = Len(s) - k
  <2>1. Len(SubSeq(s, m, Len(s))) = IF m <= Len(s) THEN Len(s) - m + 1 ELSE 0
    BY <1>4
  <2>2. Len(s) \in Nat /\ k \in Nat /\ k <= Len(s) /\ m = k + 1
    BY <1>1, <1>2, <1>5
  <2>3. CASE m <= Len(s)
    BY <2>1, <2>2, <2>3
  <2>4. CASE ~(m <= Len(s))
    BY <2>1, <2>2, <2>4
  <2> QED
    BY <2>3, <2>4
<1>8. \A i \in 1..(Len(s) - k) : SubSeq(s, m, Len(s))[i] = s[k + i]
  BY <1>4, <1>6
<1> QED
  BY <1>4, <1>5, <1>7, <1>8

\* Cutting a list in two shares its elements between the parts.
LEMMA SplitUnique ==
    ASSUME NEW S, NEW s \in Seq(S), NEW k \in 0..Len(s)
    PROVE  LET p == SubSeq(s, 1, k)
               r == SubSeq(s, k + 1, Len(s))
           IN  /\ p \in Seq(S) /\ r \in Seq(S)
               /\ Len(r) = Len(s) - k
               /\ \A i \in 1..Len(r) : r[i] = s[k + i]
               /\ ToSet(p) \cup ToSet(r) \subseteq ToSet(s)
               /\ IsInjective(s) => /\ IsInjective(p) /\ IsInjective(r)
                                    /\ ToSet(p) \cap ToSet(r) = {}
<1> DEFINE p == SubSeq(s, 1, k)
           r == SubSeq(s, k + 1, Len(s))
<1>1. Len(s) \in Nat /\ DOMAIN s = 1..Len(s) /\ \A i \in 1..Len(s) : s[i] \in S
  BY LenProperties
<1>2. p \in Seq(S) /\ Len(p) = k /\ \A i \in 1..k : p[i] = s[i]
  BY <1>1, SubSeqProperties
<1>3. /\ r \in Seq(S)
      /\ Len(r) = Len(s) - k
      /\ \A i \in 1..(Len(s) - k) : r[i] = s[k + i]
  BY SuffixProperties
<1>4. DOMAIN p = 1..k /\ DOMAIN r = 1..(Len(s) - k)
  BY <1>2, <1>3, LenProperties
<1> HIDE DEF p, r
<1>5. ToSet(p) \cup ToSet(r) \subseteq ToSet(s)
  <2>1. \A i \in 1..k : i \in 1..Len(s) /\ p[i] = s[i]
    BY <1>1, <1>2
  <2>2. \A i \in 1..(Len(s) - k) : k + i \in 1..Len(s) /\ r[i] = s[k + i]
    BY <1>1, <1>3
  <2> QED
    BY <1>1, <1>4, <2>1, <2>2 DEF ToSet
<1>6. ASSUME IsInjective(s)
      PROVE  IsInjective(p) /\ IsInjective(r)
  <2>1. IsInjective(p)
    BY <1>1, <1>2, <1>4, <1>6 DEF IsInjective
  <2>2. IsInjective(r)
    <3>1. SUFFICES ASSUME NEW i \in 1..(Len(s) - k), NEW j \in 1..(Len(s) - k),
                          r[i] = r[j]
                   PROVE  i = j
      BY <1>4 DEF IsInjective
    <3>2. /\ k + i \in 1..Len(s) /\ k + j \in 1..Len(s)
          /\ s[k + i] = s[k + j]
      BY <1>1, <1>3, <3>1
    <3>3. k + i = k + j
      BY <1>1, <1>6, <3>2 DEF IsInjective
    <3> QED
      BY <3>3
  <2> QED
    BY <2>1, <2>2
<1>7. ASSUME IsInjective(s)
      PROVE  ToSet(p) \cap ToSet(r) = {}
  <2>1. SUFFICES ASSUME NEW i \in 1..k, NEW j \in 1..(Len(s) - k), p[i] = r[j]
                 PROVE  FALSE
    BY <1>4 DEF ToSet
  <2>2. s[i] = s[k + j] /\ i \in 1..Len(s) /\ k + j \in 1..Len(s) /\ i # k + j
    BY <1>1, <1>2, <1>3, <2>1
  <2> QED
    BY <1>1, <1>7, <2>2 DEF IsInjective
<1> QED
  BY <1>2, <1>3, <1>5, <1>6, <1>7 DEF p, r

\* A concatenation is free of duplicates iff its parts are, and share nothing.
LEMMA ConcatUnique ==
    ASSUME NEW S, NEW s \in Seq(S), NEW t \in Seq(S)
    PROVE  /\ s \o t \in Seq(S)
           /\ ToSet(s \o t) = ToSet(s) \cup ToSet(t)
           /\ IsInjective(s \o t) <=> /\ IsInjective(s) /\ IsInjective(t)
                                      /\ ToSet(s) \cap ToSet(t) = {}
<1> DEFINE c == s \o t
<1>1. /\ Len(s) \in Nat /\ DOMAIN s = 1..Len(s)
      /\ Len(t) \in Nat /\ DOMAIN t = 1..Len(t)
  BY LenProperties
<1>2. /\ c \in Seq(S)
      /\ Len(c) = Len(s) + Len(t)
      /\ \A i \in 1..(Len(s) + Len(t)) :
             c[i] = IF i <= Len(s) THEN s[i] ELSE t[i - Len(s)]
  BY ConcatProperties
<1>3. DOMAIN c = 1..(Len(s) + Len(t))
  BY <1>2, LenProperties
<1>4. /\ \A i \in 1..Len(s) : i \in 1..(Len(s) + Len(t)) /\ c[i] = s[i]
      /\ \A i \in 1..Len(t) : /\ Len(s) + i \in 1..(Len(s) + Len(t))
                              /\ c[Len(s) + i] = t[i]
  BY <1>1, <1>2
<1> HIDE DEF c
<1>5. ToSet(c) = ToSet(s) \cup ToSet(t)
  <2>1. ASSUME NEW i \in 1..(Len(s) + Len(t))
        PROVE  c[i] \in ToSet(s) \cup ToSet(t)
    <3>1. CASE i <= Len(s)
      <4>1. i \in 1..Len(s)
        BY <1>1, <3>1
      <4>2. c[i] = s[i]
        BY <1>4, <4>1
      <4> QED
        BY <1>1, <4>1, <4>2 DEF ToSet
    <3>2. CASE i > Len(s)
      <4>0. i - Len(s) \in 1..Len(t)
        BY <1>1, <3>2
      <4>1. i - Len(s) \in 1..Len(t) /\ c[i] = t[i - Len(s)]
        BY <1>1, <1>2, <3>2, <4>0
      <4> QED
        BY <1>1, <4>1 DEF ToSet
    <3> QED
      BY <1>1, <3>1, <3>2
  <2>2. ToSet(c) \subseteq ToSet(s) \cup ToSet(t)
    BY <1>3, <2>1 DEF ToSet
  <2>3. ToSet(s) \subseteq ToSet(c) /\ ToSet(t) \subseteq ToSet(c)
    BY <1>1, <1>3, <1>4 DEF ToSet
  <2> QED
    BY <2>2, <2>3
<1>6. ASSUME IsInjective(c)
      PROVE  IsInjective(s) /\ IsInjective(t) /\ ToSet(s) \cap ToSet(t) = {}
  <2>1. IsInjective(s)
    BY <1>1, <1>3, <1>4, <1>6 DEF IsInjective
  <2>2. IsInjective(t)
    <3>1. SUFFICES ASSUME NEW i \in 1..Len(t), NEW j \in 1..Len(t), t[i] = t[j]
                   PROVE  i = j
      BY <1>1 DEF IsInjective
    <3>2. Len(s) + i = Len(s) + j
      <4>1. /\ c[Len(s) + i] = c[Len(s) + j]
            /\ Len(s) + i \in DOMAIN c /\ Len(s) + j \in DOMAIN c
        BY <1>3, <1>4, <3>1
      <4> QED
        BY <1>6, <4>1 DEF IsInjective
    <3> QED
      BY <1>1, <3>2
  <2>3. ToSet(s) \cap ToSet(t) = {}
    <3>1. SUFFICES ASSUME NEW i \in 1..Len(s), NEW j \in 1..Len(t), s[i] = t[j]
                   PROVE  FALSE
      BY <1>1 DEF ToSet
    <3>2. i = Len(s) + j
      BY <1>3, <1>4, <1>6, <3>1 DEF IsInjective
    <3> QED
      BY <1>1, <3>2
  <2> QED
    BY <2>1, <2>2, <2>3
<1>7. ASSUME IsInjective(s), IsInjective(t), ToSet(s) \cap ToSet(t) = {}
      PROVE  IsInjective(c)
  <2>1. \A i \in 1..Len(s), j \in 1..Len(t) : s[i] # t[j]
    BY <1>1, <1>7 DEF ToSet
  <2>2. SUFFICES ASSUME NEW i \in 1..(Len(s) + Len(t)),
                        NEW j \in 1..(Len(s) + Len(t)),
                        c[i] = c[j]
                 PROVE  i = j
    BY <1>3 DEF IsInjective
  <2>3. \A h \in 1..(Len(s) + Len(t)) :
            \/ h \in 1..Len(s) /\ c[h] = s[h]
            \/ h - Len(s) \in 1..Len(t) /\ c[h] = t[h - Len(s)]
    BY <1>1, <1>2
  <2>4. CASE i \in 1..Len(s) /\ j \in 1..Len(s)
    BY <1>1, <1>4, <1>7, <2>2, <2>4 DEF IsInjective
  <2>5. CASE i \notin 1..Len(s) /\ j \notin 1..Len(s)
    <3>1. /\ i - Len(s) \in 1..Len(t) /\ j - Len(s) \in 1..Len(t)
          /\ t[i - Len(s)] = t[j - Len(s)]
      BY <2>2, <2>3, <2>5
    <3>2. i - Len(s) = j - Len(s)
      BY <1>1, <1>7, <3>1 DEF IsInjective
    <3> QED
      BY <1>1, <3>2
  <2> QED
    BY <2>1, <2>2, <2>3, <2>4, <2>5
<1> QED
  BY <1>2, <1>5, <1>6, <1>7 DEF c

-----------------------------------------------------------------------------
(* The type invariant.                                                      *)

\* A truncation removes no more buffers than there are.
LEMMA LiveRemoveBounds ==
    ASSUME TypeOK, NEW len \in Nat
    PROVE  LiveRemove(len) \in 0..Len(live)
<1>1. Len(live) \in Nat
  BY LenProperties DEF TypeOK
<1> QED
  BY <1>1 DEF LiveRemove

\* reserve leaves the free list with a capacity.
LEMMA ReserveBounds ==
    ASSUME TypeOK, NEW additional \in Nat
    PROVE  Reserve(additional) \in Nat
<1>1. Len(free) \in Nat /\ capacity \in Nat
  BY LenProperties DEF TypeOK
<1> QED
  BY <1>1 DEF Reserve, AtLeast

\* TakeBuffer takes a buffer that no other list holds, and leaves a free list
\* without it.
LEMMA TakeBufferFacts ==
    ASSUME TypeOK, NEW b \in Buffers, TakeBuffer(b)
    PROVE  /\ free' \in Seq(Buffers)
           /\ ToSet(free') \subseteq ToSet(free)
           /\ Len(free') <= Len(free)
           /\ b \in ToSet(free) \/ Unallocated(b)
           /\ IsInjective(free) => IsInjective(free') /\ b \notin ToSet(free')
<1>0. Len(free) \in Nat
  BY LenProperties DEF TypeOK
<1>1. CASE free = <<>>
  BY <1>0, <1>1 DEF TakeBuffer, Unallocated, TypeOK
<1>2. CASE free # <<>>
  BY <1>0, <1>2, PopUnique DEF TakeBuffer, TypeOK
<1> QED
  BY <1>1, <1>2

\* Every step keeps the types.
LEMMA TypeOKStep ==
    ASSUME TypeOK, [Next]_vars
    PROVE  TypeOK'
<1> USE DEF TypeOK
<1>1. ASSUME NEW b \in Buffers, NEW t \in Texts, PushBack(b, t)
      PROVE  TypeOK'
  BY <1>1, TakeBufferFacts, AppendProperties DEF PushBack
<1>2. ASSUME NEW b \in Buffers, NEW t \in Texts, NewAuxBuffer(b, t)
      PROVE  TypeOK'
  BY <1>2, TakeBufferFacts, AppendProperties DEF NewAuxBuffer
<1>3. ASSUME NEW len \in Lens, TruncateBack(len)
      PROVE  TypeOK'
  <2>1. CASE Len(free) > MAX_FREE_CAPACITY
    BY <1>3, <2>1 DEF TruncateBack
  <2>2. CASE ~(Len(free) > MAX_FREE_CAPACITY)
    <3>1. LiveRemove(len) \in 0..Len(live) /\ Len(live) \in Nat
      BY LiveRemoveBounds, LenProperties, BufPoolAssumption
    <3>2. Additional(len) \in Nat
      <4>1. Len(aux) \in Nat /\ Len(free) \in Nat /\ MAX_FREE_CAPACITY \in Nat
        BY LenProperties, BufPoolAssumption
      <4> QED
        BY <2>2, <3>1, <4>1 DEF Additional
    <3>3. /\ capacity' = Reserve(Additional(len))
          /\ live' = SubSeq(live, LiveRemove(len) + 1, Len(live))
          /\ draining' = SubSeq(live, 1, LiveRemove(len)) \o aux
          /\ aux' = <<>>
      BY <1>3, <2>2 DEF TruncateBack
    <3>4. capacity' \in Nat
      BY <3>2, <3>3, ReserveBounds
    <3>5. live' \in Seq(Buffers) /\ SubSeq(live, 1, LiveRemove(len)) \in Seq(Buffers)
      BY <3>1, <3>3, SplitUnique
    <3>6. draining' \in Seq(Buffers)
      BY <3>3, <3>5, ConcatProperties
    <3> QED
      BY <1>3, <3>3, <3>4, <3>5, <3>6, EmptySeq DEF TruncateBack
  <2> QED
    BY <2>1, <2>2
<1>4. CASE RecycleStop
  BY <1>4 DEF RecycleStop
<1>5. CASE Recycle
  BY <1>5, TailUnique, AppendProperties DEF Recycle
<1>6. CASE UNCHANGED vars
  BY <1>6 DEF vars
<1> QED
  BY <1>1, <1>2, <1>3, <1>4, <1>5, <1>6 DEF Next

\* The pool's lists always hold buffers: the type invariant of BufPool.
THEOREM TypeCorrect == Spec => []TypeOK
<1>1. Init => TypeOK
  BY BufPoolAssumption, EmptySeq DEF Init, TypeOK
<1>2. TypeOK /\ [Next]_vars => TypeOK'
  BY TypeOKStep
<1> QED
  BY <1>1, <1>2, PTL DEF Spec

-----------------------------------------------------------------------------
(* Ownership: no buffer is in two lists of the pool, nor twice in one.      *)

Disjoint ==
    /\ IsInjective(live) /\ IsInjective(aux)
    /\ IsInjective(free) /\ IsInjective(draining)
    /\ ToSet(live) \cap (ToSet(aux) \cup ToSet(free) \cup ToSet(draining)) = {}
    /\ ToSet(aux) \cap (ToSet(free) \cup ToSet(draining)) = {}
    /\ ToSet(free) \cap ToSet(draining) = {}

\* Every step moves buffers between the lists without sharing them.
LEMMA DisjointStep ==
    ASSUME TypeOK, Disjoint, [Next]_vars
    PROVE  Disjoint'
<1> USE DEF TypeOK
<1>1. ASSUME NEW b \in Buffers, NEW t \in Texts, PushBack(b, t)
      PROVE  Disjoint'
  <2>1. /\ ToSet(free') \subseteq ToSet(free) /\ IsInjective(free')
        /\ b \notin ToSet(free')
        /\ b \in ToSet(free) \/ Unallocated(b)
    BY <1>1, TakeBufferFacts DEF PushBack, Disjoint, Unallocated
  <2>2. b \notin ToSet(live) \cup ToSet(aux) \cup ToSet(draining)
    BY <2>1 DEF Disjoint, Unallocated
  <2>3. /\ ToSet(live') = ToSet(live) \cup {b} /\ IsInjective(live')
        /\ aux' = aux /\ draining' = draining
    BY <1>1, <2>2, AppendUnique DEF PushBack, Disjoint
  <2>4. ToSet(aux) \cap ToSet(live') = {}
    BY <2>2, <2>3 DEF Disjoint
  <2>5. ToSet(live') \cap ToSet(free') = {}
    BY <2>1, <2>3 DEF Disjoint
  <2>6. ToSet(live') \cap ToSet(draining) = {}
    BY <2>2, <2>3 DEF Disjoint
  <2>7. ToSet(free') \cap (ToSet(aux) \cup ToSet(draining)) = {}
    BY <2>1 DEF Disjoint
  <2> QED
    BY <2>1, <2>3, <2>4, <2>5, <2>6, <2>7 DEF Disjoint
<1>2. ASSUME NEW b \in Buffers, NEW t \in Texts, NewAuxBuffer(b, t)
      PROVE  Disjoint'
  <2>1. /\ ToSet(free') \subseteq ToSet(free) /\ IsInjective(free')
        /\ b \notin ToSet(free')
        /\ b \in ToSet(free) \/ Unallocated(b)
    BY <1>2, TakeBufferFacts DEF NewAuxBuffer, Disjoint, Unallocated
  <2>2. b \notin ToSet(live) \cup ToSet(aux) \cup ToSet(draining)
    BY <2>1 DEF Disjoint, Unallocated
  <2>3. /\ ToSet(aux') = ToSet(aux) \cup {b} /\ IsInjective(aux')
        /\ live' = live /\ draining' = draining
    BY <1>2, <2>2, AppendUnique DEF NewAuxBuffer, Disjoint
  <2>4. ToSet(live) \cap ToSet(aux') = {}
    BY <2>2, <2>3 DEF Disjoint
  <2>5. ToSet(aux') \cap ToSet(free') = {}
    BY <2>1, <2>3 DEF Disjoint
  <2>6. ToSet(aux') \cap ToSet(draining) = {}
    BY <2>2, <2>3 DEF Disjoint
  <2>7. ToSet(free') \cap (ToSet(live) \cup ToSet(draining)) = {}
    BY <2>1 DEF Disjoint
  <2> QED
    BY <2>1, <2>3, <2>4, <2>5, <2>6, <2>7 DEF Disjoint
<1>3. ASSUME NEW len \in Lens, TruncateBack(len)
      PROVE  Disjoint'
  <2>1. CASE Len(free) > MAX_FREE_CAPACITY
    BY <1>3, <2>1 DEF TruncateBack, Disjoint
  <2>2. CASE ~(Len(free) > MAX_FREE_CAPACITY)
    <3> DEFINE p == SubSeq(live, 1, LiveRemove(len))
    <3>1. /\ live' = SubSeq(live, LiveRemove(len) + 1, Len(live))
          /\ draining' = p \o aux
          /\ aux' = <<>> /\ free' = free /\ draining = <<>>
      BY <1>3, <2>2 DEF TruncateBack, Running
    <3>2. /\ p \in Seq(Buffers)
          /\ ToSet(p) \cup ToSet(live') \subseteq ToSet(live)
          /\ IsInjective(p) /\ IsInjective(live')
          /\ ToSet(p) \cap ToSet(live') = {}
      BY <3>1, LiveRemoveBounds, SplitUnique, BufPoolAssumption DEF Disjoint
    <3> HIDE DEF p
    <3>3. /\ ToSet(draining') = ToSet(p) \cup ToSet(aux)
          /\ IsInjective(draining')
      BY <3>1, <3>2, ConcatUnique DEF Disjoint
    <3>4. ToSet(aux') = {} /\ IsInjective(aux')
      BY <3>1 DEF ToSet, IsInjective
    <3> QED
      BY <3>1, <3>2, <3>3, <3>4 DEF Disjoint
  <2> QED
    BY <2>1, <2>2
<1>4. CASE RecycleStop
  <2>1. ToSet(draining') = {} /\ IsInjective(draining')
    BY <1>4 DEF RecycleStop, ToSet, IsInjective
  <2> QED
    BY <1>4, <2>1 DEF RecycleStop, Disjoint
<1>5. CASE Recycle
  <2>1. /\ ToSet(draining') \subseteq ToSet(draining) /\ IsInjective(draining')
        /\ Head(draining) \in Buffers
        /\ Head(draining) \in ToSet(draining) \ ToSet(draining')
    BY <1>5, TailUnique DEF Recycle, Disjoint
  <2>2. /\ ToSet(free') \subseteq ToSet(free) \cup {Head(draining)}
        /\ IsInjective(free')
    BY <1>5, <2>1, AppendUnique DEF Recycle, Disjoint
  <2> QED
    BY <1>5, <2>1, <2>2 DEF Recycle, Disjoint
<1>6. CASE UNCHANGED vars
  BY <1>6 DEF vars, Disjoint
<1> QED
  BY <1>1, <1>2, <1>3, <1>4, <1>5, <1>6 DEF Next

-----------------------------------------------------------------------------
(* What the buffers hold.                                                   *)

Contents == SlicesStable /\ LiveIsRecentHistory

\* A step writes only into a buffer that no list of lines or of free buffers
\* holds, which is why ownership is part of the inductive invariant.
LEMMA ContentsStep ==
    ASSUME TypeOK, Disjoint, Contents, [Next]_vars
    PROVE  Contents'
<1> USE DEF TypeOK
<1>0. /\ Len(live) \in Nat /\ DOMAIN live = 1..Len(live)
      /\ Len(history) \in Nat /\ DOMAIN history = 1..Len(history)
      /\ \A i \in 1..Len(live) : live[i] \in Buffers
  BY LenProperties
<1>1. ASSUME NEW b \in Buffers, NEW t \in Texts, PushBack(b, t)
      PROVE  Contents'
  <2>1. /\ ToSet(free') \subseteq ToSet(free)
        /\ b \notin ToSet(free')
        /\ b \in ToSet(free) \/ Unallocated(b)
    BY <1>1, TakeBufferFacts DEF PushBack, Disjoint
  <2>2. b \notin ToSet(live) \cup ToSet(aux)
    BY <2>1 DEF Disjoint, Unallocated
  <2>3. /\ live' = Append(live, b) /\ aux' = aux
        /\ text' = [text EXCEPT ![b] = t]
        /\ lent' = [lent EXCEPT ![b] = t]
        /\ history' = Append(history, t)
    BY <1>1 DEF PushBack
  <2>4. /\ Len(live') = Len(live) + 1
        /\ \A i \in 1..Len(live) : live'[i] = live[i]
        /\ live'[Len(live) + 1] = b
        /\ ToSet(live') = ToSet(live) \cup {b}
    BY <2>3, AppendProperties, AppendUnique
  <2>5. /\ Len(history') = Len(history) + 1
        /\ \A i \in 1..Len(history) : history'[i] = history[i]
        /\ history'[Len(history) + 1] = t
    BY <2>3, AppendProperties
  <2>6. SlicesStable'
    BY <2>3, <2>4 DEF Contents, SlicesStable
  <2>7. LiveIsRecentHistory'
    <3>1. Len(live') <= Len(history')
      BY <1>0, <2>4, <2>5 DEF Contents, LiveIsRecentHistory
    <3>2. ASSUME NEW i \in 1..Len(live')
          PROVE  text'[live'[i]] = history'[Len(history') - Len(live') + i]
      <4>1. Len(history') - Len(live') = Len(history) - Len(live)
        BY <1>0, <2>4, <2>5
      <4>2. CASE i = Len(live) + 1
        <5>1. Len(history) - Len(live) + i = Len(history) + 1
          BY <1>0, <4>2
        <5> QED
          BY <2>3, <2>4, <2>5, <4>1, <4>2, <5>1
      <4>3. CASE i # Len(live) + 1
        <5>0. Len(live) \in Nat /\ i \in 1..(Len(live) + 1)
          BY <1>0, <2>4
        <5>1. i \in 1..Len(live)
          <6> HIDE DEF TypeOK
          <6> QED
            BY <5>0, <4>3
        <5>2. live[i] \in Buffers /\ live[i] # b
          BY <1>0, <2>2, <5>1 DEF ToSet
        <5>3. text'[live'[i]] = text[live[i]]
          BY <2>3, <2>4, <5>1, <5>2
        <5>4. Len(history) - Len(live) + i \in 1..Len(history)
          BY <1>0, <5>1 DEF Contents, LiveIsRecentHistory
        <5>5. text[live[i]] = history[Len(history) - Len(live) + i]
          BY <5>1 DEF Contents, LiveIsRecentHistory
        <5> QED
          BY <2>5, <4>1, <5>3, <5>4, <5>5
      <4> QED
        BY <4>2, <4>3
    <3> QED
      BY <3>1, <3>2 DEF LiveIsRecentHistory
  <2> QED
    BY <2>6, <2>7 DEF Contents
<1>2. ASSUME NEW b \in Buffers, NEW t \in Texts, NewAuxBuffer(b, t)
      PROVE  Contents'
  <2>1. /\ ToSet(free') \subseteq ToSet(free)
        /\ b \notin ToSet(free')
        /\ b \in ToSet(free) \/ Unallocated(b)
    BY <1>2, TakeBufferFacts DEF NewAuxBuffer, Disjoint
  <2>2. b \notin ToSet(live) \cup ToSet(aux)
    BY <2>1 DEF Disjoint, Unallocated
  <2>3. /\ aux' = Append(aux, b) /\ live' = live
        /\ text' = [text EXCEPT ![b] = t]
        /\ lent' = [lent EXCEPT ![b] = t]
        /\ history' = history
    BY <1>2 DEF NewAuxBuffer
  <2>4. ToSet(aux') = ToSet(aux) \cup {b}
    BY <2>3, AppendUnique
  <2>5. SlicesStable'
    BY <2>3, <2>4 DEF Contents, SlicesStable
  <2>6. LiveIsRecentHistory'
    <3>1. \A i \in 1..Len(live) : text'[live[i]] = text[live[i]]
      BY <1>0, <2>2, <2>3 DEF ToSet
    <3> QED
      BY <2>3, <3>1 DEF Contents, LiveIsRecentHistory
  <2> QED
    BY <2>5, <2>6 DEF Contents
<1>3. ASSUME NEW len \in Lens, TruncateBack(len)
      PROVE  Contents'
  <2>1. /\ lent' = [b \in Buffers |-> NotLent] /\ text' = text
        /\ free' = free /\ history' = history
    BY <1>3 DEF TruncateBack
  <2>2. SlicesStable'
    BY <2>1 DEF Contents, SlicesStable
  <2>3. LiveIsRecentHistory'
    <3>1. CASE Len(free) > MAX_FREE_CAPACITY
      BY <1>3, <2>1, <3>1 DEF TruncateBack, Contents, LiveIsRecentHistory
    <3>2. CASE ~(Len(free) > MAX_FREE_CAPACITY)
      <4> DEFINE k == LiveRemove(len)
      <4>1. k \in 0..Len(live)
        BY LiveRemoveBounds, BufPoolAssumption
      <4>2. live' = SubSeq(live, k + 1, Len(live))
        BY <1>3, <3>2 DEF TruncateBack
      <4> HIDE DEF k
      <4>3. /\ Len(live') = Len(live) - k
            /\ \A i \in 1..(Len(live) - k) : live'[i] = live[k + i]
        BY <4>1, <4>2, SuffixProperties
      <4>4. ASSUME NEW i \in 1..Len(live')
            PROVE  text[live'[i]] = history[Len(history) - Len(live') + i]
        <5>1. /\ live'[i] = live[k + i] /\ k + i \in 1..Len(live)
              /\ Len(history) - Len(live') + i = Len(history) - Len(live) + (k + i)
          BY <1>0, <4>1, <4>3
        <5> QED
          BY <5>1 DEF Contents, LiveIsRecentHistory
      <4>5. Len(live') <= Len(history)
        BY <1>0, <4>1, <4>3 DEF Contents, LiveIsRecentHistory
      <4> QED
        BY <2>1, <4>4, <4>5 DEF LiveIsRecentHistory
    <3> QED
      BY <3>1, <3>2
  <2> QED
    BY <2>2, <2>3 DEF Contents
<1>4. CASE RecycleStop
  BY <1>4 DEF RecycleStop, Contents, SlicesStable, LiveIsRecentHistory
<1>5. CASE Recycle
  BY <1>5 DEF Recycle, Contents, SlicesStable, LiveIsRecentHistory
<1>6. CASE UNCHANGED vars
  BY <1>6 DEF vars, Contents, SlicesStable, LiveIsRecentHistory
<1> QED
  BY <1>1, <1>2, <1>3, <1>4, <1>5, <1>6 DEF Next

-----------------------------------------------------------------------------
\* The inductive invariant: types, ownership and contents.
IInv == TypeOK /\ Disjoint /\ Contents

\* The invariant always holds.
LEMMA IInvHolds == Spec => []IInv
<1>1. Init => IInv
  <2> SUFFICES ASSUME Init
               PROVE  IInv
    OBVIOUS
  <2>1. TypeOK
    BY BufPoolAssumption, EmptySeq DEF Init, TypeOK
  <2>2. Disjoint
    BY DEF Init, Disjoint, IsInjective, ToSet
  <2>3. Contents
    BY EmptySeq DEF Init, Contents, SlicesStable, LiveIsRecentHistory, ToSet
  <2> QED
    BY <2>1, <2>2, <2>3 DEF IInv
<1>2. IInv /\ [Next]_vars => IInv'
  BY TypeOKStep, DisjointStep, ContentsStep DEF IInv
<1> QED
  BY <1>1, <1>2, PTL DEF Spec

\* The documented promise of the pool: a slice is stable until truncate_back.
THEOREM SlicesStayStable == Spec => []SlicesStable
<1>1. IInv => SlicesStable
  BY DEF IInv, Contents
<1> QED
  BY <1>1, IInvHolds, PTL

\* Reuse never mixes the lines of different commands, nor their order.
THEOREM LiveStaysRecentHistory == Spec => []LiveIsRecentHistory
<1>1. IInv => LiveIsRecentHistory
  BY DEF IInv, Contents
<1> QED
  BY <1>1, IInvHolds, PTL
=============================================================================
