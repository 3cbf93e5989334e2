---------------------------- MODULE RefnameProofs ----------------------------
(***************************************************************************)
(* Theorems about check_format, for every set of refnames over any bytes   *)
(* and every combination of flags.                                         *)
(***************************************************************************)
EXTENDS Refname, SequenceTheorems, TLAPS

-----------------------------------------------------------------------------
(* Bytes and pairs of bytes of a sequence.                                   *)

\* One byte of a sequence, and two, as a part of it.
LEMMA SubSeqOfOne ==
    ASSUME NEW S, NEW s \in Seq(S), NEW k \in 1..Len(s)
    PROVE  SubSeq(s, k, k) = <<s[k]>>
<1>1. Len(s) \in Nat /\ k \in Int /\ \A n \in k..k : s[n] \in S
  BY LenProperties
<1>2. /\ SubSeq(s, k, k) \in Seq(S) /\ Len(SubSeq(s, k, k)) = 1
      /\ SubSeq(s, k, k)[1] = s[k]
  BY <1>1, SubSeqProperties
<1>3. <<s[k]>> \in Seq(S) /\ Len(<<s[k]>>) = 1 /\ <<s[k]>>[1] = s[k]
  BY <1>1
<1>4. \A n \in 1..Len(SubSeq(s, k, k)) : SubSeq(s, k, k)[n] = <<s[k]>>[n]
  BY <1>2, <1>3
<1> QED
  BY <1>2, <1>3, <1>4, SeqEqual

LEMMA SubSeqOfTwo ==
    ASSUME NEW S, NEW s \in Seq(S), NEW k \in 1..(Len(s) - 1)
    PROVE  SubSeq(s, k, k + 1) = <<s[k], s[k + 1]>>
<1>1. Len(s) \in Nat /\ k \in Int /\ k + 1 \in Int /\ \A n \in k..(k + 1) : s[n] \in S
  BY LenProperties
<1>2. /\ SubSeq(s, k, k + 1) \in Seq(S) /\ Len(SubSeq(s, k, k + 1)) = 2
      /\ SubSeq(s, k, k + 1)[1] = s[k] /\ SubSeq(s, k, k + 1)[2] = s[k + 1]
  BY <1>1, SubSeqProperties
<1> DEFINE pair == <<s[k], s[k + 1]>>
<1>3. pair \in Seq(S) /\ Len(pair) = 2 /\ pair[1] = s[k] /\ pair[2] = s[k + 1]
  BY <1>1
<1> HIDE DEF pair
<1>4. ASSUME NEW n \in 1..Len(SubSeq(s, k, k + 1))
      PROVE  SubSeq(s, k, k + 1)[n] = pair[n]
  <2>1. n \in 1..2
    BY <1>2, Zenon
  <2>2. n = 1 \/ n = 2
    BY <2>1
  <2> QED
    BY <1>2, <1>3, <2>2, Zenon
<1>5. SubSeq(s, k, k + 1) = pair
  BY <1>2, <1>3, <1>4, SeqEqual
<1> QED
  BY <1>5 DEF pair

\* A sequence has a byte, or a pair of bytes, where it can be seen to have it.
LEMMA HasByte ==
    ASSUME NEW S, refname \in Seq(S), NEW c
    PROVE  Has(<<c>>) <=> \E k \in 1..Len(refname) : refname[k] = c
<1>1. Len(refname) \in Nat /\ Len(<<c>>) = 1
  BY LenProperties
<1>2. ASSUME NEW k \in 1..Len(refname)
      PROVE  SubSeq(refname, k, k) = <<c>> <=> refname[k] = c
  BY SubSeqOfOne
<1>3. ASSUME NEW p \in 0..(Len(refname) - 1)
      PROVE  /\ p + 1 \in 1..Len(refname)
             /\ SubSeq(refname, p + 1, p + 1) = <<c>> <=> refname[p + 1] = c
  BY <1>1, <1>2
<1>4. \A k \in 1..Len(refname) : k - 1 \in 0..(Len(refname) - 1) /\ (k - 1) + 1 = k
  BY <1>1
<1>5. Has(<<c>>) <=> \E p \in 0..(Len(refname) - 1) : SubSeq(refname, p + 1, p + 1) = <<c>>
  BY <1>1 DEF Has
<1> QED
  BY <1>3, <1>4, <1>5

LEMMA HasPair ==
    ASSUME NEW S, refname \in Seq(S), NEW c, NEW d
    PROVE  Has(<<c, d>>) <=>
             \E k \in 1..(Len(refname) - 1) : refname[k] = c /\ refname[k + 1] = d
<1>1. Len(refname) \in Nat /\ Len(<<c, d>>) = 2
  BY LenProperties
<1>2. ASSUME NEW k \in 1..(Len(refname) - 1)
      PROVE  SubSeq(refname, k, k + 1) = <<c, d>> <=> refname[k] = c /\ refname[k + 1] = d
  BY SubSeqOfTwo
<1>3. ASSUME NEW p \in 0..(Len(refname) - 2)
      PROVE  /\ p + 1 \in 1..(Len(refname) - 1) /\ p + 2 = (p + 1) + 1
             /\ SubSeq(refname, p + 1, p + 2) = <<c, d>>
                  <=> refname[p + 1] = c /\ refname[p + 2] = d
  <2>1. p + 1 \in 1..(Len(refname) - 1) /\ p + 2 = (p + 1) + 1
    BY <1>1
  <2> QED
    BY <2>1, <1>2
<1>4. \A k \in 1..(Len(refname) - 1) :
        k - 1 \in 0..(Len(refname) - 2) /\ (k - 1) + 1 = k /\ (k - 1) + 2 = k + 1
  BY <1>1
<1>5. Has(<<c, d>>) <=>
        \E p \in 0..(Len(refname) - 2) : SubSeq(refname, p + 1, p + 2) = <<c, d>>
  BY <1>1 DEF Has
<1>6. ASSUME Has(<<c, d>>)
      PROVE  \E k \in 1..(Len(refname) - 1) : refname[k] = c /\ refname[k + 1] = d
  <2>1. PICK p \in 0..(Len(refname) - 2) : SubSeq(refname, p + 1, p + 2) = <<c, d>>
    BY <1>5, <1>6
  <2>2. p + 1 \in 1..(Len(refname) - 1) /\ refname[p + 1] = c /\ refname[(p + 1) + 1] = d
    BY <1>3, <2>1
  <2> QED
    BY <2>2
<1>7. ASSUME NEW k \in 1..(Len(refname) - 1), refname[k] = c, refname[k + 1] = d
      PROVE  Has(<<c, d>>)
  <2>1. k - 1 \in 0..(Len(refname) - 2) /\ (k - 1) + 1 = k /\ (k - 1) + 2 = k + 1
    BY <1>4
  <2>2. SubSeq(refname, (k - 1) + 1, (k - 1) + 2) = <<c, d>>
    BY <1>2, <1>7, <2>1
  <2> QED
    BY <1>5, <2>1, <2>2
<1> QED
  BY <1>6, <1>7

\* The last byte of a sequence, and the last two.
LEMMA EndsWithByte ==
    ASSUME NEW S, NEW s \in Seq(S), NEW c
    PROVE  EndsWith(s, <<c>>) <=> Len(s) >= 1 /\ s[Len(s)] = c
<1>1. Len(s) \in Nat /\ Len(<<c>>) = 1
  BY LenProperties
<1>2. CASE Len(s) >= 1
  <2>1. SubSeq(s, Len(s), Len(s)) = <<s[Len(s)]>> /\ Len(s) - 1 + 1 = Len(s)
    BY <1>1, <1>2, SubSeqOfOne
  <2> QED
    BY <1>1, <1>2, <2>1 DEF EndsWith
<1> QED
  BY <1>1, <1>2 DEF EndsWith

LEMMA EndsWithPair ==
    ASSUME NEW S, NEW s \in Seq(S), NEW c, NEW d
    PROVE  EndsWith(s, <<c, d>>) <=> Len(s) >= 2 /\ s[Len(s) - 1] = c /\ s[Len(s)] = d
<1>1. Len(s) \in Nat /\ Len(<<c, d>>) = 2
  BY LenProperties
<1>2. CASE Len(s) >= 2
  <2> DEFINE k == Len(s) - 1
  <2>1. k \in 1..(Len(s) - 1) /\ k + 1 = Len(s) /\ Len(s) - 2 + 1 = k
    BY <1>1, <1>2
  <2>2. SubSeq(s, k, k + 1) = <<s[k], s[k + 1]>>
    BY <2>1, SubSeqOfTwo
  <2> QED
    BY <1>1, <1>2, <2>1, <2>2 DEF EndsWith
<1> QED
  BY <1>1, <1>2 DEF EndsWith

\* What the tests of a component say of the refname that it is a part of.
LEMMA ComponentTests ==
    ASSUME NEW S, refname \in Seq(S), NEW p \in 0..Len(refname), NEW q \in p..Len(refname)
    PROVE  LET s == SubSeq(refname, p + 1, q)
           IN  /\ IsDot(s) <=> q = p + 1 /\ refname[p + 1] = "."
               /\ StartsWithDot(s) <=> q > p + 1 /\ refname[p + 1] = "."
               /\ EndsWithDotLock(s) <=>
                    q >= p + 2 /\ refname[q - 1] = "." /\ refname[q] = "lock"
               /\ q > p => s[1] = refname[p + 1]
<1> DEFINE s == SubSeq(refname, p + 1, q)
<1>1. /\ Len(refname) \in Nat /\ p \in Nat /\ q \in Nat /\ p <= q /\ q <= Len(refname)
      /\ p + 1 \in Int /\ q - (p + 1) + 1 = q - p
      /\ \A k \in (p + 1)..q : refname[k] \in S
  BY LenProperties
<1>2. s \in Seq(S) /\ Len(s) = (IF p + 1 <= q THEN q - (p + 1) + 1 ELSE 0)
  BY <1>1, SubSeqProperties
<1>3. Len(s) = q - p
  BY <1>1, <1>2
<1>4. \A k \in 1..(q - p) : s[k] = refname[p + 1 + k - 1]
  BY SMTT(30), <1>1, SubSeqProperties
<1>5. \A k \in 1..(q - p) : s[k] = refname[p + k]
  <2>1. \A k \in Int : p + 1 + k - 1 = p + k
    BY <1>1
  <2> QED
    BY <1>4, <2>1
<1> HIDE DEF s
<1>6. q > p => s[1] = refname[p + 1]
  BY <1>1, <1>5
<1>7. IsDot(s) <=> q = p + 1 /\ refname[p + 1] = "."
  <2>1. s = <<".">> => Len(s) = 1 /\ s[1] = "."
    OBVIOUS
  <2>2. ASSUME Len(s) = 1, s[1] = "."
        PROVE  s = <<".">>
    BY <1>2, <2>2, SubSeqOfOne
  <2> QED
    BY <1>1, <1>3, <1>6, <2>1, <2>2 DEF IsDot
<1>8. StartsWithDot(s) <=> q > p + 1 /\ refname[p + 1] = "."
  BY <1>1, <1>3, <1>6 DEF StartsWithDot
<1>9. EndsWithDotLock(s) <=> q >= p + 2 /\ refname[q - 1] = "." /\ refname[q] = "lock"
  <2>1. EndsWithDotLock(s) <=> Len(s) >= 2 /\ s[Len(s) - 1] = "." /\ s[Len(s)] = "lock"
    BY <1>2, EndsWithPair DEF EndsWithDotLock
  <2>2. CASE q >= p + 2
    <3>1. q - p \in 1..(q - p) /\ q - p - 1 \in 1..(q - p) /\ p + (q - p) = q
          /\ p + (q - p - 1) = q - 1
      BY <1>1, <2>2
    <3> QED
      BY <1>1, <1>3, <1>5, <2>1, <2>2, <3>1
  <2> QED
    BY <1>1, <1>3, <2>1, <2>2
<1> QED
  BY <1>6, <1>7, <1>8, <1>9 DEF s

-----------------------------------------------------------------------------
(* The errors, one by one.                                                   *)

\* What Holds says of each error, and that there are no others.
LEMMA HoldsOf ==
    /\ Holds("Empty") <=> refname = <<>>
    /\ Holds("StartsWithSlash") <=> refname # <<>> /\ refname[1] = "/"
    /\ Holds("EndsWithSlash") <=> EndsWith(refname, <<"/">>)
    /\ Holds("SlashSlash") <=> Has(<<"/", "/">>)
    /\ Holds("OnlyOneLevel") <=> ~flags.AllowOneLevel /\ ~Has(<<"/">>)
    /\ Holds("ComponentIsDot") <=> SomeComponent(IsDot)
    /\ Holds("ComponentStartsWithDot") <=> SomeComponent(StartsWithDot)
    /\ Holds("EndsWithDot") <=> EndsWith(refname, <<".">>)
    /\ Holds("DotDot") <=> Has(<<".", ".">>)
    /\ Holds("Asterisk") <=> ~flags.RefspecPattern /\ Asterisks # {}
    /\ Holds("MultipleAsterisks") <=>
         flags.RefspecPattern /\ \E p, q \in Asterisks : p # q
    /\ Holds("IsAt") <=> refname = <<"@">>
    /\ Holds("AtBrace") <=> Has(<<"@", "{">>)
    /\ Holds("ComponentEndsWithDotLock") <=> SomeComponent(EndsWithDotLock)
BY DEF Holds

LEMMA ForbiddenErrors ==
    /\ \A c \in Forbidden :
        ForbiddenError(c) \in {"ControlChar", "Space", "Colon", "Question", "OpenBracket",
                               "Backslash", "Caret", "Tilde"}
    /\ \A c, d \in Forbidden : ForbiddenError(c) = ForbiddenError(d) => c = d
<1>1. \A c \in Forbidden :
        ForbiddenError(c) \in {"ControlChar", "Space", "Colon", "Question", "OpenBracket",
                               "Backslash", "Caret", "Tilde"}
  BY DEF Forbidden, ForbiddenError
<1>2. /\ ForbiddenError("\t") = "ControlChar" /\ ForbiddenError(" ") = "Space"
      /\ ForbiddenError(":") = "Colon" /\ ForbiddenError("?") = "Question"
      /\ ForbiddenError("[") = "OpenBracket" /\ ForbiddenError("\\") = "Backslash"
      /\ ForbiddenError("^") = "Caret" /\ ForbiddenError("~") = "Tilde"
  BY DEF ForbiddenError
<1>3. \A c, d \in Forbidden : ForbiddenError(c) = ForbiddenError(d) => c = d
  BY <1>2, ZenonT(60) DEF Forbidden
<1> QED
  BY <1>1, <1>3

LEMMA HoldsOfForbidden ==
    ASSUME NEW c \in Forbidden
    PROVE  Holds(ForbiddenError(c)) <=> Has(<<c>>)
<1>1. Holds(ForbiddenError(c)) <=>
        \E d \in Forbidden : ForbiddenError(c) = ForbiddenError(d) /\ Has(<<d>>)
  BY ForbiddenErrors DEF Holds
<1> QED
  BY <1>1, ForbiddenErrors

-----------------------------------------------------------------------------
(* The invariant: what the loops know of the bytes they have passed.         *)

\* Where the loops are: rest is a component so far, and begins after a slash.
Place ==
    /\ start > 0 => refname[start] = "/"
    /\ \A k \in (start + 1)..(start + i) : refname[k] # "/"
    /\ last = IF i = 0 THEN NoByte ELSE refname[start + i]

Counted == Checking => component_count <= start /\ (component_count = 0 <=> start = 0)

\* No byte that has been passed is forbidden, nor any two in a row.
BytesPassed ==
    /\ \A k \in 1..(start + i) : refname[k] \notin Forbidden
    /\ \A k \in 1..(start + i - 1) :
         /\ ~(refname[k] = "." /\ refname[k + 1] = ".")
         /\ ~(refname[k] = "@" /\ refname[k + 1] = "{")
         /\ ~(refname[k] = "/" /\ refname[k + 1] = "/")
    /\ start + i > 0 => refname[1] # "/"

AsterisksPassed ==
    /\ allow_asterisk <=>
         flags.RefspecPattern /\ \A k \in 1..(start + i) : refname[k] # "*"
    /\ ~flags.RefspecPattern => \A k \in 1..(start + i) : refname[k] # "*"
    /\ \A k, n \in 1..(start + i) : refname[k] = "*" /\ refname[n] = "*" => k = n

\* None of the components before rest is one that is rejected.
Rejected(p, q) ==
    \/ q > p /\ refname[p + 1] = "."
    \/ q >= p + 2 /\ refname[q - 1] = "." /\ refname[q] = "lock"
ComponentsPassed ==
    \A p, q \in 0..Len(refname) : IsComponent(p, q) /\ q < start => ~Rejected(p, q)

NotAt == Checking \/ result = "Ok" => refname # <<"@">>

Passed == Place /\ BytesPassed /\ AsterisksPassed /\ ComponentsPassed /\ NotAt

IInv == TypeOK /\ Counted /\ Passed

\* The places of the loops, as numbers.
LEMMA Bounds ==
    ASSUME TypeOK
    PROVE  /\ refname \in Seq(Chars) /\ Len(refname) \in Nat
           /\ start \in Nat /\ i \in Nat /\ start + i <= Len(refname)
           /\ Rest = Len(refname) - start
           /\ \A k \in 1..Len(refname) : refname[k] \in Chars
           /\ component_count \in Nat
<1>1. refname \in Seq(Chars)
  BY RefnameAssumption DEF TypeOK
<1>2. Len(refname) \in Nat /\ \A k \in 1..Len(refname) : refname[k] \in Chars
  BY <1>1, LenProperties
<1>3. start \in 0..Len(refname) /\ i \in 0..Rest /\ Rest = Len(refname) - start
      /\ component_count \in 0..(Len(refname) + 1)
  BY DEF TypeOK, Rest
<1>4. start \in Nat /\ Rest \in Nat /\ component_count \in Nat
  BY <1>2, <1>3
<1>5. i \in Nat /\ start + i <= Len(refname)
  BY <1>2, <1>3, <1>4
<1> QED
  BY <1>1, <1>2, <1>3, <1>4, <1>5

\* A component that ends where the loop is begins where rest begins.
LEMMA OneComponent ==
    ASSUME TypeOK, Place, NEW p \in 0..Len(refname), NEW q \in start..(start + i),
           IsComponent(p, q), i # 0
    PROVE  p = start /\ (q = start + i \/ q = Len(refname))
<1>1. /\ Len(refname) \in Nat /\ start \in Nat /\ i \in Nat /\ start + i <= Len(refname)
      /\ p \in Nat /\ q \in Nat /\ start <= q /\ q <= start + i
  BY Bounds
<1>2. /\ p <= q /\ (p = 0 \/ refname[p] = "/")
      /\ q = Len(refname) \/ refname[q + 1] = "/"
      /\ \A k \in (p + 1)..q : refname[k] # "/"
  BY DEF IsComponent
<1>3. ~(p > start)
  BY <1>1, <1>2 DEF Place
<1>4. CASE p < start
  <2>1. start \in (p + 1)..q /\ start > 0
    BY <1>1, <1>4
  <2> QED
    BY <1>2, <2>1 DEF Place
<1>5. ASSUME q # start + i
      PROVE  q = Len(refname)
  <2>1. q + 1 \in (start + 1)..(start + i)
    BY <1>1, <1>5
  <2> QED
    BY <1>2, <2>1 DEF Place
<1> QED
  BY <1>1, <1>3, <1>4, <1>5

\* What RejectComponent and ComponentOk test.
LEMMA ComponentOfLoop ==
    ASSUME TypeOK, i # 0
    PROVE  /\ Component(i)[1] = refname[start + 1]
           /\ EndsWith(Component(i), <<".", "lock">>) <=>
                i >= 2 /\ refname[start + i - 1] = "." /\ refname[start + i] = "lock"
           /\ ComponentOk <=> ~Rejected(start, start + i)
<1>1. /\ refname \in Seq(Chars) /\ start \in 0..Len(refname)
      /\ start + i \in start..Len(refname) /\ start \in Nat /\ i \in Nat
  BY Bounds
<1>2. start + i > start /\ (start + i >= start + 2 <=> i >= 2)
  BY <1>1
<1>3. PICK q \in start..Len(refname) : q = start + i
  BY <1>1
<1>4. LET s == SubSeq(refname, start + 1, q)
      IN  /\ EndsWithDotLock(s) <=>
               q >= start + 2 /\ refname[q - 1] = "." /\ refname[q] = "lock"
          /\ q > start => s[1] = refname[start + 1]
  BY <1>1, <1>3, ComponentTests
<1>5. Component(i) = SubSeq(refname, start + 1, q)
  BY <1>3 DEF Component
<1>6. q > start /\ (q >= start + 2 <=> i >= 2)
  BY <1>2, <1>3
<1>7. Component(i)[1] = refname[start + 1]
  BY <1>4, <1>5, <1>6
<1>8. EndsWith(Component(i), <<".", "lock">>) <=>
        q >= start + 2 /\ refname[q - 1] = "." /\ refname[q] = "lock"
  BY <1>4, <1>5 DEF EndsWithDotLock
<1>9. ComponentOk <=> ~Rejected(start, q)
  BY <1>6, <1>7, <1>8 DEF ComponentOk, Rejected
<1>10. EndsWith(Component(i), <<".", "lock">>) <=>
         i >= 2 /\ refname[q - 1] = "." /\ refname[q] = "lock"
  <2>1. q >= start + 2 <=> i >= 2
    BY <1>6
  <2> QED
    BY <1>8, <2>1, Zenon
<1>11. EndsWith(Component(i), <<".", "lock">>) <=>
         i >= 2 /\ refname[start + i - 1] = "." /\ refname[start + i] = "lock"
  <2>1. q - 1 = start + i - 1
    BY <1>1, <1>3
  <2> QED
    BY <1>3, <1>10, <2>1, Zenon
<1>12. ComponentOk <=> ~Rejected(start, start + i)
  BY <1>3, <1>9, Zenon
<1> QED
  BY <1>7, <1>11, <1>12

-----------------------------------------------------------------------------
(* The invariant is inductive.                                               *)

\* Every error that the loops fail with is one of Errors.
LEMMA ErrorsAre ==
    /\ \A c \in Forbidden : ForbiddenError(c) \in Errors
    /\ {"Empty", "StartsWithSlash", "EndsWithSlash", "SlashSlash", "OnlyOneLevel",
        "ComponentIsDot", "ComponentStartsWithDot", "EndsWithDot", "DotDot",
        "Asterisk", "MultipleAsterisks", "IsAt", "AtBrace",
        "ComponentEndsWithDotLock"} \subseteq Errors
    /\ "none" \notin Errors /\ "Ok" \notin Errors
<1>1. \A c \in Forbidden : ForbiddenError(c) \notin {"none", "Ok"}
  BY ForbiddenErrors
<1> QED
  BY <1>1 DEF Errors

\* An action that fails leaves the loops where they are, and fails with an error.
LEMMA FailureStep ==
    ASSUME RejectByte \/ EmptyComponent \/ RejectComponent
    PROVE  /\ Checking
           /\ \E err \in Errors : result' = err
           /\ UNCHANGED <<argVars, start, i, last, allow_asterisk, component_count>>
<1>1. CASE RejectByte
  BY <1>1, ErrorsAre DEF RejectByte, InComponent, Fail
<1>2. CASE EmptyComponent
  <2>1. /\ Checking /\ UNCHANGED <<argVars, start, i, last, allow_asterisk, component_count>>
        /\ result' = CASE refname = <<>>       -> "Empty"
              [] refname # <<>> /\ component_count = 0 -> "StartsWithSlash"
              [] component_count # 0 /\ Rest = 0 -> "EndsWithSlash"
              [] component_count # 0 /\ Rest # 0 -> "SlashSlash"
    BY <1>2 DEF EmptyComponent, ComponentRead, Fail
  <2>2. \/ refname = <<>>
        \/ refname # <<>> /\ component_count = 0
        \/ component_count # 0 /\ Rest = 0
        \/ component_count # 0 /\ Rest # 0
    OBVIOUS
  <2>3. result' \in {"Empty", "StartsWithSlash", "EndsWithSlash", "SlashSlash"}
    BY <2>1, <2>2
  <2> QED
    BY <2>1, <2>3, ErrorsAre
<1>3. CASE RejectComponent
  BY <1>3, ErrorsAre DEF RejectComponent, ComponentRead, Fail
<1> QED
  BY <1>1, <1>2, <1>3

LEMMA TypeStep ==
    ASSUME TypeOK, Counted, [Next]_vars
    PROVE  TypeOK' /\ Counted'
<1>1. /\ Len(refname) \in Nat /\ start \in Nat /\ i \in Nat /\ start + i <= Len(refname)
      /\ component_count \in Nat /\ Rest = Len(refname) - start
      /\ \A k \in 1..Len(refname) : refname[k] \in Chars
  BY Bounds
<1>2. CASE RejectByte \/ EmptyComponent \/ RejectComponent
  <2>1. /\ \E err \in Errors : result' = err
        /\ UNCHANGED <<argVars, start, i, last, allow_asterisk, component_count>>
    BY <1>2, FailureStep
  <2>2. TypeOK'
    BY <2>1 DEF TypeOK, argVars, Rest
  <2>3. ~Checking'
    BY <2>1, ErrorsAre DEF Checking
  <2> QED
    BY <2>2, <2>3 DEF Counted
<1>3. CASE PassByte
  <2>1. /\ i < Rest /\ last' = Byte /\ i' = i + 1
        /\ allow_asterisk' = (allow_asterisk /\ Byte # "*")
        /\ UNCHANGED <<argVars, start, component_count, result>>
    BY <1>3 DEF PassByte, InComponent
  <2>2. start + i + 1 \in 1..Len(refname)
    BY <1>1, <2>1
  <2>3. last' \in Chars
    BY <1>1, <2>1, <2>2 DEF Byte
  <2>4. i' \in 0..Rest /\ Rest' = Rest
    BY <1>1, <2>1 DEF Rest, argVars
  <2>5. allow_asterisk' \in BOOLEAN
    BY <2>1
  <2>6. TypeOK'
    BY <2>1, <2>3, <2>4, <2>5 DEF TypeOK, argVars
  <2> QED
    BY <2>1, <2>6 DEF Counted, Checking
<1>4. CASE NextComponent
  <2>1. /\ Checking /\ i # 0 /\ i < Rest /\ start' = start + i + 1
        /\ i' = 0 /\ last' = NoByte /\ component_count' = component_count + 1
        /\ UNCHANGED <<argVars, allow_asterisk, result>>
    BY <1>4 DEF NextComponent, ComponentRead
  <2>2. start' \in 0..Len(refname) /\ start' \in Nat /\ start' # 0
    <3>1. start + i + 1 \in 1..Len(refname)
      BY <1>1, <2>1
    <3> QED
      BY <1>1, <2>1, <3>1
  <2>3. i' \in 0..Rest'
    <3>1. Rest' = Len(refname) - start'
      BY <2>1 DEF Rest, argVars
    <3> QED
      BY <1>1, <2>1, <2>2, <3>1
  <2>4. component_count <= start
    BY <2>1 DEF Counted
  <2>5. /\ component_count' <= start' /\ component_count' # 0
        /\ component_count' \in 0..(Len(refname) + 1)
    <3>1. component_count + 1 <= start + i + 1 /\ component_count + 1 <= Len(refname)
      BY <1>1, <2>1, <2>4
    <3> QED
      BY <1>1, <2>1, <3>1
  <2>6. TypeOK'
    BY <2>1, <2>2, <2>3, <2>5 DEF TypeOK, argVars
  <2> QED
    BY <2>2, <2>5, <2>6 DEF Counted
<1>5. CASE Finish
  <2>1. /\ Checking /\ component_count' = component_count + 1
        /\ result' \in {"EndsWithDot", "OnlyOneLevel", "Ok"}
        /\ UNCHANGED <<argVars, start, i, last, allow_asterisk>>
    BY <1>5 DEF Finish, ComponentRead
  <2>2. component_count' \in 0..(Len(refname) + 1)
    BY <1>1, <2>1 DEF Counted
  <2>3. result' \in Errors \cup {"none", "Ok"} /\ ~Checking'
    BY <2>1, ErrorsAre DEF Checking
  <2>4. TypeOK'
    BY <2>1, <2>2, <2>3 DEF TypeOK, argVars, Rest
  <2> QED
    BY <2>3, <2>4 DEF Counted
<1>6. CASE UNCHANGED vars
  BY <1>6 DEF vars, argVars, TypeOK, Counted, Checking, Rest
<1> QED
  BY <1>2, <1>3, <1>4, <1>5, <1>6 DEF Next, Returned

\* A step that leaves the loops where they are keeps what they know.
LEMMA PassedStays ==
    ASSUME Passed, UNCHANGED <<argVars, start, i, last, allow_asterisk>>,
           (Checking \/ result = "Ok")' => Checking \/ result = "Ok"
    PROVE  Passed'
<1>1. UNCHANGED <<refname, flags>>
  BY DEF argVars
<1>2. Place' /\ BytesPassed' /\ AsterisksPassed'
  BY <1>1 DEF Passed, Place, BytesPassed, AsterisksPassed
<1>3. ComponentsPassed'
  BY <1>1 DEF Passed, ComponentsPassed, IsComponent, Rejected
<1>4. NotAt'
  BY <1>1 DEF Passed, NotAt
<1> QED
  BY <1>2, <1>3, <1>4 DEF Passed

LEMMA PassByteStep ==
    ASSUME TypeOK, Passed, PassByte
    PROVE  Passed'
<1>1. /\ Len(refname) \in Nat /\ start \in Nat /\ i \in Nat /\ start + i <= Len(refname)
      /\ Rest = Len(refname) - start
  BY Bounds
<1>2. /\ Checking /\ i < Rest /\ Byte # "/" /\ ByteOk
      /\ last' = Byte /\ i' = i + 1 /\ allow_asterisk' = (allow_asterisk /\ Byte # "*")
      /\ UNCHANGED <<refname, flags, start, component_count, result>>
  BY DEF PassByte, InComponent, argVars
<1>3. PICK m \in 0..Len(refname) : m = start + i
  BY <1>1
<1>4. PICK n \in 1..Len(refname) : n = start + i + 1
  BY <1>1, <1>2
<1>5. n = m + 1 /\ Byte = refname[n] /\ (start + i)' = n
  BY <1>1, <1>2, <1>3, <1>4 DEF Byte
<1>6. \A k \in Int : k \in 1..n => k \in 1..m \/ k = n
  BY <1>3, <1>5
<1>7. /\ refname[n] # "/" /\ refname[n] \notin Forbidden
      /\ refname[n] = "*" => allow_asterisk
      /\ ~(refname[n] = "." /\ last = ".") /\ ~(refname[n] = "{" /\ last = "@")
  BY <1>2, <1>5 DEF ByteOk
<1>8. Place'
  <2>1. (start > 0 => refname[start] = "/")'
    BY <1>2 DEF Passed, Place
  <2>2. ASSUME NEW k \in (start + 1)..n
        PROVE  refname[k] # "/"
    <3>1. k \in (start + 1)..(start + i) \/ k = n
      BY <1>1, <1>4
    <3> QED
      BY <1>7, <3>1 DEF Passed, Place
  <2>3. (last = IF i = 0 THEN NoByte ELSE refname[start + i])'
    BY <1>1, <1>2, <1>5
  <2> QED
    BY <1>2, <1>5, <2>1, <2>2, <2>3 DEF Place
<1>9. BytesPassed'
  <2>1. ASSUME NEW k \in 1..n
        PROVE  refname[k] \notin Forbidden
    <3>1. \A j \in 1..m : refname[j] \notin Forbidden
      BY <1>3 DEF Passed, BytesPassed
    <3>2. k \in 1..m \/ k = n
      BY <1>6
    <3> QED
      BY <1>7, <3>1, <3>2
  <2>2. ASSUME NEW k \in 1..(n - 1)
        PROVE  /\ ~(refname[k] = "." /\ refname[k + 1] = ".")
               /\ ~(refname[k] = "@" /\ refname[k + 1] = "{")
               /\ ~(refname[k] = "/" /\ refname[k + 1] = "/")
    <3>1. CASE k = m
      <4>1. k + 1 = n
        BY <1>5, <3>1
      <4>2. CASE i = 0
        <5>1. refname[k] = "/"
          BY <1>1, <1>3, <3>1, <4>2 DEF Passed, Place
        <5> QED
          BY <1>7, <4>1, <5>1
      <4>3. CASE i # 0
        <5>1. refname[k] = last
          BY <1>3, <3>1, <4>3 DEF Passed, Place
        <5> QED
          BY <1>7, <4>1, <5>1
      <4> QED
        BY <4>2, <4>3
    <3>2. CASE k # m
      <4>1. k \in 1..(start + i - 1)
        BY <1>1, <1>4, <1>5, <1>3, <3>2
      <4> QED
        BY <4>1 DEF Passed, BytesPassed
    <3> QED
      BY <3>1, <3>2
  <2>3. refname[1] # "/"
    <3>1. CASE n = 1
      BY <1>7, <3>1
    <3>2. CASE n # 1
      <4>1. start + i > 0
        BY <1>1, <1>4, <3>2
      <4> QED
        BY <4>1 DEF Passed, BytesPassed
    <3> QED
      BY <3>1, <3>2
  <2>4. start' + i' = n /\ start' + i' - 1 = n - 1
    BY <1>1, <1>2, <1>4, <1>5
  <2> QED
    BY <1>2, <2>1, <2>2, <2>3, <2>4 DEF BytesPassed
<1>10. AsterisksPassed'
  <2>1. /\ allow_asterisk <=>
             flags.RefspecPattern /\ \A k \in 1..m : refname[k] # "*"
        /\ ~flags.RefspecPattern => \A k \in 1..m : refname[k] # "*"
        /\ \A k, l \in 1..m : refname[k] = "*" /\ refname[l] = "*" => k = l
    BY <1>3 DEF Passed, AsterisksPassed
  <2>2. \A k \in 1..m : k \in 1..n
    BY <1>3, <1>5
  <2>3. (\A k \in 1..n : refname[k] # "*") <=>
          refname[n] # "*" /\ \A k \in 1..m : refname[k] # "*"
    BY <1>6, <2>2
  <2>4. allow_asterisk' <=>
          flags.RefspecPattern /\ \A k \in 1..n : refname[k] # "*"
    BY <1>2, <1>5, <2>1, <2>3
  <2>5. ~flags.RefspecPattern => \A k \in 1..n : refname[k] # "*"
    BY <1>7, <2>1, <2>3
  <2>6. ASSUME NEW k \in 1..n, NEW l \in 1..n, refname[k] = "*", refname[l] = "*"
        PROVE  k = l
    <3>1. CASE refname[n] = "*"
      <4>1. \A j \in 1..m : refname[j] # "*"
        BY <1>7, <2>1, <3>1
      <4> QED
        BY <1>6, <2>6, <4>1
    <3>2. CASE refname[n] # "*"
      BY <1>6, <2>1, <2>6, <3>2
    <3> QED
      BY <3>1, <3>2
  <2> QED
    BY <1>2, <1>5, <2>4, <2>5, <2>6 DEF AsterisksPassed
<1>11. ComponentsPassed' /\ NotAt'
  BY <1>2 DEF Passed, ComponentsPassed, NotAt, Checking, IsComponent, Rejected
<1> QED
  BY <1>8, <1>9, <1>10, <1>11 DEF Passed

LEMMA NextComponentStep ==
    ASSUME TypeOK, Passed, NextComponent
    PROVE  Passed'
<1>1. /\ Len(refname) \in Nat /\ start \in Nat /\ i \in Nat /\ start + i <= Len(refname)
      /\ Rest = Len(refname) - start
  BY Bounds
<1>2. /\ Checking /\ i # 0 /\ i < Rest /\ Byte = "/" /\ ComponentOk
      /\ start' = start + i + 1 /\ i' = 0 /\ last' = NoByte
      /\ UNCHANGED <<refname, flags, allow_asterisk, result>>
  BY DEF NextComponent, ComponentRead, argVars
<1>3. PICK m \in 0..Len(refname) : m = start + i
  BY <1>1
<1>4. PICK n \in 1..Len(refname) : n = start + i + 1
  BY <1>1, <1>2
<1>5. n = m + 1 /\ refname[n] = "/" /\ start' = n /\ (start + i)' = n /\ m >= 1
  BY <1>1, <1>2, <1>3, <1>4 DEF Byte
<1>6. \A k \in Int : k \in 1..n => k \in 1..m \/ k = n
  BY <1>3, <1>5
<1>7. Place'
  <2>1. \A k \in (n + 1)..n : FALSE
    BY <1>4
  <2> QED
    BY <1>2, <1>5, <2>1 DEF Place
<1>8. BytesPassed'
  <2>1. ASSUME NEW k \in 1..n
        PROVE  refname[k] \notin Forbidden
    <3>1. "/" \notin Forbidden
      BY DEF Forbidden
    <3>2. \A j \in 1..m : refname[j] \notin Forbidden
      BY <1>3 DEF Passed, BytesPassed
    <3> QED
      BY <1>5, <1>6, <3>1, <3>2
  <2>2. ASSUME NEW k \in 1..(n - 1)
        PROVE  /\ ~(refname[k] = "." /\ refname[k + 1] = ".")
               /\ ~(refname[k] = "@" /\ refname[k + 1] = "{")
               /\ ~(refname[k] = "/" /\ refname[k + 1] = "/")
    <3>1. CASE k = m
      <4>1. k + 1 = n /\ k \in (start + 1)..(start + i)
        BY <1>1, <1>2, <1>3, <1>5, <3>1
      <4>2. refname[k] # "/"
        BY <4>1 DEF Passed, Place
      <4> QED
        BY <1>5, <4>1, <4>2
    <3>2. CASE k # m
      <4>1. k \in 1..(start + i - 1)
        BY <1>1, <1>4, <1>5, <1>3, <3>2
      <4> QED
        BY <4>1 DEF Passed, BytesPassed
    <3> QED
      BY <3>1, <3>2
  <2>3. refname[1] # "/"
    <3>1. start + i > 0
      BY <1>1, <1>2
    <3> QED
      BY <3>1 DEF Passed, BytesPassed
  <2>4. start' + i' = n /\ start' + i' - 1 = n - 1
    BY <1>1, <1>2, <1>4, <1>5
  <2> QED
    BY <1>2, <2>1, <2>2, <2>3, <2>4 DEF BytesPassed
<1>9. AsterisksPassed'
  <2>1. /\ allow_asterisk <=>
             flags.RefspecPattern /\ \A k \in 1..m : refname[k] # "*"
        /\ ~flags.RefspecPattern => \A k \in 1..m : refname[k] # "*"
        /\ \A k, l \in 1..m : refname[k] = "*" /\ refname[l] = "*" => k = l
    BY <1>3 DEF Passed, AsterisksPassed
  <2>2. \A k \in 1..m : k \in 1..n
    BY <1>3, <1>5
  <2>3. (\A k \in 1..n : refname[k] # "*") <=> \A k \in 1..m : refname[k] # "*"
    BY <1>5, <1>6, <2>2
  <2>4. \A k, l \in 1..n : refname[k] = "*" /\ refname[l] = "*" => k = l
    BY <1>5, <1>6, <2>1
  <2> QED
    BY <1>2, <1>5, <2>1, <2>3, <2>4 DEF AsterisksPassed
<1>10. ComponentsPassed'
  <2>1. ASSUME NEW p \in 0..Len(refname), NEW q \in 0..Len(refname),
               IsComponent(p, q), q < n
        PROVE  ~Rejected(p, q)
    <3>1. CASE q < start
      BY <2>1, <3>1 DEF Passed, ComponentsPassed
    <3>2. CASE ~(q < start)
      <4>1. q \in start..(start + i) /\ q # Len(refname)
        BY <1>1, <1>4, <2>1, <3>2
      <4>2. p = start /\ q = start + i
        BY <1>2, <2>1, <4>1, OneComponent DEF Passed
      <4>3. ~Rejected(start, start + i)
        BY <1>2, ComponentOfLoop
      <4> QED
        BY <4>2, <4>3
    <3> QED
      BY <3>1, <3>2
  <2> QED
    BY <1>2, <1>5, <2>1 DEF ComponentsPassed, IsComponent, Rejected
<1>11. NotAt'
  BY <1>2 DEF Passed, NotAt, Checking
<1> QED
  BY <1>7, <1>8, <1>9, <1>10, <1>11 DEF Passed

LEMMA PassedStep ==
    ASSUME TypeOK, Passed, [Next]_vars
    PROVE  Passed'
<1>1. CASE RejectByte \/ EmptyComponent \/ RejectComponent
  <2>1. /\ Checking /\ \E err \in Errors : result' = err
        /\ UNCHANGED <<argVars, start, i, last, allow_asterisk>>
    BY <1>1, FailureStep
  <2> QED
    BY <2>1, PassedStays
<1>2. CASE Finish
  <2>1. Checking /\ UNCHANGED <<argVars, start, i, last, allow_asterisk>>
    BY <1>2 DEF Finish, ComponentRead
  <2> QED
    BY <2>1, PassedStays
<1>3. CASE UNCHANGED vars
  BY <1>3, PassedStays DEF vars, Checking
<1> QED
  BY <1>1, <1>2, <1>3, PassByteStep, NextComponentStep DEF Next, Returned

-----------------------------------------------------------------------------
(* What is returned.                                                         *)

\* What the errors say depends on the arguments of the check only.
LEMMA HoldsStays ==
    ASSUME NEW err, UNCHANGED <<refname, flags>>
    PROVE  Holds(err)' <=> Holds(err)
<1>1. \A s : Has(s)' <=> Has(s)
  BY DEF Has
<1>2. \A p, q : IsComponent(p, q)' <=> IsComponent(p, q)
  BY DEF IsComponent
<1>3. /\ SomeComponent(IsDot)' <=> SomeComponent(IsDot)
      /\ SomeComponent(StartsWithDot)' <=> SomeComponent(StartsWithDot)
      /\ SomeComponent(EndsWithDotLock)' <=> SomeComponent(EndsWithDotLock)
  BY <1>2 DEF SomeComponent, IsDot, StartsWithDot, EndsWithDotLock
<1>4. Asterisks' = Asterisks
  BY DEF Asterisks
<1> QED
  BY <1>1, <1>3, <1>4 DEF Holds

\* The bytes that make RejectByte reject.
LEMMA RejectByteHolds ==
    ASSUME TypeOK, Passed, RejectByte
    PROVE  \E err \in Errors : result' = err /\ Holds(err)
<1>1. /\ refname \in Seq(Chars)
      /\ Len(refname) \in Nat /\ start \in Nat /\ i \in Nat /\ start + i <= Len(refname)
      /\ Rest = Len(refname) - start
  BY Bounds
<1>2. Checking /\ i < Rest
  BY DEF RejectByte, InComponent
<1>3. PICK m \in 0..Len(refname) : m = start + i
  BY <1>1
<1>4. PICK n \in 1..Len(refname) : n = start + i + 1
  BY <1>1, <1>2
<1>5. n = m + 1 /\ Byte = refname[n]
  BY <1>1, <1>3, <1>4 DEF Byte
<1>6. ASSUME NEW c, c # NoByte, last = c
      PROVE  m \in 1..(Len(refname) - 1) /\ refname[m] = c /\ m + 1 = n
  <2>1. i # 0 /\ last = refname[start + i]
    BY <1>6 DEF Passed, Place
  <2> QED
    BY <1>1, <1>3, <1>4, <1>5, <1>6, <2>1
<1>7. "." # NoByte /\ "@" # NoByte
  BY Zenon DEF NoByte
<1>8. CASE Byte \in Forbidden /\ Fail(ForbiddenError(Byte))
  <2>1. Has(<<Byte>>)
    BY <1>1, <1>5, HasByte
  <2> QED
    BY <1>8, <2>1, HoldsOfForbidden, ErrorsAre DEF Fail
<1>9. CASE /\ Byte = "*" /\ ~allow_asterisk
           /\ Fail(IF flags.RefspecPattern THEN "MultipleAsterisks" ELSE "Asterisk")
  <2>1. n \in Asterisks
    BY <1>5, <1>9 DEF Asterisks
  <2>2. CASE flags.RefspecPattern
    <3>1. PICK k \in 1..m : refname[k] = "*"
      BY <1>3, <1>9, <2>2 DEF Passed, AsterisksPassed
    <3>2. k \in Asterisks /\ k # n
      BY <1>3, <1>5, <3>1 DEF Asterisks
    <3>3. Holds("MultipleAsterisks")
      BY <2>1, <2>2, <3>2, HoldsOf
    <3> QED
      BY <1>9, <2>2, <3>3, ErrorsAre DEF Fail
  <2>3. CASE ~flags.RefspecPattern
    <3>1. Holds("Asterisk")
      BY <2>1, <2>3, HoldsOf
    <3> QED
      BY <1>9, <2>3, <3>1, ErrorsAre DEF Fail
  <2> QED
    BY <2>2, <2>3
<1>10. CASE Byte = "." /\ last = "." /\ Fail("DotDot")
  <2>1. m \in 1..(Len(refname) - 1) /\ refname[m] = "." /\ refname[m + 1] = "."
    BY <1>5, <1>6, <1>7, <1>10
  <2>2. Has(<<".", ".">>)
    BY <1>1, <2>1, HasPair
  <2> QED
    BY <1>10, <2>2, HoldsOf, ErrorsAre DEF Fail
<1>11. CASE Byte = "{" /\ last = "@" /\ Fail("AtBrace")
  <2>1. m \in 1..(Len(refname) - 1) /\ refname[m] = "@" /\ refname[m + 1] = "{"
    BY <1>5, <1>6, <1>7, <1>11
  <2>2. Has(<<"@", "{">>)
    BY <1>1, <2>1, HasPair
  <2> QED
    BY <1>11, <2>2, HoldsOf, ErrorsAre DEF Fail
<1> QED
  BY <1>8, <1>9, <1>10, <1>11 DEF RejectByte

LEMMA EmptyComponentHolds ==
    ASSUME TypeOK, Counted, Passed, EmptyComponent
    PROVE  \E err \in Errors : result' = err /\ Holds(err)
<1>1. /\ refname \in Seq(Chars)
      /\ Len(refname) \in Nat /\ start \in Nat /\ i \in Nat /\ start <= Len(refname)
      /\ Rest = Len(refname) - start
  BY Bounds
<1>2. Checking /\ (0 < Rest => refname[start + 1] = "/") /\ i = 0
  <2>1. i = 0 => start + i + 1 = start + 1
    BY <1>1
  <2> QED
    BY <2>1 DEF EmptyComponent, ComponentRead, Byte
<1>3. result' = CASE refname = <<>>       -> "Empty"
              [] refname # <<>> /\ component_count = 0 -> "StartsWithSlash"
              [] component_count # 0 /\ Rest = 0 -> "EndsWithSlash"
              [] component_count # 0 /\ Rest # 0 -> "SlashSlash"
  BY DEF EmptyComponent, Fail
<1>4. refname = <<>> => component_count = 0
  <2>1. refname = <<>> => start = 0
    BY <1>1
  <2> QED
    BY <1>2, <2>1 DEF Counted
<1>5. CASE refname = <<>>
  <2>1. result' = "Empty"
    BY <1>3, <1>4, <1>5
  <2> QED
    BY <1>5, <2>1, HoldsOf, ErrorsAre
<1>6. CASE refname # <<>> /\ component_count = 0
  <2>1. result' = "StartsWithSlash"
    BY <1>3, <1>6
  <2>2. start = 0 /\ Len(refname) # 0
    BY <1>1, <1>2, <1>6, EmptySeq DEF Counted
  <2>3. refname[1] = "/"
    BY <1>1, <1>2, <2>2
  <2> QED
    BY <1>6, <2>1, <2>3, HoldsOf, ErrorsAre
<1>7. CASE component_count # 0 /\ Rest = 0
  <2>1. result' = "EndsWithSlash"
    BY <1>3, <1>4, <1>7
  <2>2. start = Len(refname) /\ start > 0
    BY <1>1, <1>2, <1>7 DEF Counted
  <2>3. refname[Len(refname)] = "/" /\ Len(refname) >= 1
    BY <1>1, <2>2 DEF Passed, Place
  <2> QED
    BY <1>1, <2>1, <2>3, HoldsOf, ErrorsAre, EndsWithByte
<1>8. CASE component_count # 0 /\ Rest # 0
  <2>1. result' = "SlashSlash"
    BY <1>3, <1>4, <1>8
  <2>2. start > 0
    BY <1>1, <1>2, <1>8 DEF Counted
  <2>3. start \in 1..(Len(refname) - 1) /\ refname[start] = "/" /\ refname[start + 1] = "/"
    BY <1>1, <1>2, <1>8, <2>2 DEF Passed, Place
  <2>4. Has(<<"/", "/">>)
    BY <1>1, <2>3, HasPair
  <2> QED
    BY <2>1, <2>4, HoldsOf, ErrorsAre
<1> QED
  BY <1>5, <1>6, <1>7, <1>8

\* The bytes that the loop has passed at the end of a component are one.
LEMMA WholeComponent ==
    ASSUME TypeOK, Passed, ComponentRead, i # 0
    PROVE  /\ start \in 0..Len(refname) /\ start + i \in start..Len(refname)
           /\ IsComponent(start, start + i)
<1>1. /\ Len(refname) \in Nat /\ start \in Nat /\ i \in Nat /\ start + i <= Len(refname)
      /\ Rest = Len(refname) - start
  BY Bounds
<1>2. start + i # Len(refname) => i < Rest
  BY <1>1
<1>3. start + i = Len(refname) \/ refname[start + i + 1] = "/"
  BY <1>2 DEF ComponentRead, Byte
<1>4. start = 0 \/ refname[start] = "/"
  BY <1>1 DEF Passed, Place
<1> QED
  BY <1>1, <1>3, <1>4 DEF IsComponent, Passed, Place

LEMMA RejectComponentHolds ==
    ASSUME TypeOK, Passed, RejectComponent
    PROVE  \E err \in Errors : result' = err /\ Holds(err)
<1>1. /\ refname \in Seq(Chars)
      /\ Len(refname) \in Nat /\ start \in Nat /\ i \in Nat
  BY Bounds
<1>2. ComponentRead /\ i # 0
  BY DEF RejectComponent
<1>3. /\ start \in 0..Len(refname) /\ start + i \in start..Len(refname)
      /\ start + i \in 0..Len(refname) /\ IsComponent(start, start + i)
  BY <1>1, <1>2, WholeComponent
<1>4. LET s == SubSeq(refname, start + 1, start + i)
      IN  /\ IsDot(s) <=> start + i = start + 1 /\ refname[start + 1] = "."
          /\ StartsWithDot(s) <=> start + i > start + 1 /\ refname[start + 1] = "."
  BY <1>1, <1>3, ComponentTests
<1>5. Component(i)[1] = refname[start + 1] /\ Component(i) = SubSeq(refname, start + 1, start + i)
  BY <1>2, ComponentOfLoop DEF Component
<1>6. CASE /\ Component(i)[1] = "."
           /\ Fail(IF i = 1 THEN "ComponentIsDot" ELSE "ComponentStartsWithDot")
  <2>1. CASE i = 1
    <3>1. IsDot(SubSeq(refname, start + 1, start + i))
      BY <1>4, <1>5, <1>6, <2>1
    <3>2. Holds("ComponentIsDot")
      BY <1>3, <3>1, HoldsOf DEF SomeComponent
    <3> QED
      BY <1>6, <2>1, <3>2, ErrorsAre DEF Fail
  <2>2. CASE i # 1
    <3>1. start + i > start + 1
      BY <1>1, <1>2, <2>2
    <3>2. StartsWithDot(SubSeq(refname, start + 1, start + i))
      BY <1>4, <1>5, <1>6, <3>1
    <3>3. Holds("ComponentStartsWithDot")
      BY <1>3, <3>2, HoldsOf DEF SomeComponent
    <3> QED
      BY <1>6, <2>2, <3>3, ErrorsAre DEF Fail
  <2> QED
    BY <2>1, <2>2
<1>7. CASE /\ Component(i)[1] # "." /\ EndsWith(Component(i), <<".", "lock">>)
           /\ Fail("ComponentEndsWithDotLock")
  <2>1. EndsWithDotLock(SubSeq(refname, start + 1, start + i))
    BY <1>5, <1>7 DEF EndsWithDotLock
  <2>2. Holds("ComponentEndsWithDotLock")
    BY <1>3, <2>1, HoldsOf DEF SomeComponent
  <2> QED
    BY <1>7, <2>2, ErrorsAre DEF Fail
<1> QED
  BY <1>6, <1>7 DEF RejectComponent

\* When the loop over the last component has ended, all of the refname has been
\* passed, and none of its components is one that is rejected.
LEMMA AllPassed ==
    ASSUME TypeOK, Passed, Finish
    PROVE  /\ Checking /\ start + i = Len(refname) /\ i # 0 /\ Len(refname) >= 1
           /\ refname[Len(refname)] # "/"
           /\ \A p, q \in 0..Len(refname) : IsComponent(p, q) => ~Rejected(p, q)
<1>1. /\ Len(refname) \in Nat /\ start \in Nat /\ i \in Nat
      /\ Rest = Len(refname) - start
  BY Bounds
<1>2. Checking /\ i # 0 /\ i = Rest /\ ComponentOk
  BY DEF Finish, ComponentRead
<1>3. PICK n \in 1..Len(refname) : n = Len(refname) /\ n = start + i /\ n \in (start + 1)..(start + i)
  BY <1>1, <1>2
<1>4. refname[n] # "/"
  BY <1>3 DEF Passed, Place
<1>5. ASSUME NEW p \in 0..Len(refname), NEW q \in 0..Len(refname), IsComponent(p, q)
      PROVE  ~Rejected(p, q)
  <2>1. CASE q < start
    BY <1>5, <2>1 DEF Passed, ComponentsPassed
  <2>2. CASE ~(q < start)
    <3>1. q \in start..(start + i)
      BY <1>1, <1>3, <2>2
    <3>2. p = start /\ q = start + i
      BY <1>2, <1>3, <1>5, <3>1, OneComponent DEF Passed
    <3>3. ~Rejected(start, start + i)
      BY <1>2, ComponentOfLoop
    <3> QED
      BY <3>2, <3>3
  <2> QED
    BY <2>1, <2>2
<1> QED
  BY <1>2, <1>3, <1>4, <1>5

\* So none of the tests of a component finds one.
LEMMA NoComponentRejected ==
    ASSUME NEW S, refname \in Seq(S),
           \A p, q \in 0..Len(refname) : IsComponent(p, q) => ~Rejected(p, q)
    PROVE  /\ ~SomeComponent(IsDot) /\ ~SomeComponent(StartsWithDot)
           /\ ~SomeComponent(EndsWithDotLock)
<1>1. ASSUME NEW p \in 0..Len(refname), NEW q \in 0..Len(refname), IsComponent(p, q)
      PROVE  LET s == SubSeq(refname, p + 1, q)
             IN  ~IsDot(s) /\ ~StartsWithDot(s) /\ ~EndsWithDotLock(s)
  <2>1. q \in p..Len(refname) /\ (q = p + 1 => q > p) /\ (q > p + 1 => q > p)
    BY <1>1 DEF IsComponent
  <2>2. LET s == SubSeq(refname, p + 1, q)
        IN  /\ IsDot(s) <=> q = p + 1 /\ refname[p + 1] = "."
            /\ StartsWithDot(s) <=> q > p + 1 /\ refname[p + 1] = "."
            /\ EndsWithDotLock(s) <=>
                 q >= p + 2 /\ refname[q - 1] = "." /\ refname[q] = "lock"
    BY <2>1, ComponentTests
  <2>3. ~Rejected(p, q)
    BY <1>1
  <2> QED
    BY <2>1, <2>2, <2>3 DEF Rejected
<1> QED
  BY <1>1 DEF SomeComponent

LEMMA FinishHolds ==
    ASSUME TypeOK, Counted, Passed, Finish
    PROVE  /\ result' = "Ok" => \A err \in Errors : ~Holds(err)
           /\ result' \in Errors => Holds(result')
<1>1. /\ refname \in Seq(Chars) /\ Len(refname) \in Nat /\ start \in Nat /\ i \in Nat
      /\ component_count \in Nat
  BY Bounds
<1>2. /\ Checking /\ start + i = Len(refname) /\ i # 0 /\ Len(refname) >= 1
      /\ refname[Len(refname)] # "/"
  BY AllPassed
<1>3. /\ ~SomeComponent(IsDot) /\ ~SomeComponent(StartsWithDot)
      /\ ~SomeComponent(EndsWithDotLock)
  BY <1>1, AllPassed, NoComponentRejected
<1>4. result' = IF EndsWith(refname, <<".">>) THEN "EndsWithDot"
                ELSE IF ~flags.AllowOneLevel /\ component_count + 1 < 2
                THEN "OnlyOneLevel"
                ELSE "Ok"
  BY DEF Finish
<1>5. CASE EndsWith(refname, <<".">>)
  BY <1>4, <1>5, HoldsOf
<1>6. CASE /\ ~EndsWith(refname, <<".">>)
           /\ ~flags.AllowOneLevel /\ component_count + 1 < 2
  <2>1. component_count = 0
    BY <1>1, <1>6
  <2>2. start = 0
    BY <1>2, <2>1 DEF Counted
  <2>3. \A k \in 1..Len(refname) : k \in (start + 1)..(start + i)
    BY <1>1, <1>2, <2>2
  <2>4. \A k \in 1..Len(refname) : refname[k] # "/"
    BY <2>3 DEF Passed, Place
  <2>5. ~Has(<<"/">>)
    BY <1>1, <2>4, HasByte
  <2> QED
    BY <1>4, <1>6, <2>5, HoldsOf
<1>7. CASE /\ ~EndsWith(refname, <<".">>)
           /\ ~(~flags.AllowOneLevel /\ component_count + 1 < 2)
  <2>1. result' = "Ok"
    BY <1>4, <1>7
  <2>2. /\ \A k \in 1..Len(refname) : refname[k] \notin Forbidden
        /\ \A k \in 1..(Len(refname) - 1) :
             /\ ~(refname[k] = "." /\ refname[k + 1] = ".")
             /\ ~(refname[k] = "@" /\ refname[k + 1] = "{")
             /\ ~(refname[k] = "/" /\ refname[k + 1] = "/")
        /\ refname[1] # "/"
    <3>1. start + i - 1 = Len(refname) - 1 /\ start + i > 0
      BY <1>1, <1>2
    <3> QED
      BY <1>2, <3>1 DEF Passed, BytesPassed
  <2>3. /\ ~Has(<<".", ".">>) /\ ~Has(<<"@", "{">>) /\ ~Has(<<"/", "/">>)
    <3>1. \A c, d : Has(<<c, d>>) <=>
            \E k \in 1..(Len(refname) - 1) : refname[k] = c /\ refname[k + 1] = d
      BY <1>1, HasPair
    <3>2. /\ Has(<<".", ".">>) <=>
              \E k \in 1..(Len(refname) - 1) : refname[k] = "." /\ refname[k + 1] = "."
          /\ Has(<<"@", "{">>) <=>
              \E k \in 1..(Len(refname) - 1) : refname[k] = "@" /\ refname[k + 1] = "{"
          /\ Has(<<"/", "/">>) <=>
              \E k \in 1..(Len(refname) - 1) : refname[k] = "/" /\ refname[k + 1] = "/"
      BY <3>1
    <3> QED
      BY <2>2, <3>2
  <2>4. ~EndsWith(refname, <<"/">>)
    BY <1>1, <1>2, EndsWithByte
  <2>5. ~flags.RefspecPattern => Asterisks = {}
    BY <1>2 DEF Passed, AsterisksPassed, Asterisks
  <2>6. \A p, q \in Asterisks : p = q
    BY <1>2 DEF Passed, AsterisksPassed, Asterisks
  <2>7. ~flags.AllowOneLevel => Has(<<"/">>)
    <3>1. ASSUME ~flags.AllowOneLevel
          PROVE  start \in 1..Len(refname) /\ refname[start] = "/"
      <4>1. component_count # 0
        BY <1>1, <1>7, <3>1
      <4>2. start > 0
        BY <1>1, <1>2, <4>1 DEF Counted
      <4> QED
        BY <1>1, <1>2, <4>2 DEF Passed, Place
    <3> QED
      BY <1>1, <3>1, HasByte
  <2>8. refname # <<>> /\ refname # <<"@">>
    <3>1. Len(<<>>) = 0
      OBVIOUS
    <3> QED
      BY <1>2, <3>1 DEF Passed, NotAt
  <2>9. ASSUME NEW c \in Forbidden
        PROVE  ~Holds(ForbiddenError(c))
    BY <1>1, <2>2, HasByte, HoldsOfForbidden
  <2>10. ASSUME NEW err \in Errors
         PROVE  ~Holds(err)
    BY <1>3, <1>7, <2>2, <2>3, <2>4, <2>5, <2>6, <2>7, <2>8, <2>9, HoldsOf DEF Errors
  <2>11. result' \notin Errors
    BY <2>1, ErrorsAre
  <2> QED
    BY <2>10, <2>11
<1> QED
  BY <1>5, <1>6, <1>7

-----------------------------------------------------------------------------
(* The theorems.                                                             *)

LEMMA InitHolds == Init => IInv /\ AcceptedIsValid /\ ErrorHolds
<1> SUFFICES ASSUME Init PROVE IInv /\ AcceptedIsValid /\ ErrorHolds
  OBVIOUS
<1>1. /\ refname \in Seq(Chars) /\ Len(refname) \in Nat
      /\ start = 0 /\ i = 0 /\ last = NoByte /\ component_count = 0
      /\ refname \in Refnames /\ flags \in Flags
      /\ allow_asterisk = flags.RefspecPattern
      /\ result = IF refname = <<"@">> THEN "IsAt" ELSE "none"
  BY RefnameAssumption, LenProperties DEF Init
<1>2. start + i = 0 /\ start + i - 1 = -1 /\ Rest = Len(refname)
  BY <1>1 DEF Rest
<1>3. TypeOK
  <2>1. allow_asterisk \in BOOLEAN
    BY <1>1 DEF Flags
  <2>2. result \in Errors \cup {"none", "Ok"}
    BY <1>1, ErrorsAre
  <2> QED
    BY <1>1, <1>2, <2>1, <2>2 DEF TypeOK
<1>4. Counted /\ Place
  BY <1>1, <1>2 DEF Counted, Place
<1>5. BytesPassed /\ AsterisksPassed
  BY <1>1, <1>2 DEF BytesPassed, AsterisksPassed
<1>6. ComponentsPassed
  BY <1>1 DEF ComponentsPassed
<1>7. NotAt
  BY <1>1 DEF NotAt, Checking
<1>8. AcceptedIsValid
  BY <1>1 DEF AcceptedIsValid
<1>9. ErrorHolds
  BY <1>1, ErrorsAre, HoldsOf DEF ErrorHolds
<1> QED
  BY <1>3, <1>4, <1>5, <1>6, <1>7, <1>8, <1>9 DEF IInv, Passed

LEMMA ResultStep ==
    ASSUME IInv, AcceptedIsValid, ErrorHolds, [Next]_vars
    PROVE  AcceptedIsValid' /\ ErrorHolds'
<1>1. TypeOK /\ Counted /\ Passed
  BY DEF IInv
<1>2. UNCHANGED <<refname, flags>>
  BY DEF Next, RejectByte, PassByte, EmptyComponent, RejectComponent, NextComponent,
         Finish, Returned, Fail, vars, argVars
<1>3. \A err \in Errors : Holds(err)' <=> Holds(err)
  BY <1>2, HoldsStays
<1>4. Errors' = Errors
  BY DEF Errors, Forbidden, ForbiddenError
<1>5. ASSUME UNCHANGED result
      PROVE  AcceptedIsValid' /\ ErrorHolds'
  BY <1>2, <1>3, <1>5, HoldsStays DEF AcceptedIsValid, ErrorHolds, Errors
<1>6. CASE RejectByte \/ EmptyComponent \/ RejectComponent
  <2>1. PICK err \in Errors : result' = err /\ Holds(err)
    BY <1>1, <1>6, RejectByteHolds, EmptyComponentHolds, RejectComponentHolds
  <2>2. result' # "Ok" /\ Holds(err)'
    BY <1>2, <2>1, HoldsStays, ErrorsAre
  <2> QED
    BY <2>1, <2>2 DEF AcceptedIsValid, ErrorHolds
<1>7. CASE Finish
  <2>1. /\ result' = "Ok" => \A err \in Errors : ~Holds(err)
        /\ result' \in Errors => Holds(result')
    BY <1>1, <1>7, FinishHolds
  <2> QED
    BY <1>3, <1>4, <2>1 DEF AcceptedIsValid, ErrorHolds
<1> QED
  BY <1>5, <1>6, <1>7 DEF Next, PassByte, NextComponent, Returned, vars

\* The loops stay inside the refname, and their counters inside their bounds.
THEOREM TypeCorrect == Spec => []TypeOK
<1>1. Init => TypeOK /\ Counted
  BY InitHolds DEF IInv
<1>2. TypeOK /\ Counted /\ [Next]_vars => (TypeOK /\ Counted)'
  BY TypeStep
<1> QED
  BY <1>1, <1>2, PTL DEF Spec

\* What the loops know is an invariant, and so is what is said of the result.
LEMMA Invariant == Spec => [](IInv /\ AcceptedIsValid /\ ErrorHolds)
<1>1. ASSUME IInv, AcceptedIsValid, ErrorHolds, [Next]_vars
      PROVE  (IInv /\ AcceptedIsValid /\ ErrorHolds)'
  <2>1. IInv'
    BY <1>1, TypeStep, PassedStep DEF IInv
  <2> QED
    BY <1>1, <2>1, ResultStep
<1> QED
  BY <1>1, InitHolds, PTL DEF Spec

\* refs.rs:118-122: an accepted refname has none of the errors, whatever its
\* components and its flags are.
THEOREM AcceptedAlwaysValid == Spec => []AcceptedIsValid
BY Invariant, PTL

\* The error that a refname is rejected with is one that it has.
THEOREM ErrorAlwaysHolds == Spec => []ErrorHolds
BY Invariant, PTL
=============================================================================
