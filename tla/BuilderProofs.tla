----------------------------- MODULE BuilderProofs -----------------------------
(***************************************************************************)
(* Theorems about Builder, for any builders, names, sources, and any       *)
(* judgement of the interpreter.                                           *)
(***************************************************************************)
EXTENDS Builder, TLAPS

\* While a source is read, its callback is not set, and code_buf holds what
\* has been read of it, after its name.
CodeSoFar ==
    call # None =>
        /\ call.source.kind = "text"
        /\ callbacks[call.builder][call.name] = None
        /\ code_buf[call.builder] =
               <<call.name>> \o SubSeq(call.source.lines, 1, call.read)

\* A builder that is not there yet has been given nothing.
NothingGiven ==
    \A b \in Builders, n \in Names : status[b] = "none" => given[b][n] = None

IInv == TypeOK /\ CodeSoFar /\ NothingGiven /\ CallbacksAsGiven

-----------------------------------------------------------------------------
\* What a sequence of lines is with one more, and when all have been read.
LEMMA LinesRead ==
    ASSUME NEW T, NEW s \in Seq(T), NEW k \in 0..Len(s)
    PROVE  /\ k < Len(s) => SubSeq(s, 1, k + 1) = Append(SubSeq(s, 1, k), s[k + 1])
           /\ SubSeq(s, 1, Len(s)) = s
           /\ SubSeq(s, 1, k) \in Seq(T)
  OBVIOUS

\* A concatenation is associative with the last element.
LEMMA AppendConcat ==
    ASSUME NEW T, NEW a \in Seq(T), NEW b \in Seq(T), NEW e \in T
    PROVE  Append(a \o b, e) = a \o Append(b, e)
  OBVIOUS

\* The code of a source that has been read.
LEMMA CodeRead ==
    ASSUME NEW n \in Names, NEW lines \in Seq(TextLines)
    PROVE  /\ Append(<<n>> \o lines, "end") = Code(n, lines)
           /\ Code(n, lines) \in FunctionType
<1> DEFINE T == Names \cup TextLines \cup Functions \cup {"end"}
<1>1. <<n>> \in Seq(T) /\ lines \in Seq(T) /\ "end" \in T
  OBVIOUS
<1>2. <<n>> \o lines \in Seq(T)
  BY <1>1
<1>3. Append(<<n>> \o lines, "end") = (<<n>> \o lines) \o <<"end">>
  BY <1>1, <1>2
<1>4. (<<n>> \o lines) \o <<"end">> \in Seq(T)
  BY <1>1, <1>2
<1> QED
  BY <1>3, <1>4 DEF Code, FunctionType

\* What can be said of a source.
LEMMA SourceTypes ==
    ASSUME NEW s \in Sources
    PROVE  /\ s.kind \in {"function", "text"}
           /\ s.lines \in Seq(TextLines \cup Functions)
           /\ s.kind = "text" => s.lines \in Seq(TextLines)
           /\ s.kind = "function" => s.lines \in FunctionType
           /\ None \notin FunctionType
<1>1. s \in Source
  BY BuilderAssumption
<1>2. s.lines \in Seq(TextLines \cup Functions)
  BY <1>1 DEF Source
<1>3. s.lines \in FunctionType
  BY <1>2 DEF FunctionType
<1> QED
  BY <1>1, <1>2, <1>3, BuilderAssumption DEF Source, FunctionType

-----------------------------------------------------------------------------
\* The invariant holds at first.
LEMMA InitIInv == Init => IInv
<1> SUFFICES ASSUME Init PROVE IInv
  OBVIOUS
<1>1. TypeOK
  <2>1. <<>> \in FunctionType
    BY DEF FunctionType
  <2> QED
    BY <2>1 DEF Init, TypeOK, CallOK, CallbackType, NoCallbacks
<1>2. CodeSoFar
  BY DEF Init, CodeSoFar
<1>3. NothingGiven /\ CallbacksAsGiven
  BY DEF Init, NothingGiven, CallbacksAsGiven, Expected, NoCallbacks
<1> QED
  BY <1>1, <1>2, <1>3 DEF IInv

\* A callback that is set from s, by a setter that has found it unset.
LEMMA AssignKeeps ==
    ASSUME IInv, NEW b \in Builders, NEW n \in Names, NEW s \in Sources,
           NEW f \in FunctionType, f = FunctionOf(n, s),
           status[b] = "alive", Assign(b, n, s, f), UNCHANGED status
    PROVE  /\ callbacks' \in CallbackType
           /\ given' \in [Builders -> [Names -> Sources \cup {None}]]
           /\ ret' = "Ok"
           /\ NothingGiven' /\ CallbacksAsGiven'
<1>1. TypeOK
  BY DEF IInv
<1>2. /\ callbacks' \in CallbackType
      /\ given' \in [Builders -> [Names -> Sources \cup {None}]]
      /\ ret' = "Ok"
  BY <1>1 DEF Assign, TypeOK, CallbackType
<1>3. /\ callbacks'[b][n] = f /\ given'[b][n] = s
      /\ \A c \in Builders, m \in Names : <<c, m>> # <<b, n>> =>
            callbacks'[c][m] = callbacks[c][m] /\ given'[c][m] = given[c][m]
  BY <1>1 DEF Assign, TypeOK, CallbackType
<1>4. NothingGiven'
  BY <1>1, <1>3 DEF IInv, NothingGiven
<1>5. CallbacksAsGiven'
  <2>1. s # None
    BY BuilderAssumption
  <2> QED
    BY <1>3, <2>1 DEF IInv, CallbacksAsGiven, Expected
<1> QED
  BY <1>2, <1>4, <1>5

-----------------------------------------------------------------------------
\* Every step keeps the invariant.
LEMMA NextIInv == IInv /\ [Next]_vars => IInv'
<1> SUFFICES ASSUME IInv, [Next]_vars PROVE IInv'
  OBVIOUS
<1>0. /\ TypeOK /\ CodeSoFar /\ NothingGiven /\ CallbacksAsGiven
      /\ CallOK
  BY DEF IInv, TypeOK
<1>1. CASE UNCHANGED vars
  BY <1>0, <1>1 DEF vars, IInv, TypeOK, CallOK, CodeSoFar, NothingGiven,
     CallbacksAsGiven, Expected
<1>2. ASSUME NEW b \in Builders, New(b) PROVE IInv'
  <2>1. TypeOK'
    <3>1. <<>> \in FunctionType
      BY DEF FunctionType
    <3> QED
      BY <1>0, <1>2, <3>1 DEF New, TypeOK, CallOK, CallbackType, NoCallbacks
  <2>2. CodeSoFar'
    BY <1>2 DEF New, CodeSoFar
  <2>3. NothingGiven'
    BY <1>0, <1>2 DEF New, NothingGiven, Expected, TypeOK
  <2>4. CallbacksAsGiven'
    BY <1>0, <1>2 DEF New, CallbacksAsGiven, NothingGiven, Expected, TypeOK,
       CallbackType, NoCallbacks
  <2> QED
    BY <2>1, <2>2, <2>3, <2>4 DEF IInv
<1>3. ASSUME NEW b \in Builders, NEW c \in Builders, Clone(b, c) PROVE IInv'
  <2>1. TypeOK'
    <3>1. <<>> \in FunctionType
      BY DEF FunctionType
    <3> QED
      BY <1>0, <1>3, <3>1 DEF Clone, TypeOK, CallOK, CallbackType
  <2>2. CodeSoFar'
    BY <1>3 DEF Clone, CodeSoFar
  <2>3. NothingGiven'
    BY <1>0, <1>3 DEF Clone, NothingGiven, Expected, TypeOK
  <2>4. CallbacksAsGiven'
    BY <1>0, <1>3 DEF Clone, CallbacksAsGiven, Expected, TypeOK, CallbackType
  <2> QED
    BY <2>1, <2>2, <2>3, <2>4 DEF IInv
<1>4. ASSUME NEW b \in Builders, Build(b) PROVE IInv'
  <2>1. TypeOK'
    BY <1>0, <1>4 DEF Build, TypeOK, CallOK, CallbackType
  <2>2. CodeSoFar'
    BY <1>4 DEF Build, CodeSoFar
  <2>3. NothingGiven' /\ CallbacksAsGiven'
    BY <1>0, <1>4 DEF Build, NothingGiven, CallbacksAsGiven, Expected, TypeOK
  <2> QED
    BY <2>1, <2>2, <2>3 DEF IInv
<1>5. ASSUME NEW b \in Builders, NEW n \in Names, Redefined(b, n) PROVE IInv'
  BY <1>0, <1>5 DEF Redefined, IInv, TypeOK, CallOK, CodeSoFar, NothingGiven,
     CallbacksAsGiven, Expected
<1>6. ASSUME NEW b \in Builders, NEW n \in Names, NEW s \in Sources,
             SetFunction(b, n, s)
      PROVE  IInv'
  <2>1. /\ call = None /\ status[b] = "alive" /\ s.kind = "function"
        /\ code_buf' = [code_buf EXCEPT ![b] = <<>>]
        /\ Assign(b, n, s, s.lines) /\ UNCHANGED <<status, call>>
    BY <1>6 DEF SetFunction
  <2>2. s.lines \in FunctionType /\ s.lines = FunctionOf(n, s)
    BY <2>1, SourceTypes DEF FunctionOf
  <2>3. /\ callbacks' \in CallbackType
        /\ given' \in [Builders -> [Names -> Sources \cup {None}]]
        /\ ret' = "Ok"
        /\ NothingGiven' /\ CallbacksAsGiven'
    BY <2>1, <2>2, AssignKeeps
  <2>4. TypeOK'
    <3>1. <<>> \in FunctionType
      BY DEF FunctionType
    <3> QED
      BY <1>0, <2>1, <2>3, <3>1 DEF TypeOK, CallOK
  <2>5. CodeSoFar'
    BY <2>1 DEF CodeSoFar
  <2> QED
    BY <2>3, <2>4, <2>5 DEF IInv
<1>7. ASSUME NEW b \in Builders, NEW n \in Names, NEW s \in Sources,
             SetText(b, n, s)
      PROVE  IInv'
  <2>1. /\ call = None /\ status[b] = "alive" /\ callbacks[b][n] = None
        /\ s.kind = "text" /\ UNCHANGED <<status, callbacks, given>>
    BY <1>7 DEF SetText
  <2>2. /\ <<>> \in FunctionType /\ <<n>> \in FunctionType
        /\ s.lines \in Seq(TextLines)
    BY <2>1, SourceTypes DEF FunctionType
  <2>3. NothingGiven' /\ CallbacksAsGiven'
    BY <1>0, <2>1 DEF NothingGiven, CallbacksAsGiven, Expected
  <2>4. CASE s.fails = "open"
    <3>1. code_buf' = [code_buf EXCEPT ![b] = <<>>] /\ ret' = "error" /\ call' = call
      BY <1>7, <2>4 DEF SetText
    <3>2. TypeOK'
      BY <1>0, <2>1, <2>2, <3>1 DEF TypeOK, CallOK
    <3>3. CodeSoFar'
      BY <2>1, <3>1 DEF CodeSoFar
    <3> QED
      BY <2>3, <3>2, <3>3 DEF IInv
  <2>5. CASE s.fails # "open"
    <3>1. /\ code_buf' = [code_buf EXCEPT ![b] = <<n>>]
          /\ call' = Setting(b, n, s) /\ ret' = ret
      BY <1>7, <2>5 DEF SetText
    <3>2. CallOK'
      BY <2>1, <2>2, <3>1 DEF CallOK, Setting
    <3>3. TypeOK'
      BY <1>0, <2>1, <2>2, <3>1, <3>2 DEF TypeOK
    <3>4. code_buf'[b] = <<n>> \o SubSeq(s.lines, 1, 0)
      BY <1>0, <2>2, <3>1 DEF TypeOK
    <3>5. CodeSoFar'
      BY <2>1, <3>1, <3>4 DEF CodeSoFar, Setting
    <3> QED
      BY <2>3, <3>3, <3>5 DEF IInv
  <2> QED
    BY <2>4, <2>5
<1>8. ASSUME call # None
      PROVE  /\ call.builder \in Builders /\ call.name \in Names
             /\ call.source \in Sources /\ call.read \in 0..Len(call.source.lines)
             /\ status[call.builder] = "alive"
             /\ call.source.kind = "text" /\ call.source.lines \in Seq(TextLines)
             /\ code_buf[call.builder] =
                    <<call.name>> \o SubSeq(call.source.lines, 1, call.read)
  <2>1. /\ call \in [builder : Builders, name : Names,
                     source : Sources, read : Nat]
        /\ call.read <= Len(call.source.lines)
        /\ status[call.builder] = "alive"
    BY <1>0, <1>8 DEF CallOK
  <2>2. call.source \in Sources /\ call.source.kind = "text"
    BY <1>0, <1>8, <2>1 DEF CodeSoFar
  <2>3. call.source.lines \in Seq(TextLines)
    BY <2>2, SourceTypes
  <2> QED
    BY <1>0, <1>8, <2>1, <2>2, <2>3 DEF CodeSoFar
<1>9. CASE PushLine
  <2> DEFINE b == call.builder
             lines == call.source.lines
             k == call.read
  <2>1. /\ call # None /\ k < Len(lines)
        /\ code_buf' = [code_buf EXCEPT ![b] = Append(@, lines[k + 1])]
        /\ call' = [call EXCEPT !.read = @ + 1]
        /\ UNCHANGED <<status, callbacks, ret, given>>
    BY <1>9 DEF PushLine
  <2>2. /\ b \in Builders /\ lines \in Seq(TextLines) /\ k \in 0..Len(lines)
        /\ call \in [builder : Builders, name : Names,
                     source : Sources, read : Nat]
        /\ code_buf[b] = <<call.name>> \o SubSeq(lines, 1, k)
    BY <1>0, <1>8, <2>1 DEF CallOK
  <2>3. /\ call'.read = k + 1 /\ call'.builder = b
        /\ call'.name = call.name /\ call'.source = call.source
        /\ call' \in [builder : Builders, name : Names,
                      source : Sources, read : Nat]
    <3>1. call' = [call EXCEPT !.read = call.read + 1]
      BY <2>1
    <3>2. k + 1 \in Nat
      BY <2>2
    <3> HIDE DEF lines
    <3> QED
      BY <2>2, <3>1, <3>2
  <2>4. code_buf'[b] = <<call.name>> \o SubSeq(lines, 1, k + 1)
    <3> DEFINE T == Names \cup TextLines
    <3>1. <<call.name>> \in Seq(T)
      BY <2>2
    <3>2. SubSeq(lines, 1, k) \in Seq(T) /\ lines[k + 1] \in T
      BY <2>1, <2>2, LinesRead
    <3>3. SubSeq(lines, 1, k + 1) = Append(SubSeq(lines, 1, k), lines[k + 1])
      BY <2>1, <2>2, LinesRead
    <3>4. code_buf'[b] = Append(<<call.name>> \o SubSeq(lines, 1, k), lines[k + 1])
      BY <1>0, <2>1, <2>2 DEF TypeOK
    <3>5. Append(<<call.name>> \o SubSeq(lines, 1, k), lines[k + 1])
            = <<call.name>> \o Append(SubSeq(lines, 1, k), lines[k + 1])
      BY <3>1, <3>2, AppendConcat
    <3> QED
      BY <3>3, <3>4, <3>5
  <2>5. CodeSoFar'
    BY <1>0, <2>1, <2>3, <2>4 DEF CodeSoFar
  <2>6. CallOK'
    BY <1>0, <1>8, <2>1, <2>2, <2>3 DEF CallOK
  <2>7. code_buf' \in [Builders -> FunctionType]
    <3>1. lines[k + 1] \in TextLines
      BY <2>1, <2>2
    <3>2. Append(code_buf[b], lines[k + 1]) \in FunctionType
      BY <1>0, <2>2, <3>1 DEF TypeOK, FunctionType
    <3> QED
      BY <1>0, <2>1, <3>2 DEF TypeOK
  <2>8. TypeOK'
    BY <1>0, <2>1, <2>6, <2>7 DEF TypeOK
  <2>9. NothingGiven' /\ CallbacksAsGiven'
    BY <1>0, <2>1 DEF NothingGiven, CallbacksAsGiven, Expected
  <2> QED
    BY <2>5, <2>8, <2>9 DEF IInv
<1>10. CASE LineFails
  BY <1>0, <1>10 DEF LineFails, IInv, TypeOK, CallOK, CodeSoFar, NothingGiven,
     CallbacksAsGiven, Expected
<1>11. CASE RunFails
  <2>1. /\ call # None /\ call' = None /\ ret' = "error"
        /\ code_buf' = [code_buf EXCEPT ![call.builder] = Append(@, "end")]
        /\ UNCHANGED <<status, callbacks, given>>
    BY <1>11 DEF RunFails, AllRead
  <2>2. code_buf' \in [Builders -> FunctionType]
    <3>1. Append(code_buf[call.builder], "end") \in FunctionType
      BY <1>0, <1>8, <2>1 DEF TypeOK, FunctionType
    <3> QED
      BY <1>0, <2>1, <3>1 DEF TypeOK
  <2>3. TypeOK'
    BY <1>0, <2>1, <2>2 DEF TypeOK, CallOK
  <2>4. CodeSoFar'
    BY <2>1 DEF CodeSoFar
  <2>5. NothingGiven' /\ CallbacksAsGiven'
    BY <1>0, <2>1 DEF NothingGiven, CallbacksAsGiven, Expected
  <2> QED
    BY <2>3, <2>4, <2>5 DEF IInv
<1>12. CASE RunCode
  <2> DEFINE b == call.builder
             n == call.name
             s == call.source
             code == Append(code_buf[b], "end")
  <2>1. /\ call # None /\ call.read = Len(s.lines)
        /\ code_buf' = [code_buf EXCEPT ![b] = code]
        /\ Assign(b, n, s, code)
        /\ call' = None /\ UNCHANGED status
    BY <1>12 DEF RunCode, AllRead
  <2>2. /\ b \in Builders /\ n \in Names /\ s \in Sources
        /\ s.kind = "text" /\ s.lines \in Seq(TextLines) /\ status[b] = "alive"
        /\ code_buf[b] = <<n>> \o SubSeq(s.lines, 1, Len(s.lines))
    BY <1>8, <2>1
  <2>3. code_buf[b] = <<n>> \o s.lines
    BY <2>2, LinesRead
  <2>4. code = Code(n, s.lines) /\ Code(n, s.lines) \in FunctionType
    BY <2>2, <2>3, CodeRead
  <2>5. code \in FunctionType /\ code = FunctionOf(n, s)
    BY <2>2, <2>4 DEF FunctionOf
  <2> HIDE DEF b, n, s, code
  <2>6. /\ callbacks' \in CallbackType
        /\ given' \in [Builders -> [Names -> Sources \cup {None}]]
        /\ ret' = "Ok"
        /\ NothingGiven' /\ CallbacksAsGiven'
    BY <2>1, <2>2, <2>5, AssignKeeps
  <2>7. TypeOK'
    BY <1>0, <2>1, <2>2, <2>5, <2>6 DEF TypeOK, CallOK
  <2>8. CodeSoFar'
    BY <2>1 DEF CodeSoFar
  <2> QED
    BY <2>6, <2>7, <2>8 DEF IInv
<1> QED
  BY <1>1, <1>2, <1>3, <1>4, <1>5, <1>6, <1>7, <1>9, <1>10, <1>11, <1>12 DEF Next

\* The invariant always holds.
LEMMA Inductive == Spec => []IInv
<1>1. Init => IInv
  BY InitIInv
<1>2. IInv /\ [Next]_vars => IInv'
  BY NextIInv
<1> QED
  BY <1>1, <1>2, PTL DEF Spec

-----------------------------------------------------------------------------
\* The builder's state keeps its types.
THEOREM TypeCorrect == Spec => []TypeOK
<1>1. IInv => TypeOK
  BY DEF IInv
<1> QED
  BY <1>1, Inductive, PTL

\* A callback is what it was set from, whatever has failed before in the
\* buffer that its code was put together in.
THEOREM CallbacksStayAsGiven == Spec => []CallbacksAsGiven
<1>1. IInv => CallbacksAsGiven
  BY DEF IInv
<1> QED
  BY <1>1, Inductive, PTL

\* No step of any call changes a callback that is set.
THEOREM CallbacksSetOnce == Spec => SetOnce
<1> DEFINE Keeps == \A b \in Builders, n \in Names :
                        status[b] # "none" /\ callbacks[b][n] # None =>
                            callbacks'[b][n] = callbacks[b][n]
<1>1. IInv /\ [Next]_vars => [Keeps]_vars
  <2> SUFFICES ASSUME IInv, Next PROVE Keeps
    OBVIOUS
  <2>0. callbacks \in CallbackType /\ CallOK /\ CodeSoFar
    BY DEF IInv, TypeOK
  <2>1. ASSUME NEW b \in Builders, NEW n \in Names, NEW s, NEW f,
               callbacks[b][n] = None, Assign(b, n, s, f)
        PROVE  Keeps
    BY <2>0, <2>1 DEF Assign, CallbackType
  <2>2. ASSUME NEW b \in Builders, New(b) PROVE Keeps
    BY <2>0, <2>2 DEF New, CallbackType
  <2>3. ASSUME NEW b \in Builders, NEW c \in Builders, Clone(b, c) PROVE Keeps
    BY <2>0, <2>3 DEF Clone, CallbackType
  <2>4. ASSUME NEW b \in Builders, Build(b) PROVE Keeps
    BY <2>4 DEF Build
  <2>5. ASSUME NEW b \in Builders, NEW n \in Names, Redefined(b, n) PROVE Keeps
    BY <2>5 DEF Redefined
  <2>6. ASSUME NEW b \in Builders, NEW n \in Names, NEW s \in Sources,
               SetFunction(b, n, s)
        PROVE  Keeps
    <3>1. callbacks[b][n] = None /\ Assign(b, n, s, s.lines)
      BY <2>6 DEF SetFunction
    <3> QED
      BY <2>1, <3>1
  <2>7. ASSUME NEW b \in Builders, NEW n \in Names, NEW s \in Sources,
               SetText(b, n, s)
        PROVE  Keeps
    BY <2>7 DEF SetText
  <2>8. CASE PushLine \/ LineFails \/ RunFails
    BY <2>8 DEF PushLine, LineFails, RunFails
  <2>9. CASE RunCode
    <3>1. call # None
      BY <2>9 DEF RunCode, AllRead
    <3>2. call.builder \in Builders /\ call.name \in Names
      BY <2>0, <3>1 DEF CallOK
    <3>3. callbacks[call.builder][call.name] = None
      BY <2>0, <3>1 DEF CodeSoFar
    <3>4. Assign(call.builder, call.name, call.source,
                 Append(code_buf[call.builder], "end"))
      BY <2>9 DEF RunCode
    <3> HIDE DEF Keeps
    <3> QED
      BY <2>1, <3>2, <3>3, <3>4
  <2> HIDE DEF Keeps
  <2> QED
    BY <2>2, <2>3, <2>4, <2>5, <2>6, <2>7, <2>8, <2>9 DEF Next
<1> QED
  BY <1>1, Inductive, PTL DEF Spec, SetOnce
=============================================================================
