---------------------------- MODULE ChangesProofs ----------------------------
(***************************************************************************)
(* Theorems about Changes, that is, about Parser::next, ChangeIter::next   *)
(* and the caller of both, for every set of streams, every bound on the    *)
(* context lines and on the numbers, and however often the reader fails.   *)
(*                                                                         *)
(* The inductive invariant has a part for the stream, one for the lines    *)
(* that are kept of it, one for the calls, and one for its data streams.   *)
(* Each is preserved on its own, from those before it. A part for the      *)
(* argument that was parsed last, and one for the types, rest on what the  *)
(* pure operators of Quote and Arguments return: quoted strings,           *)
(* identities, modes, and numbers, written and read.                       *)
(*                                                                         *)
(* What a recursive function returns is proved by its least                *)
(* counterexample (LeastNumber): such a function is shown to exist on each *)
(* 0..n, and its values to be what they should, up to the first number for *)
(* which that fails, which there cannot be.                                *)
(***************************************************************************)
EXTENDS Changes, LinesProofs, WellFoundedInduction

-----------------------------------------------------------------------------
(* The commands, their directives and their arguments.                       *)

\* How arguments are parsed.
Parses == {"Branch", "TagName", "Encoding", "Oid", "Mark", "Objectish", "Ident", "Header",
           "Ls", "CommitLs", "Feature", "Option", "FileModify", "FileDelete", "FileRename",
           "NoteModify"}

\* A directive that is missing is passed over, or is an error.
IsStep(d) == d.missing \in Missings \cup {"Ok"} /\ d.parse \in Parses

\* The directives of a command are built of these.
LEMMA IsStepForms ==
    ASSUME NEW p, NEW q \in Parses
    PROVE  /\ IsStep(Optional(p, q)) /\ Optional(p, q).parse = q
           /\ IsStep(Many(p, q))
           /\ \A e \in Missings : IsStep(Required(p, q, e))
BY DEF IsStep, Optional, Many, Required

\* Tuples of the lengths the commands have.
LEMMA Tuples ==
    ASSUME NEW a, NEW b, NEW c, NEW d, NEW e, NEW f, NEW g, NEW h
    PROVE  /\ Len(<<a>>) = 1 /\ <<a>>[1] = a
           /\ Len(<<a, b>>) = 2 /\ <<a, b>>[1] = a /\ <<a, b>>[2] = b
           /\ Len(<<a, b, c>>) = 3
           /\ <<a, b, c>>[1] = a /\ <<a, b, c>>[2] = b /\ <<a, b, c>>[3] = c
           /\ Len(<<a, b, c, d, e>>) = 5
           /\ \A i \in 1..5 : <<a, b, c, d, e>>[i] \in {a, b, c, d, e}
           /\ Len(<<a, b, c, d, e, f, g, h>>) = 8
           /\ \A i \in 1..8 : <<a, b, c, d, e, f, g, h>>[i] \in {a, b, c, d, e, f, g, h}
OBVIOUS

IsCommand(steps) ==
    /\ Len(steps) \in Nat /\ Len(steps) >= 1
    /\ \A i \in 1..Len(steps) : IsStep(steps[i])

\* A tuple of directives is a command.
LEMMA CommandForms ==
    ASSUME NEW a, NEW b, NEW c, NEW d, NEW e, NEW f, NEW g, NEW h
    PROVE  /\ IsStep(a) => IsCommand(<<a>>)
           /\ IsStep(a) /\ IsStep(b) => IsCommand(<<a, b>>)
           /\ IsStep(a) /\ IsStep(b) /\ IsStep(c) => IsCommand(<<a, b, c>>)
           /\ IsStep(a) /\ IsStep(b) /\ IsStep(c) /\ IsStep(d) /\ IsStep(e) =>
                IsCommand(<<a, b, c, d, e>>)
           /\ IsStep(a) /\ IsStep(b) /\ IsStep(c) /\ IsStep(d) /\ IsStep(e) /\ IsStep(f)
              /\ IsStep(g) /\ IsStep(h) => IsCommand(<<a, b, c, d, e, f, g, h>>)
<1>1. IsStep(a) => IsCommand(<<a>>)
  BY Tuples DEF IsCommand
<1>2. IsStep(a) /\ IsStep(b) => IsCommand(<<a, b>>)
  BY Tuples DEF IsCommand
<1>3. IsStep(a) /\ IsStep(b) /\ IsStep(c) => IsCommand(<<a, b, c>>)
  BY Tuples DEF IsCommand
<1>4. IsStep(a) /\ IsStep(b) /\ IsStep(c) /\ IsStep(d) /\ IsStep(e) =>
        IsCommand(<<a, b, c, d, e>>)
  BY Tuples DEF IsCommand
<1>5. IsStep(a) /\ IsStep(b) /\ IsStep(c) /\ IsStep(d) /\ IsStep(e) /\ IsStep(f)
      /\ IsStep(g) /\ IsStep(h) => IsCommand(<<a, b, c, d, e, f, g, h>>)
  BY Tuples DEF IsCommand
<1> QED
  BY <1>1, <1>2, <1>3, <1>4, <1>5

\* What is used of Steps: every directive, if it is missing, is passed over or is
\* a Missings error, and the header of a blob's data is its last directive.
LEMMA StepsFacts ==
    /\ DOMAIN Steps = {"blob", "commit", "tag", "reset", "alias"}
    /\ \A c \in DOMAIN Steps : IsCommand(Steps[c])
    /\ \A i \in 1..Len(Steps["blob"]) :
         Steps["blob"][i].parse = "Header" => i = Len(Steps["blob"])
<1>0. /\ "Mark" \in Parses /\ "Oid" \in Parses /\ "Header" \in Parses
      /\ "Ident" \in Parses /\ "Encoding" \in Parses /\ "Objectish" \in Parses
  BY DEF Parses
<1>1. DOMAIN Steps = {"blob", "commit", "tag", "reset", "alias"}
  BY DEF Steps
<1>2. \A e \in {"ExpectedBlobData", "ExpectedCommitCommitter",
                "ExpectedCommitMessage", "ExpectedTagFrom", "ExpectedTagMessage",
                "ExpectedAliasMark", "ExpectedAliasTo"} : e \in Missings
  BY DEF Missings
<1>3. Steps["blob"] = << Optional("mark ", "Mark"), Optional("original-oid ", "Oid"),
                         Required("data ", "Header", "ExpectedBlobData") >>
  BY DEF Steps
<1>4. IsCommand(Steps["blob"])
  <2>1. ASSUME NEW a, NEW b, NEW c, IsStep(a), IsStep(b), IsStep(c)
        PROVE  IsCommand(<<a, b, c>>)
    BY <2>1, CommandForms
  <2>2. /\ IsStep(Optional("mark ", "Mark")) /\ IsStep(Optional("original-oid ", "Oid"))
        /\ IsStep(Required("data ", "Header", "ExpectedBlobData"))
    BY <1>0, <1>2, IsStepForms
  <2> QED
    BY <1>3, <2>1, <2>2
<1>5. IsCommand(Steps["commit"])
  BY <1>0, <1>2, IsStepForms, CommandForms DEF Steps
<1>6. IsCommand(Steps["tag"])
  BY <1>0, <1>2, IsStepForms, CommandForms DEF Steps
<1>7. IsCommand(Steps["reset"])
  <2>1. ASSUME NEW a, IsStep(a) PROVE IsCommand(<<a>>)
    BY <2>1, CommandForms
  <2>2. Steps["reset"] = <<Optional("from ", "Objectish")>>
    BY DEF Steps
  <2> QED
    BY <1>0, <2>1, <2>2, IsStepForms
<1>8. IsCommand(Steps["alias"])
  <2>1. ASSUME NEW a, NEW b, IsStep(a), IsStep(b) PROVE IsCommand(<<a, b>>)
    BY <2>1, CommandForms
  <2>2. Steps["alias"] = << Required("mark ", "Mark", "ExpectedAliasMark"),
                            Required("to ", "Objectish", "ExpectedAliasTo") >>
    BY DEF Steps
  <2> QED
    BY <1>0, <1>2, <2>1, <2>2, IsStepForms
<1>9. \A i \in 1..Len(Steps["blob"]) :
        Steps["blob"][i].parse = "Header" => i = Len(Steps["blob"])
  <2> DEFINE m == Optional("mark ", "Mark")
             o == Optional("original-oid ", "Oid")
             d == Required("data ", "Header", "ExpectedBlobData")
  <2>1. Steps["blob"] = <<m, o, d>> /\ m.parse = "Mark" /\ o.parse = "Oid"
    BY <1>0, <1>3, IsStepForms
  <2> HIDE DEF m, o, d
  <2>2. Len(Steps["blob"]) = 3 /\ Steps["blob"][1] = m /\ Steps["blob"][2] = o
    BY <2>1
  <2> QED
    BY <2>1, <2>2
<1> QED
  BY <1>1, <1>4, <1>5, <1>6, <1>7, <1>8, <1>9

\* What is used of the commands whose line has an argument.
LEMMA NamesFacts ==
    /\ \A s \in DOMAIN Names : Names[s] \in DOMAIN Steps /\ Names[s] # "blob"
    /\ "ls " \notin DOMAIN Names
    /\ "ls " \in DOMAIN ArgumentOf /\ ArgumentOf["ls "] = "Ls"
BY StepsFacts DEF Names, ArgumentOf

\* An `ls` outside of a commit that is parsed has a root: the unwrap of it cannot
\* fail.
LEMMA LsRooted ==
    ASSUME NEW arg, ~Failing(Parse("Ls", arg))
    PROVE  Len(Parse("Ls", arg).fields) # 1
<1>1. Parse("Ls", arg) = Ls(arg, FALSE)
  BY DEF Parse
<1>2. ASSUME NEW e PROVE Len(Err(e).fields) # 1
  BY DEF Err, Value
<1>3. ASSUME NEW k, NEW n, NEW r, NEW x
      PROVE  Len(Value(k, n, Append(<<r>>, x)).fields) # 1
  BY DEF Value
<1>4. ASSUME NEW root, NEW str PROVE Len(LsString(<<root>>, str).fields) # 1
  BY <1>2, <1>3 DEF LsString
<1>5. ASSUME NEW root, NEW path PROVE Len(LsPath(<<root>>, path).fields) # 1
  BY <1>3, <1>4 DEF LsPath
<1> DEFINE root == SubSeq(arg, 1, Find(arg, {" "}) - 1)
<1>6. ASSUME Objectish(root).kind \in ArgErrors
      PROVE  Ls(arg, FALSE) # Objectish(root)
  BY <1>1, <1>6 DEF Failing
<1> QED
  BY <1>1, <1>2, <1>5, <1>6 DEF Ls

-----------------------------------------------------------------------------
(* The stream and how far it has been read.                                  *)

StreamInv ==
    /\ stream \in Seq(Bytes) /\ pos \in 0..Len(stream)
    /\ eof \in BOOLEAN /\ (eof => pos = Len(stream))

\* A data stream ends within the stream, and at its end if it sets eof.
LEMMA DataEndBounds ==
    ASSUME StreamInv, NEW h, NEW q \in Ends(h, pos)
    PROVE  /\ q \in pos..Len(stream)
           /\ DataEnd(h, q) \in q..Len(stream)
           /\ ~h.is_counted /\ q + Len(h.delim) = Len(stream) =>
                DataEnd(h, q) = Len(stream)
<1>1. q \in pos..Len(stream) /\ ContentsEnd(h, pos, q)
  BY DEF Ends
<1>2. Len(stream) \in Nat /\ q \in 0..Len(stream)
  BY <1>1, LenProperties DEF StreamInv
<1>3. CASE h.is_counted
  BY <1>1, <1>2, <1>3 DEF DataEnd
<1>4. CASE ~h.is_counted
  <2>1. IsLine(q, Len(h.delim))
    BY <1>1, <1>4 DEF ContentsEnd, DelimiterAt
  <2>2. DataEnd(h, q) = LineEnd(q, Len(h.delim))
    BY <1>4 DEF DataEnd
  <2>3. LineEnd(q, Len(h.delim)) \in q..Len(stream)
    BY <1>2, <2>1, LineEndBounds DEF StreamInv
  <2>4. q + Len(h.delim) = Len(stream) => LineEnd(q, Len(h.delim)) = Len(stream)
    BY <1>2 DEF LineEnd
  <2> QED
    BY <1>1, <2>2, <2>3, <2>4
<1> QED
  BY <1>3, <1>4

\* Passing data keeps the invariant of the stream,
LEMMA PassedStream ==
    ASSUME StreamInv, NEW h, NEW q \in Ends(h, pos), Passed(h, q),
           pos' \in {DataEnd(h, q), SkipOptionalLF(DataEnd(h, q))}
    PROVE  StreamInv'
<1>1. /\ stream \in Seq(Bytes) /\ stream' = stream /\ Len(stream) \in Nat
      /\ pos \in 0..Len(stream) /\ eof \in BOOLEAN
  <2>1. stream' = stream
    BY DEF Passed
  <2>2. stream \in Seq(Bytes) /\ pos \in 0..Len(stream) /\ eof \in BOOLEAN
    BY DEF StreamInv
  <2>3. Len(stream) \in Nat
    BY <2>2, LenProperties
  <2> QED
    BY <2>1, <2>2, <2>3
<1>2. /\ q \in pos..Len(stream) /\ DataEnd(h, q) \in q..Len(stream)
      /\ DataEnd(h, q) \in 0..Len(stream)
  BY <1>1, DataEndBounds
<1>3. SkipOptionalLF(DataEnd(h, q)) \in DataEnd(h, q)..Len(stream)
  BY <1>1, <1>2, SkipBounds
<1>4. pos' \in 0..Len(stream) /\ pos' >= DataEnd(h, q)
  BY <1>1, <1>2, <1>3
<1>5. eof' \in BOOLEAN
  BY <1>1 DEF Passed
<1>6. ASSUME eof' PROVE pos' = Len(stream)
  <2>1. CASE eof
    BY <1>1, <1>2, <1>4, <2>1 DEF StreamInv
  <2>2. CASE ~eof
    <3>1. DataEnd(h, q) = Len(stream)
      BY <1>6, <2>2, DataEndBounds DEF Passed
    <3> QED
      BY <1>1, <1>4, <3>1
  <2> QED
    BY <2>1, <2>2
<1> QED
  BY <1>1, <1>4, <1>5, <1>6 DEF StreamInv

\* so does a reader that fails in the middle of it,
LEMMA BrokenStream ==
    ASSUME StreamInv, NEW h, NEW p \in pos..Len(stream), BreakData(h, p)
    PROVE  StreamInv'
BY LenProperties DEF StreamInv, BreakData

\* and so does data that is cut short.
LEMMA CutStream ==
    ASSUME StreamInv, NEW h, CutShort(h), eof' \in BOOLEAN
    PROVE  StreamInv'
<1>1. pos' = Len(stream) /\ stream' = stream /\ Len(stream) \in Nat
  BY LenProperties DEF StreamInv, CutShort
<1> QED
  BY <1>1 DEF StreamInv

\* No step leaves the stream, and eof is set only at its end.
LEMMA StreamStep ==
    ASSUME StreamInv, [ChangesNext]_changesVars
    PROVE  StreamInv'
<1> USE DEF StreamInv
<1>1. ASSUME UNCHANGED inputVars PROVE StreamInv'
  BY <1>1 DEF inputVars
<1>2. ASSUME NEW h, NEW q \in Ends(h, pos), PassData(h, q) \/ PassDataFails(h, q)
      PROVE  StreamInv'
  BY <1>2, PassedStream DEF PassData, PassDataFails
<1>3. CASE ParserStep
  <2>1. CASE PeekUnread \/ PeekAtEof \/ NextCommand \/ TakeDirective \/ PassDirective
    BY <1>1, <2>1 DEF PeekUnread, PeekAtEof, NextCommand, TakeDirective, PassDirective
  <2>2. CASE PeekLine
    <3>1. PICK n \in 0..(Len(stream) - pos) : ReadLine(n) /\ pos' = LineEnd(pos, n)
      BY <2>2 DEF PeekLine
    <3>2. IsLine(pos, n) /\ eof' = (pos + n = Len(stream)) /\ stream' = stream
      BY <2>2, <3>1 DEF PeekLine, ReadLine
    <3>3. pos' \in pos..Len(stream) /\ Len(stream) \in Nat
      BY <3>1, <3>2, LineEndBounds, LenProperties
    <3>4. ASSUME eof' PROVE pos' = Len(stream)
      <4>1. pos + n = Len(stream)
        BY <3>2, <3>4
      <4> QED
        BY <3>1, <3>3, <4>1 DEF LineEnd
    <3> QED
      BY <3>2, <3>3, <3>4
  <2>3. CASE PeekFails
    <3>1. pos' \in pos..Len(stream) /\ ~eof /\ eof' = eof /\ stream' = stream
      BY <2>3 DEF PeekFails
    <3> QED
      BY <3>1, LenProperties
  <2>4. CASE SkipLF
    <3>1. pos' \in {pos, SkipOptionalLF(pos)} /\ eof' = eof /\ stream' = stream
      BY <2>4 DEF SkipLF
    <3>2. SkipOptionalLF(pos) \in pos..Len(stream) /\ Len(stream) \in Nat
      BY SkipBounds, LenProperties
    <3> QED
      BY <3>1, <3>2
  <2>5. CASE ReadMessage
    BY <1>2, <2>5 DEF ReadMessage
  <2>6. CASE MessageFails
    BY <1>2, <2>6, BrokenStream DEF MessageFails
  <2>7. CASE MessageCutShort
    BY <2>7, CutStream DEF MessageCutShort
  <2> QED
    BY <1>3, <2>1, <2>2, <2>3, <2>4, <2>5, <2>6, <2>7 DEF ParserStep
<1>4. CASE NextCall
  <2>1. CASE NextUnfinished
    BY <1>1, <2>1 DEF NextUnfinished
  <2>2. CASE NextCutShort
    BY <2>2, CutStream DEF NextCutShort
  <2>3. CASE NextSkipFails
    BY <1>2, <2>3, BrokenStream DEF NextSkipFails
  <2>4. CASE NextBegin
    BY <1>1, <1>2, <2>4 DEF NextBegin, DataPassed
  <2> QED
    BY <1>4, <2>1, <2>2, <2>3, <2>4 DEF NextCall
<1>5. CASE CallerStep
  <2>1. CASE OpenData
    BY <1>1, <2>1 DEF OpenData
  <2>2. CASE FinishData
    BY <1>2, <2>2 DEF FinishData
  <2>3. CASE FailData
    <3>1. eof' \in IF header.is_counted THEN {eof, TRUE} ELSE {TRUE}
      BY <2>3 DEF FailData
    <3>2. eof' \in BOOLEAN
      <4>1. eof' = eof \/ eof' = TRUE
        BY <3>1
      <4> QED
        BY <4>1
    <3>3. CutShort(header)
      BY <2>3 DEF FailData
    <3> QED
      BY <3>2, <3>3, CutStream
  <2> QED
    BY <1>5, <2>1, <2>2, <2>3 DEF CallerStep
<1>6. CASE ChangeBegin \/ ChangeEnd \/ UNCHANGED changesVars
  BY <1>1, <1>6 DEF ChangeBegin, ChangeEnd, changesVars, vars
<1> QED
  BY <1>3, <1>4, <1>5, <1>6 DEF ChangesNext, CallStep

-----------------------------------------------------------------------------
(* The calls: what has been peeked, where a call stands, what it returns.    *)

ViewInv ==
    /\ view = Unseen \/ view.kind \in {"eof", "line"}
    /\ pc \in {"idle", "skip", "message"} => view = Unseen
    /\ pc # "panicked" /\ view.kind = "line" => unread
    /\ pc # "panicked" /\ view.kind = "eof" => eof /\ ~unread

CallInv ==
    /\ pc \notin {"idle", "panicked"} => finished
    /\ ~finished => ~unread
    /\ pc \in {"skip", "message"} => ~unread
    /\ in_commit => finished
    /\ pc \in {"steps", "message"} =>
         command \in DOMAIN Steps /\ step \in 1..Len(Steps[command])
    /\ pc = "message" => command # "blob"
    /\ pc = "skip" => command \in {"none", "alias"}

ResultInv ==
    /\ AssertionsHold
    /\ pc = "idle" /\ ret \in Missings \cup {"None"} => unread \/ eof
    /\ ret = "Eof" => /\ eof /\ ~unread /\ finished /\ ~in_commit
                      /\ pc \in {"idle", "command"}

ControlInv == ViewInv /\ CallInv /\ ResultInv

\* The assertions that hold.
Broken == Assertions \ {"already at EOF",
                        "unread_directive not preceded by bump_directive"}

\* The errors of arguments, the missing directives, the assertions and the rest are
\* different results.
LEMMA Kinds ==
    /\ \A k \in ArgErrors \cup StringPanics :
         k \notin Broken \cup Missings \cup {"Eof", "None"}
    /\ \A k \in Missings : k \notin Broken \cup {"Eof"}
    /\ \A k \in {"Ok", "Done", "Io", "Unfinished", "Some", "None", "UnexpectedBlank",
                 "UnrecognizedCommand", "DataUnexpectedEof", "UnterminatedData",
                 "already at EOF", "unread_directive not preceded by bump_directive"} :
         k \notin Broken \cup Missings \cup {"Eof"}
<1>1. \A k \in NulErrors \cup IdentErrors \cup ParseStringErrors :
        k \notin Broken \cup Missings \cup {"Eof", "None"}
  BY DEF NulErrors, IdentErrors, ParseStringErrors, Broken, Assertions, Missings
<1>2. \A k \in ChangeErrors \cup StringPanics :
        k \notin Broken \cup Missings \cup {"Eof", "None"}
  BY DEF ChangeErrors, StringPanics, Broken, Assertions, Missings
<1>3. \A k \in ArgErrors :
        k \notin NulErrors \cup IdentErrors \cup ParseStringErrors \cup ChangeErrors =>
        k \notin Broken \cup Missings \cup {"Eof", "None"}
  BY DEF ArgErrors, Broken, Assertions, Missings
<1>4. \A k \in Missings : k \notin Broken \cup {"Eof"}
  BY DEF Broken, Assertions, Missings
<1>5. \A k \in {"Ok", "Done", "Io", "Unfinished", "Some", "None", "UnexpectedBlank",
                "UnrecognizedCommand", "DataUnexpectedEof", "UnterminatedData",
                "already at EOF", "unread_directive not preceded by bump_directive"} :
         k \notin Broken \cup Missings \cup {"Eof"}
  BY DEF Broken, Assertions, Missings
<1> QED
  BY <1>1, <1>2, <1>3, <1>4, <1>5

\* The end of a call leaves an invariant, but for what it returns.
LEMMA Returned ==
    ASSUME NEW r, Return(r), r \notin Broken \cup {"Eof"},
           r \in Missings \cup {"None"} => unread' \/ eof',
           finished' \/ ~unread', in_commit' => finished'
    PROVE  ControlInv'
<1>1. pc' = "idle" /\ view' = Unseen /\ ret' = r
  BY DEF Return
<1>2. ViewInv'
  BY <1>1 DEF ViewInv, Unseen
<1>3. CallInv'
  BY <1>1 DEF CallInv
<1>4. ResultInv'
  BY <1>1 DEF ResultInv, AssertionsHold, Broken
<1> QED
  BY <1>2, <1>3, <1>4 DEF ControlInv

\* ... and so does a panic, but for those in Broken.
LEMMA Panicked ==
    ASSUME ControlInv, NEW a, Panic(a), a \notin Broken \cup {"Eof"},
           finished' \/ ~unread', in_commit' => finished'
    PROVE  ControlInv'
<1>1. pc' = "panicked" /\ view' = view /\ ret' = a
  BY DEF Panic
<1>2. ViewInv'
  BY <1>1 DEF ViewInv, ControlInv, Unseen
<1>3. CallInv'
  BY <1>1 DEF CallInv
<1>4. ResultInv'
  BY <1>1 DEF ResultInv, AssertionsHold, Broken
<1> QED
  BY <1>2, <1>3, <1>4 DEF ControlInv

\* An argument that is not parsed ends a call, by an error or a panic.
LEMMA FailedArgument ==
    ASSUME ControlInv, NEW v, Failing(v), Fail(v),
           finished' \/ ~unread', in_commit' => finished'
    PROVE  ControlInv'
<1>1. v.kind \in ArgErrors \cup StringPanics
  BY DEF Failing
<1>2. CASE v.kind \in StringPanics
  BY <1>1, <1>2, Kinds, Panicked DEF Fail
<1>3. CASE v.kind \notin StringPanics
  BY <1>1, <1>3, Kinds, Returned DEF Fail
<1> QED
  BY <1>2, <1>3

\* A call that goes on, before it returns.
LEMMA GoesOn ==
    ASSUME ControlInv, ret' = ret, pc' \in {"command", "skip", "steps", "message", "change"},
           finished', ret = "Eof" => eof' /\ ~unread' /\ ~in_commit' /\ pc' = "command"
    PROVE  ResultInv'
BY DEF ControlInv, ResultInv, AssertionsHold

\* A line is peeked, or the end, or nothing yet.
LEMMA PeekedStep ==
    ASSUME ControlInv, Looking, NEW v, Peeked(v), finished' = finished,
           \/ v = Unseen /\ ~unread'
           \/ v.kind = "line" /\ unread'
           \/ v.kind = "eof" /\ eof' /\ ~unread',
           ret = "Eof" => eof' /\ ~unread',
           in_commit' <=> pc = "change"
    PROVE  ControlInv'
<1>1. /\ pc' = pc /\ view' = v /\ command' = command /\ step' = step /\ ret' = ret
      /\ pc \in {"command", "steps", "change"} /\ finished
  BY DEF Peeked, Looking, ControlInv, CallInv
<1>2. ViewInv'
  BY <1>1 DEF ViewInv, Unseen
<1>3. CallInv'
  BY <1>1 DEF ControlInv, CallInv
<1>4. ret = "Eof" => pc = "command"
  BY <1>1 DEF ControlInv, ResultInv
<1>5. ResultInv'
  BY <1>1, <1>4, GoesOn
<1> QED
  BY <1>2, <1>3, <1>5 DEF ControlInv


\* A command begins with its first directive, or goes on with another.
LEMMA StepsStep ==
    ASSUME ControlInv, pc' = "steps", view' = Unseen, ret' = ret, ret # "Eof", finished',
           command' \in DOMAIN Steps, step' \in 1..Len(Steps[command'])
    PROVE  ControlInv'
<1>1. ViewInv'
  BY DEF ViewInv, Unseen
<1>2. CallInv'
  BY DEF CallInv
<1>3. ResultInv'
  BY GoesOn
<1> QED
  BY <1>1, <1>2, <1>3 DEF ControlInv

\* A command begins with its first directive.
LEMMA BeginStep ==
    ASSUME ControlInv, NEW kind \in DOMAIN Steps, Begin(kind), ret # "Eof", finished'
    PROVE  ControlInv'
<1>1. 1 \in 1..Len(Steps[kind])
  BY StepsFacts DEF IsCommand
<1> QED
  BY <1>1, StepsStep DEF Begin

\* A command goes on to its optional LF.
LEMMA SkipLFThenStep ==
    ASSUME ControlInv, NEW kind \in {"none", "alias"}, SkipLFThen(kind), ~unread',
           ret # "Eof", finished'
    PROVE  ControlInv'
<1>1. pc' = "skip" /\ view' = Unseen /\ command' = kind /\ ret' = ret
  BY DEF SkipLFThen
<1>2. ViewInv'
  BY <1>1 DEF ViewInv, Unseen
<1>3. CallInv'
  BY <1>1 DEF CallInv
<1>4. ResultInv'
  BY <1>1, GoesOn
<1> QED
  BY <1>2, <1>3, <1>4 DEF ControlInv

\* A command goes on to its next directive, or is complete.
LEMMA AdvanceStep ==
    ASSUME ControlInv, pc \in {"steps", "message"}, Advance,
           step = Len(Steps[command]) => finished' \/ ~unread',
           step # Len(Steps[command]) => finished',
           in_commit' => finished'
    PROVE  ControlInv'
<1>1. /\ command \in DOMAIN Steps /\ step \in 1..Len(Steps[command])
      /\ Len(Steps[command]) \in Nat
  BY StepsFacts DEF ControlInv, CallInv, IsCommand
<1>2. CASE step = Len(Steps[command])
  BY <1>2, Kinds, Returned DEF Advance
<1>3. CASE step # Len(Steps[command])
  <2>1. step + 1 \in 1..Len(Steps[command])
    BY <1>1, <1>3
  <2>2. ret # "Eof"
    BY DEF ControlInv, ResultInv
  <2>3. Continue(step + 1)
    BY <1>3 DEF Advance
  <2> QED
    BY <1>1, <1>3, <2>1, <2>2, <2>3, StepsStep DEF Continue
<1> QED
  BY <1>2, <1>3

\* A directive that was peeked may be bumped: the assertion of bump_directive.
LEMMA Bumpable ==
    ASSUME ControlInv, view # Unseen, pc # "panicked"
    PROVE  MayBump
BY DEF ControlInv, ViewInv, MayBump

\* An argument of a command that begins with one.
LEMMA TakeArgumentStep ==
    ASSUME ControlInv, NEW s \in DOMAIN ArgumentOf, NEW arg,
           TakeArgument(s, arg, Parse(ArgumentOf[s], arg)),
           ret # "Eof", finished', ~unread'
    PROVE  ControlInv'
<1> DEFINE v == Parse(ArgumentOf[s], arg)
<1>1. CASE Failing(v)
  BY <1>1, FailedArgument DEF TakeArgument
<1>2. CASE ~Failing(v) /\ s \in DOMAIN Names
  BY <1>2, NamesFacts, BeginStep DEF TakeArgument
<1>3. CASE ~Failing(v) /\ s \notin DOMAIN Names
  <2>1. ~(s = "ls " /\ Len(v.fields) = 1)
    BY <1>3, NamesFacts, LsRooted
  <2>2. Return("Ok")
    BY <1>3, <2>1 DEF TakeArgument
  <2> QED
    BY <2>2, Kinds, Returned
<1> QED
  BY <1>1, <1>2, <1>3

\* Whatever the first line of a command is,
LEMMA DispatchStep ==
    ASSUME ControlInv, NEW l, Dispatch(l), ret # "Eof", finished', ~unread'
    PROVE  ControlInv'
<1>1. CASE Begin("blob")
  BY <1>1, StepsFacts, BeginStep
<1>2. CASE \E s \in DOMAIN ArgumentOf : TakeArgument(s, Tail(l), Parse(ArgumentOf[s], Tail(l)))
  BY <1>2, TakeArgumentStep
<1>3. CASE Return("Done") \/ Return(IF l = <<>> THEN "UnexpectedBlank"
                                               ELSE "UnrecognizedCommand")
  BY <1>3, Kinds, Returned
<1>4. CASE SkipLFThen("none") \/ SkipLFThen("alias")
  BY <1>4, SkipLFThenStep
<1> QED
  BY <1>1, <1>2, <1>3, <1>4 DEF Dispatch

\* ... or if there is none.
LEMMA NextCommandStep ==
    ASSUME ControlInv, NextCommand,
           in_commit' = (pc = "change" \/ (command = "commit" /\ pc' = "idle" /\ ret' = "Ok"))
    PROVE  ControlInv'
<1>1. /\ pc = "command" /\ view # Unseen /\ MayBump /\ finished
  BY Bumpable DEF NextCommand, ControlInv, CallInv
<1>2. /\ unread' = FALSE /\ finished' = finished /\ eof' = eof
  BY <1>1 DEF NextCommand, Bump, dataVars, inputVars
<1>3. CASE view.kind = "eof"
  <2>1. Return("Eof") /\ eof /\ ~unread
    BY <1>1, <1>3 DEF NextCommand, ControlInv, ViewInv
  <2>2. pc' = "idle" /\ view' = Unseen /\ ret' = "Eof" /\ ~in_commit'
    BY <1>1, <2>1 DEF Return
  <2>3. ViewInv'
    BY <2>2 DEF ViewInv, Unseen
  <2>4. CallInv'
    BY <1>1, <1>2, <2>2 DEF CallInv
  <2>5. "Eof" \notin Assertions \cup Missings
    BY DEF Assertions, Missings
  <2>6. ResultInv'
    BY <1>1, <1>2, <2>1, <2>2, <2>5 DEF ResultInv, AssertionsHold
  <2> QED
    BY <2>3, <2>4, <2>6 DEF ControlInv
<1>4. CASE view.kind = "line"
  <2>1. Dispatch(view.line)
    BY <1>1, <1>4 DEF NextCommand
  <2>2. ret # "Eof"
    BY <1>1, <1>4 DEF ControlInv, ViewInv, ResultInv
  <2> QED
    BY <1>1, <1>2, <2>1, <2>2, DispatchStep
<1> QED
  BY <1>1, <1>3, <1>4 DEF NextCommand

-----------------------------------------------------------------------------
(* The lines in the pool, and which of them have been taken.                 *)

BufferInv ==
    /\ lines \in Seq(Seq(Bytes)) /\ unread \in BOOLEAN
    /\ seen \in Seq(Nat) /\ taken \in Seq(Nat)
    /\ ConsumedOnce /\ UnreadIsBack

\* The line that is read at the end is empty, and eof is set.
LEMMA EofAtEnd ==
    ASSUME StreamInv, pos = Len(stream), NEW n \in 0..(Len(stream) - pos), ReadLine(n)
    PROVE  eof'
<1>1. Len(stream) \in Nat
  BY LenProperties DEF StreamInv
<1>2. pos + n = Len(stream)
  BY <1>1
<1>3. eof' = (pos + n = Len(stream))
  BY DEF ReadLine
<1> QED
  BY <1>2, <1>3


\* The directive that is there is taken.
LEMMA TakeDirectiveStep ==
    ASSUME ControlInv, TakeDirective,
           in_commit' = (pc = "change" \/ (command = "commit" /\ pc' = "idle" /\ ret' = "Ok"))
    PROVE  ControlInv'
<1> DEFINE v == Parse(Current.parse, Tail(view.line))
<1>1. /\ pc = "steps" /\ MayBump /\ finished /\ ret # "Eof"
      /\ command \in DOMAIN Steps /\ step \in 1..Len(Steps[command])
  BY Bumpable DEF TakeDirective, ControlInv, CallInv, ResultInv
<1>2. unread' = FALSE /\ UseArgument(Tail(view.line), v)
  BY <1>1 DEF TakeDirective, Bump
<1>3. CASE Failing(v)
  <2>1. Fail(v) /\ finished' = finished
    BY <1>2, <1>3 DEF UseArgument, dataVars
  <2> QED
    BY <1>1, <1>2, <1>3, <2>1, FailedArgument
<1>4. CASE ~Failing(v) /\ Current.parse = "Header"
  <2>1. Announce(HeaderOf(v))
    BY <1>2, <1>4 DEF UseArgument
  <2>2. CASE command = "blob"
    <3>1. step = Len(Steps[command]) /\ Advance
      BY <1>1, <1>4, <2>1, <2>2, StepsFacts DEF Announce, Current
    <3>2. ~in_commit'
      BY <1>1, <2>2
    <3> QED
      BY <1>1, <1>2, <3>1, <3>2, AdvanceStep
  <2>3. CASE command # "blob"
    <3>1. /\ pc' = "message" /\ view' = Unseen /\ command' = command /\ step' = step
          /\ ret' = ret /\ finished' = finished
      BY <2>1, <2>3 DEF Announce, dataVars
    <3>2. ViewInv'
      BY <3>1 DEF ViewInv, Unseen
    <3>3. CallInv'
      BY <1>1, <1>2, <2>3, <3>1 DEF CallInv
    <3>4. ResultInv'
      BY <1>1, <3>1, GoesOn
    <3> QED
      BY <3>2, <3>3, <3>4 DEF ControlInv
  <2> QED
    BY <2>2, <2>3
<1>5. CASE ~Failing(v) /\ Current.parse # "Header"
  <2>1. finished' = finished /\ (Continue(step) \/ Advance)
    BY <1>2, <1>5 DEF UseArgument, dataVars
  <2>2. CASE Continue(step)
    BY <1>1, <2>1, <2>2, StepsStep DEF Continue
  <2>3. CASE Advance
    BY <1>1, <1>2, <2>1, <2>3, AdvanceStep
  <2> QED
    BY <2>1, <2>2, <2>3
<1> QED
  BY <1>3, <1>4, <1>5

\* The directive that is not there leaves the line to what comes next.
LEMMA PassDirectiveStep ==
    ASSUME ControlInv, PassDirective
    PROVE  ControlInv'
<1>1. /\ pc = "steps" /\ view # Unseen /\ finished
      /\ command \in DOMAIN Steps /\ step \in 1..Len(Steps[command])
  BY DEF PassDirective, ControlInv, CallInv
<1>2. unread' = unread /\ eof' = eof /\ finished' = finished
  BY DEF PassDirective, bufVars, inputVars, dataVars
<1>3. CASE Current.missing = "Ok"
  BY <1>1, <1>2, <1>3, AdvanceStep DEF PassDirective
<1>4. CASE Current.missing # "Ok"
  <2>1. Current.missing \in Missings
    BY <1>1, <1>4, StepsFacts DEF Current, IsCommand, IsStep
  <2>2. unread \/ eof
    BY <1>1 DEF ControlInv, ViewInv
  <2> QED
    BY <1>1, <1>2, <1>4, <2>1, <2>2, Kinds, Returned DEF PassDirective
<1> QED
  BY <1>3, <1>4

\* Every step of a running call.
LEMMA ParserControl ==
    ASSUME StreamInv, BufferInv, ControlInv, ParserStep,
           in_commit' = (pc = "change" \/ (command = "commit" /\ pc' = "idle" /\ ret' = "Ok"))
    PROVE  ControlInv'
<1> USE DEF dataVars, bufVars, inputVars
<1>1. CASE PeekUnread
  <2>1. Looking /\ unread /\ lines # <<>> /\ Peeked(Directive(Last(lines)))
    BY <1>1 DEF PeekUnread, BufferInv, UnreadIsBack
  <2>2. Directive(Last(lines)).kind = "line"
    BY DEF Directive
  <2>3. unread' = unread /\ finished' = finished /\ ret # "Eof" /\ pc' = pc /\ pc # "idle"
    BY <1>1, <2>1 DEF PeekUnread, ControlInv, ResultInv, Peeked, Looking
  <2> QED
    BY <2>1, <2>2, <2>3, PeekedStep
<1>2. CASE PeekAtEof
  <2>1. AtEof.kind = "eof"
    BY DEF AtEof
  <2>2. /\ Looking /\ Peeked(AtEof) /\ eof /\ ~unread /\ pc' = pc /\ pc # "idle"
        /\ eof' = eof /\ unread' = unread /\ finished' = finished
    BY <1>2 DEF PeekAtEof, Peeked, Looking
  <2> QED
    BY <2>1, <2>2, PeekedStep
<1>3. CASE PeekLine
  <2>1. /\ Looking /\ ~unread /\ ~eof /\ finished' = finished
        /\ ret # "Eof"
    BY <1>3 DEF PeekLine, ControlInv, ResultInv
  <2>2. PICK n \in 0..(Len(stream) - pos) :
          /\ ReadLine(n)
          /\ \/ pos = Len(stream) /\ Peeked(AtEof) /\ unread' = unread
             \/ Peeked(Unseen) /\ unread' = unread
             \/ Peeked(Directive(Slice(pos, pos + n))) /\ unread' = TRUE
    BY <1>3 DEF PeekLine
  <2>3. pos = Len(stream) => eof'
    BY <2>2, EofAtEnd
  <2>4. AtEof.kind = "eof" /\ Directive(Slice(pos, pos + n)).kind = "line"
    BY DEF AtEof, Directive
  <2>5. pc' = pc /\ pc # "idle"
    BY <2>1, <2>2 DEF Peeked, Looking
  <2>6. in_commit' <=> pc = "change"
    BY <2>5
  <2>7. CASE Peeked(AtEof) /\ unread' = unread /\ eof'
    BY <2>1, <2>4, <2>6, <2>7, PeekedStep
  <2>8. CASE Peeked(Unseen) /\ unread' = unread
    BY <2>1, <2>6, <2>8, PeekedStep
  <2>9. CASE Peeked(Directive(Slice(pos, pos + n))) /\ unread' = TRUE
    BY <2>1, <2>4, <2>6, <2>9, PeekedStep
  <2> QED
    BY <2>2, <2>3, <2>7, <2>8, <2>9
<1>4. CASE PeekFails
  <2>1. Return("Io") /\ finished /\ finished' = finished
    BY <1>4 DEF PeekFails, Looking, ControlInv, CallInv
  <2> QED
    BY <2>1, Kinds, Returned
<1>5. CASE SkipLF
  <2>1. /\ finished /\ finished' = finished /\ ~unread /\ unread' = unread /\ ret # "Eof"
        /\ command \in {"none", "alias"}
    BY <1>5 DEF SkipLF, ControlInv, CallInv, ResultInv
  <2>2. Return("Io") \/ Return("Ok") \/ (command # "none" /\ Begin(command))
    BY <1>5, <2>1 DEF SkipLF
  <2> QED
    BY <2>1, <2>2, Kinds, Returned, BeginStep, StepsFacts
<1>6. CASE ReadMessage
  <2>1. Advance /\ finished /\ finished' = finished /\ pc = "message"
    BY <1>6 DEF ReadMessage, ControlInv, CallInv
  <2> QED
    BY <2>1, AdvanceStep
<1>7. CASE MessageFails
  <2>1. Return("Io") /\ finished /\ finished' = finished
    BY <1>7 DEF MessageFails, ControlInv, CallInv
  <2> QED
    BY <2>1, Kinds, Returned
<1>8. CASE MessageCutShort
  <2>1. /\ finished /\ finished' = finished
        /\ Panic("already at EOF") \/ Return(Missing(message))
    BY <1>8 DEF MessageCutShort, ControlInv, CallInv
  <2>2. Missing(message) \in {"DataUnexpectedEof", "UnterminatedData"}
    BY DEF Missing
  <2>3. Missing(message) # "None"
    BY <2>2
  <2> QED
    BY <2>1, <2>2, <2>3, Kinds, Returned, Panicked
<1> QED
  BY <1>1, <1>2, <1>3, <1>4, <1>5, <1>6, <1>7, <1>8, NextCommandStep,
     TakeDirectiveStep, PassDirectiveStep DEF ParserStep


-----------------------------------------------------------------------------
(* What the steps do to the lines.                                           *)

\* What is appended to a sequence is its last element.
LEMMA LastAppended ==
    ASSUME NEW S, NEW s \in Seq(S), NEW x \in S
    PROVE  Append(s, x) \in Seq(S) /\ Append(s, x) # <<>> /\ Last(Append(s, x)) = x
<1>1. /\ Append(s, x) \in Seq(S) /\ Len(Append(s, x)) = Len(s) + 1
      /\ Append(s, x)[Len(s) + 1] = x /\ Len(s) \in Nat
  BY AppendProperties, LenProperties
<1>2. Append(s, x) # <<>>
  BY <1>1, EmptySeq
<1> QED
  BY <1>1, <1>2 DEF Last

\* A step that leaves the lines alone.
LEMMA SameBuffer ==
    ASSUME BufferInv, stream' = stream, UNCHANGED bufVars, UNCHANGED lineGhosts
    PROVE  BufferInv'
<1>1. lines' = lines /\ unread' = unread /\ seen' = seen /\ taken' = taken
  BY DEF bufVars, lineGhosts
<1>2. \A p : LineAt(p)' = LineAt(p)
  BY DEF LineAt, Slice, LineEnd, IsLine
<1> QED
  BY <1>1, <1>2 DEF BufferInv, ConsumedOnce, UnreadIsBack, Last

\* The line that was peeked is taken.
LEMMA BumpedBuffer ==
    ASSUME BufferInv, ControlInv, view # Unseen, pc # "panicked",
           Bump, UNCHANGED <<lines, seen>>
    PROVE  BufferInv'
<1>1. view.kind = "line" <=> unread
  BY DEF ControlInv, ViewInv
<1>2. taken' = seen /\ unread' = FALSE
  BY <1>1 DEF Bump, BufferInv, ConsumedOnce
<1> QED
  BY <1>2 DEF BufferInv, ConsumedOnce, UnreadIsBack

\* A line that no one peeks is added to the pool.
LEMMA AddedBuffer ==
    ASSUME BufferInv, ~unread, unread' = unread, UNCHANGED lineGhosts,
           lines' \in Seq(Seq(Bytes))
    PROVE  BufferInv'
BY DEF BufferInv, ConsumedOnce, UnreadIsBack, lineGhosts

\* The context is truncated, but not the line that was peeked.
LEMMA TruncatedBuffer ==
    ASSUME BufferInv, TruncateContext, stream' = stream, unread' = unread,
           UNCHANGED lineGhosts
    PROVE  BufferInv'
<1> DEFINE keep == CONTEXT_LINES_BEFORE + (IF unread THEN 1 ELSE 0)
           drop == IF Len(lines) > keep THEN Len(lines) - keep ELSE 0
<1>1. lines \in Seq(Seq(Bytes)) /\ Len(lines) \in Nat
  BY LenProperties DEF BufferInv
<1>2. keep \in Nat /\ (unread => keep >= 1)
  BY ParserAssumption
<1>3. lines' = SubSeq(lines, drop + 1, Len(lines))
  BY DEF TruncateContext
<1>4. drop \in 0..Len(lines) /\ (unread /\ Len(lines) >= 1 => drop < Len(lines))
  BY <1>1, <1>2
<1> HIDE DEF drop, keep
<1>5. \A i \in (drop + 1)..Len(lines) : lines[i] \in Seq(Bytes)
  BY <1>1, <1>4, ElementOfSeq
<1>6. /\ lines' \in Seq(Seq(Bytes))
      /\ Len(lines') = IF drop + 1 <= Len(lines) THEN Len(lines) - (drop + 1) + 1 ELSE 0
      /\ \A i \in 1..(Len(lines) - (drop + 1) + 1) : lines'[i] = lines[(drop + 1) + i - 1]
  BY <1>1, <1>3, <1>4, <1>5, SubSeqProperties
<1>7. ASSUME unread PROVE lines' # <<>> /\ Last(lines') = Last(lines)
  <2>1. lines # <<>>
    BY <1>7 DEF BufferInv, UnreadIsBack
  <2>2. Len(lines) >= 1
    BY <1>1, <2>1, EmptySeq
  <2>3. drop < Len(lines) /\ drop \in Nat
    BY <1>1, <1>4, <1>7, <2>2
  <2>4. Len(lines') = Len(lines) - drop /\ Len(lines') >= 1
    BY <1>1, <1>6, <2>3
  <2>5. lines'[Len(lines) - drop] = lines[(drop + 1) + (Len(lines) - drop) - 1]
    BY <1>1, <1>6, <2>3
  <2>6. (drop + 1) + (Len(lines) - drop) - 1 = Len(lines)
    BY <1>1, <2>3
  <2>7. lines' # <<>>
    BY <2>4, EmptySeq
  <2> QED
    BY <2>4, <2>5, <2>6, <2>7 DEF Last
<1>8. \A p : LineAt(p)' = LineAt(p)
  BY DEF LineAt, Slice, LineEnd, IsLine
<1>9. seen' = seen /\ taken' = taken
  BY DEF lineGhosts
<1>10. Last(seen)' = Last(seen) /\ (unread => Last(lines)' = Last(lines))
  BY <1>7, <1>9 DEF Last
<1> QED
  BY <1>6, <1>7, <1>8, <1>9, <1>10 DEF BufferInv, ConsumedOnce, UnreadIsBack

\* The line that is read and peeked is the last of the pool and of seen.
LEMMA PeekedBuffer ==
    ASSUME StreamInv, BufferInv, PeekLine
    PROVE  BufferInv'
<1>1. PICK n \in 0..(Len(stream) - pos) :
        /\ IsLine(pos, n)
        /\ lines' = Append(lines, Slice(pos, LineEnd(pos, n)))
        /\ \/ UNCHANGED <<unread, seen>>
           \/ unread' = TRUE /\ seen' = Append(seen, pos)
  BY DEF PeekLine, ReadLine
<1>2. ~unread /\ stream' = stream /\ taken' = taken /\ seen = taken
  BY DEF PeekLine, BufferInv, ConsumedOnce
<1>3. /\ stream \in Seq(Bytes) /\ pos \in Nat /\ pos \in 0..Len(stream)
      /\ Len(stream) \in Nat
  BY LenProperties DEF StreamInv
<1>4. LineEnd(pos, n) \in pos..Len(stream)
  BY <1>1, <1>3, LineEndBounds
<1>5. Slice(pos, LineEnd(pos, n)) \in Seq(Bytes)
  BY <1>3, <1>4, SliceProperties
<1>6. /\ lines' \in Seq(Seq(Bytes)) /\ lines' # <<>>
      /\ Last(lines') = Slice(pos, LineEnd(pos, n))
  BY ZenonT(60), <1>1, <1>5, LastAppended DEF BufferInv
<1>7. CASE UNCHANGED <<unread, seen>>
  BY <1>2, <1>6, <1>7, AddedBuffer DEF lineGhosts
<1>8. CASE unread' = TRUE /\ seen' = Append(seen, pos)
  <2>1. seen' \in Seq(Nat) /\ seen' # <<>> /\ Last(seen') = pos
    BY <1>3, <1>8, LastAppended DEF BufferInv
  <2> DEFINE m == CHOOSE k \in 0..(Len(stream) - pos) : IsLine(pos, k)
  <2>2. IsLine(pos, m)
    BY <1>1
  <2>3. m = n
    BY <1>1, <1>3, <2>2, LineUnique
  <2>4. LineAt(pos) = Slice(pos, LineEnd(pos, n))
    BY <2>3 DEF LineAt
  <2>5. \A p : LineAt(p)' = LineAt(p)
    BY <1>2 DEF LineAt, Slice, LineEnd, IsLine
  <2>6. UnreadIsBack'
    BY <1>6, <2>1, <2>4, <2>5 DEF UnreadIsBack, Last
  <2>7. seen' = Append(taken', Last(seen'))
    BY <1>2, <1>8, <2>1
  <2> QED
    BY <1>2, <1>6, <1>8, <2>1, <2>6, <2>7 DEF BufferInv, ConsumedOnce, Last
<1> QED
  BY <1>1, <1>7, <1>8


\* Lines are added, dropped and taken so that each is taken once, in order, and
\* the one that was peeked stays the last.
LEMMA BufferStep ==
    ASSUME StreamInv, BufferInv, ControlInv, [ChangesNext]_changesVars
    PROVE  BufferInv'
<1>1. ASSUME stream' = stream, UNCHANGED bufVars, UNCHANGED lineGhosts
      PROVE  BufferInv'
  BY <1>1, SameBuffer
<1>2. ASSUME view # Unseen, pc # "panicked", lines' = lines, seen' = seen,
             Bump \/ UNCHANGED <<unread, taken>>, stream' = stream
      PROVE  BufferInv'
  BY <1>1, <1>2, BumpedBuffer DEF bufVars, lineGhosts
<1>3. CASE ParserStep
  <2>1. CASE PeekUnread \/ PeekAtEof \/ PassDirective
    BY <1>1, <2>1 DEF PeekUnread, PeekAtEof, PassDirective, inputVars
  <2>2. CASE PeekLine
    BY <2>2, PeekedBuffer
  <2>3. CASE PeekFails
    <3>1. PICK p \in pos..Len(stream) : lines' = Append(lines, Slice(pos, p))
      BY <2>3 DEF PeekFails
    <3>2. Slice(pos, p) \in Seq(Bytes)
      BY <3>1, SliceProperties DEF StreamInv
    <3>3. lines' \in Seq(Seq(Bytes))
      BY <3>1, <3>2, LastAppended DEF BufferInv
    <3>4. ~unread /\ unread' = unread /\ UNCHANGED lineGhosts
      BY <2>3 DEF PeekFails
    <3> QED
      BY <3>3, <3>4, AddedBuffer
  <2>4. CASE NextCommand
    <3>1. /\ view # Unseen /\ pc # "panicked" /\ lines' = lines /\ seen' = seen
          /\ stream' = stream /\ (Bump \/ UNCHANGED <<unread, taken>>)
      BY <2>4 DEF NextCommand, inputVars
    <3> QED
      BY <1>2, <3>1
  <2>5. CASE SkipLF
    <3>1. /\ lines' = lines \/ lines' = Append(lines, <<>>)
          /\ ~unread /\ unread' = unread /\ UNCHANGED lineGhosts
      BY <2>5 DEF SkipLF, ControlInv, CallInv
    <3>2. lines \in Seq(Seq(Bytes)) /\ <<>> \in Seq(Bytes)
      BY EmptySeq DEF BufferInv
    <3>3. Append(lines, <<>>) \in Seq(Seq(Bytes))
      BY <3>2, AppendProperties
    <3>4. lines' \in Seq(Seq(Bytes))
      BY <3>1, <3>2, <3>3
    <3> QED
      BY <3>1, <3>4, AddedBuffer
  <2>6. CASE TakeDirective
    <3>1. /\ view # Unseen /\ pc # "panicked" /\ lines' = lines /\ seen' = seen
          /\ stream' = stream /\ (Bump \/ UNCHANGED <<unread, taken>>)
      BY <2>6 DEF TakeDirective, inputVars
    <3> QED
      BY <1>2, <3>1
  <2>7. CASE ReadMessage
    BY <1>1, <2>7 DEF ReadMessage, PassData, Passed
  <2>8. CASE MessageFails
    BY <1>1, <2>8 DEF MessageFails, BreakData, PassDataFails, Passed
  <2>9. CASE MessageCutShort
    BY <1>1, <2>9 DEF MessageCutShort, CutShort
  <2> QED
    BY <1>3, <2>1, <2>2, <2>3, <2>4, <2>5, <2>6, <2>7, <2>8, <2>9 DEF ParserStep
<1>4. CASE NextCall
  <2>1. CASE NextUnfinished
    BY <1>1, <2>1 DEF NextUnfinished, inputVars
  <2>2. CASE NextCutShort
    BY <1>1, <2>2 DEF NextCutShort, CutShort
  <2>3. CASE NextSkipFails
    BY <1>1, <2>3 DEF NextSkipFails, BreakData, PassDataFails, Passed
  <2>4. CASE NextBegin
    <3>1. stream' = stream
      BY <2>4 DEF NextBegin, DataPassed, PassData, Passed, inputVars
    <3> QED
      BY <2>4, <3>1, TruncatedBuffer DEF NextBegin
  <2> QED
    BY <1>4, <2>1, <2>2, <2>3, <2>4 DEF NextCall
<1>5. CASE CallerStep
  BY <1>1, <1>5 DEF CallerStep, OpenData, FinishData, FailData, PassData, Passed,
                    CutShort, inputVars
<1>6. CASE ChangeEnd
  <2>1. /\ view # Unseen /\ pc # "panicked" /\ lines' = lines /\ seen' = seen
        /\ stream' = stream
    BY <1>6 DEF ChangeEnd, inputVars
  <2>2. Bump \/ UNCHANGED <<unread, taken>>
    BY <1>6 DEF ChangeEnd, TakeChange, LeaveLine
  <2> QED
    BY <1>2, <2>1, <2>2
<1>7. CASE ChangeBegin \/ UNCHANGED changesVars
  BY <1>1, <1>7 DEF ChangeBegin, changesVars, vars, inputVars
<1> QED
  BY <1>3, <1>4, <1>5, <1>6, <1>7 DEF ChangesNext, CallStep

-----------------------------------------------------------------------------
(* The calls of the caller, and those of ChangeIter::next.                   *)

\* A call of Parser::next.
LEMMA CallControl ==
    ASSUME ControlInv, NextCall, in_commit' = FALSE
    PROVE  ControlInv'
<1> USE DEF dataVars, bufVars
<1>1. CASE NextUnfinished \/ NextCutShort
  <2>1. ~unread /\ unread' = unread
    BY <1>1 DEF NextUnfinished, NextCutShort, ControlInv, CallInv
  <2>2. Return("Unfinished") \/ Return(Missing(header))
    BY <1>1 DEF NextUnfinished, NextCutShort
  <2>3. Missing(header) \in {"DataUnexpectedEof", "UnterminatedData"}
    BY DEF Missing
  <2>4. "Unfinished" # "None" /\ Missing(header) # "None"
    BY <2>3
  <2> QED
    BY <2>1, <2>2, <2>3, <2>4, Kinds, Returned
<1>2. CASE NextSkipFails
  <2>1. ~unread /\ unread' = unread /\ Return("Io")
    BY <1>2 DEF NextSkipFails, ControlInv, CallInv
  <2> QED
    BY <2>1, Kinds, Returned
<1>3. CASE NextBegin
  <2>1. /\ pc' = "command" /\ view' = Unseen /\ ret' = ret /\ unread' = unread
        /\ finished'
    BY <1>3 DEF NextBegin, DataPassed
  <2>2. ret = "Eof" => eof' = eof
    BY <1>3 DEF NextBegin, DataPassed, inputVars, ControlInv, ResultInv
  <2>3. ViewInv'
    BY <2>1 DEF ViewInv, Unseen
  <2>4. CallInv'
    BY <2>1 DEF CallInv
  <2>5. ret = "Eof" => eof' /\ ~unread'
    BY <2>1, <2>2 DEF ControlInv, ResultInv
  <2>6. ResultInv'
    BY <2>1, <2>5, GoesOn
  <2> QED
    BY <2>3, <2>4, <2>6 DEF ControlInv
<1> QED
  BY <1>1, <1>2, <1>3 DEF NextCall

\* What the caller does with the data of a blob.
LEMMA CallerControl ==
    ASSUME ControlInv, CallerStep, in_commit' = in_commit
    PROVE  ControlInv'
<1>1. /\ pc = "idle" /\ ~finished /\ ret = "Ok" /\ UNCHANGED callVars /\ ret' = ret
      /\ unread' = unread
  BY DEF CallerStep, OpenData, FinishData, FailData, BlobHeld, bufVars
<1>2. ~unread /\ ~in_commit /\ view = Unseen
  BY <1>1 DEF ControlInv, CallInv, ViewInv
<1>3. pc' = "idle" /\ view' = Unseen /\ ret' = "Ok"
  BY <1>1, <1>2 DEF callVars
<1>4. ViewInv' /\ CallInv'
  BY <1>1, <1>2, <1>3 DEF ViewInv, CallInv, Unseen
<1>5. ResultInv'
  BY <1>3, Kinds DEF ResultInv, AssertionsHold, Broken
<1> QED
  BY <1>4, <1>5 DEF ControlInv

\* A call of ChangeIter::next.
LEMMA ChangeControl ==
    ASSUME ControlInv, ChangeBegin \/ ChangeEnd
    PROVE  ControlInv'
<1> USE DEF dataVars, bufVars, inputVars
<1>1. CASE ChangeBegin
  <2>1. /\ pc = "idle" /\ in_commit /\ pc' = "change" /\ view' = view /\ ret' = ret
        /\ unread' = unread /\ finished' = finished /\ in_commit' = in_commit
    BY <1>1 DEF ChangeBegin
  <2>2. view' = Unseen /\ finished /\ ret # "Eof"
    BY <2>1 DEF ControlInv, ViewInv, CallInv, ResultInv
  <2>3. ViewInv'
    BY <2>2 DEF ViewInv, Unseen
  <2>4. CallInv'
    BY <2>1, <2>2 DEF CallInv
  <2>5. ResultInv'
    BY <2>1, <2>2, GoesOn
  <2> QED
    BY <2>3, <2>4, <2>5 DEF ControlInv
<1>2. CASE ChangeEnd
  <2>1. /\ pc = "change" /\ view # Unseen /\ MayBump /\ finished
        /\ finished' = finished /\ eof' = eof
    BY <1>2, Bumpable DEF ChangeEnd, ControlInv, CallInv
  <2>2. CASE view.kind = "eof" /\ Bump /\ Return("None")
    <3>1. eof
      BY <2>1, <2>2 DEF ControlInv, ViewInv
    <3> QED
      BY <2>1, <2>2, <3>1, Kinds, Returned
  <2>3. CASE TakeChange(view.line)
    <3>1. \/ Return("Some")
          \/ \E v : Failing(v) /\ Fail(v)
      BY <2>3 DEF TakeChange, UseChange
    <3>2. CASE Return("Some")
      BY <2>1, <3>2, Kinds, Returned
    <3>3. CASE \E v : Failing(v) /\ Fail(v)
      BY <2>1, <3>3, FailedArgument
    <3> QED
      BY <3>1, <3>2, <3>3
  <2>4. CASE view.kind = "line" /\ LeaveLine
    <3>1. CASE Panic("unread_directive not preceded by bump_directive")
      BY <2>1, <3>1, Kinds, Panicked
    <3>2. CASE Return("None") /\ UNCHANGED <<unread, taken>>
      <4>1. unread'
        BY <2>1, <2>4, <3>2 DEF ControlInv, ViewInv
      <4> QED
        BY <2>1, <3>2, <4>1, Kinds, Returned
    <3> QED
      BY <2>4, <3>1, <3>2 DEF LeaveLine
  <2> QED
    BY <1>2, <2>1, <2>2, <2>3, <2>4 DEF ChangeEnd
<1> QED
  BY <1>1, <1>2

\* No step breaks what the calls rely on.
LEMMA ControlStep ==
    ASSUME StreamInv, BufferInv, ControlInv, [ChangesNext]_changesVars
    PROVE  ControlInv'
<1>1. CASE UNCHANGED changesVars
  BY <1>1 DEF changesVars, vars, inputVars, bufVars, dataVars, callVars,
              ControlInv, ViewInv, CallInv, ResultInv, AssertionsHold
<1>2. CASE ChangesNext
  BY <1>2, ParserControl, CallControl, CallerControl, ChangeControl
     DEF ChangesNext, CallStep
<1> QED
  BY <1>1, <1>2

-----------------------------------------------------------------------------
(* The invariant, and what follows from it.                                  *)

IInv == StreamInv /\ BufferInv /\ ControlInv

\* The invariant holds of a new parser,
LEMMA InitInv == ChangesInit => IInv
<1> SUFFICES ASSUME ChangesInit PROVE IInv
  OBVIOUS
<1> USE DEF ChangesInit, Init, InputInit
<1>1. stream \in Seq(Bytes) /\ pos = 0 /\ eof = FALSE
  BY LinesAssumption
<1>2. StreamInv
  <2>1. Len(stream) \in Nat
    BY <1>1, LenProperties
  <2>2. pos \in 0..Len(stream)
    BY <1>1, <2>1
  <2> QED
    BY <1>1, <2>2 DEF StreamInv
<1>3. BufferInv
  BY EmptySeq DEF BufferInv, ConsumedOnce, UnreadIsBack
<1>4. ViewInv /\ CallInv
  BY DEF ViewInv, CallInv, Unseen
<1>5. ResultInv
  BY DEF ResultInv, AssertionsHold, Assertions, Missings
<1> QED
  BY <1>2, <1>3, <1>4, <1>5 DEF IInv, ControlInv

\* and always.
LEMMA InductiveInvariant == ChangesSpec => []IInv
<1>1. ChangesInit => IInv
  BY InitInv
<1>2. IInv /\ [ChangesNext]_changesVars => IInv'
  BY StreamStep, BufferStep, ControlStep DEF IInv
<1> QED
  BY <1>1, <1>2, PTL DEF ChangesSpec

\* Every directive that is read is consumed exactly once, in order.
THEOREM ChangesConsumedOnce == ChangesSpec => []ConsumedOnce
<1>1. IInv => ConsumedOnce
  BY DEF IInv, BufferInv
<1> QED
  BY <1>1, InductiveInvariant, PTL

\* The line that was peeked and not taken is the last of the pool.
THEOREM ChangesUnreadIsBack == ChangesSpec => []UnreadIsBack
<1>1. IInv => UnreadIsBack
  BY DEF IInv, BufferInv
<1> QED
  BY <1>1, InductiveInvariant, PTL

\* The assertions of BufInput and of parse_ls hold, two excepted.
THEOREM ChangesAssertionsHold == ChangesSpec => []AssertionsHold
<1>1. IInv => AssertionsHold
  BY DEF IInv, ControlInv, ResultInv
<1> QED
  BY <1>1, InductiveInvariant, PTL

\* No line is read ahead when a data stream is to be read.
THEOREM ChangesNoLookaheadIntoData == ChangesSpec => []NoLookaheadIntoData
<1>1. IInv => NoLookaheadIntoData
  BY DEF IInv, ControlInv, CallInv, NoLookaheadIntoData
<1> QED
  BY <1>1, InductiveInvariant, PTL

\* The line in the place of a required directive is left to the next command.
THEOREM ChangesErrorKeepsLine == ChangesSpec => []ErrorKeepsLine
<1>1. IInv => ErrorKeepsLine
  BY DEF IInv, ControlInv, ResultInv, ErrorKeepsLine
<1> QED
  BY <1>1, InductiveInvariant, PTL

\* The line that ends the changes is left to the next command.
THEOREM ChangesNoneKeepsLine == ChangesSpec => []NoneKeepsLine
<1>1. IInv => NoneKeepsLine
  BY DEF IInv, StreamInv, ControlInv, ResultInv, NoneKeepsLine
<1> QED
  BY <1>1, InductiveInvariant, PTL

\* At Done::Eof all of the stream has been read, and every directive taken.
THEOREM ChangesEofMeansAll == ChangesSpec => []EofMeansAll
<1>1. IInv => EofMeansAll
  BY DEF IInv, StreamInv, BufferInv, ConsumedOnce, ControlInv, ResultInv, EofMeansAll
<1> QED
  BY <1>1, InductiveInvariant, PTL

\* Done::Eof is final.
THEOREM ChangesEofIsFinal == ChangesSpec => EofIsFinal
<1>1. IInv /\ [ChangesNext]_changesVars => [ret = "Eof" => ret' = "Eof"]_vars
  <2> SUFFICES ASSUME IInv, [ChangesNext]_changesVars, ret = "Eof"
               PROVE  ret' = "Eof"
    OBVIOUS
  <2>1. /\ eof /\ ~unread /\ finished /\ ~in_commit /\ pc \in {"idle", "command"}
        /\ view # Unseen => pc = "command" /\ view.kind = "eof"
    BY DEF IInv, ControlInv, ResultInv, ViewInv
  <2>2. CASE ParserStep
    BY <2>1, <2>2 DEF ParserStep, PeekUnread, PeekAtEof, PeekLine, PeekFails, NextCommand,
       SkipLF, TakeDirective, PassDirective, ReadMessage, MessageFails, MessageCutShort,
       Peeked, MayBump, Return
  <2>3. CASE NextCall
    BY <2>1, <2>3 DEF NextCall, NextUnfinished, NextCutShort, NextSkipFails, NextBegin
  <2>4. CASE CallerStep
    BY <2>1, <2>4 DEF CallerStep, OpenData, FinishData, FailData, BlobHeld
  <2>5. CASE ChangeBegin \/ ChangeEnd
    BY <2>1, <2>5 DEF ChangeBegin, ChangeEnd
  <2>6. CASE UNCHANGED changesVars
    BY <2>6 DEF changesVars, vars
  <2> QED
    BY <2>2, <2>3, <2>4, <2>5, <2>6 DEF ChangesNext, CallStep
<1> QED
  BY <1>1, InductiveInvariant, PTL DEF ChangesSpec, EofIsFinal


-----------------------------------------------------------------------------
(* Data streams: what was announced of them, and where they begin.           *)

\* A header that parse_data_header returns.
HeaderOK(h) == h \in HeaderType /\ (~h.is_counted => h.delim # <<>>)

\* The line that was peeked begins where seen says, and pos is behind it.
PeekInv ==
    /\ view.kind = "line" => view.line \in Seq(Bytes)
    /\ unread => /\ Last(seen) \in 0..Len(stream)
                 /\ \E n \in 0..(Len(stream) - Last(seen)) :
                      IsLine(Last(seen), n) /\ pos = LineEnd(Last(seen), n)

\* Counted data is len_read bytes behind its start, or past all hope.
BlobInv ==
    ~finished =>
        /\ announced = header /\ HeaderOK(header) /\ start \in 0..Len(stream)
        /\ len_read \in Nat
        /\ (ret = "Ok" \/ data_opened => len_read = 0)
        /\ header.is_counted =>
             \/ pos = start + len_read
             \/ data_opened /\ pos = Len(stream) /\ start + header.len > Len(stream)
        /\ (~header.is_counted /\ faults = 0 => pos = start \/ pos = Len(stream))

MessageInv ==
    /\ pc = "message" => announced = message /\ HeaderOK(message) /\ start = pos
    /\ cut /\ faults = 0 =>
         pos = Len(stream) /\ ~unread /\ finished /\ pc # "message"

DataInv == PeekInv /\ BlobInv /\ MessageInv /\ faults \in Nat

\* A number is parsed to a natural number, or not at all.
LEMMA ParseRadixRange ==
    ASSUME NEW s, NEW radix, NEW max \in Nat
    PROVE  ParseRadix(s, radix, max) \in Nat \cup {-1}
<1> DEFINE n == Accumulated(s, radix)[Len(s)]
           good == /\ s # <<>>
                   /\ (\A k \in DOMAIN s : s[k] \in DOMAIN Digits /\ Digits[s[k]] < radix)
<1>1. ParseRadix(s, radix, max) = IF good /\ n \in 0..max THEN n ELSE -1
  BY Zenon DEF ParseRadix
<1> HIDE DEF n, good
<1> QED
  BY <1>1

\* The header of a data stream is counted, or has a delimiter that is not empty.
LEMMA HeaderTyped ==
    ASSUME NEW arg \in Seq(Bytes), ~Failing(Parse("Header", arg))
    PROVE  HeaderOK(HeaderOf(Parse("Header", arg)))
<1> DEFINE v == Parse("Header", arg)
<1> SUFFICES HeaderOK(HeaderOf(v))
  OBVIOUS
<1>1. v = DataHeader(arg)
  BY DEF Parse
<1>2. /\ "EmptyDelim" \in ArgErrors /\ "DataDelimContainsNul" \in ArgErrors
      /\ "InvalidDataLength" \in ArgErrors
  BY DEF ArgErrors, NulErrors
<1>3. \A e \in ArgErrors : v # Err(e)
  BY DEF Failing, Err, Value
<1>4. CASE IsPrefix(<<"<", "<">>, arg)
  <2>1. v = IF Len(arg) = 2 THEN Err("EmptyDelim")
            ELSE IF NulFree(After(arg, 2)) THEN Value("Delimited", 0, <<After(arg, 2)>>)
            ELSE Err("DataDelimContainsNul")
    BY <1>1, <1>4 DEF DataHeader, Text
  <2>2. v = Value("Delimited", 0, <<After(arg, 2)>>) /\ Len(arg) # 2
    BY <1>2, <1>3, <2>1
  <2>3. v.kind = "Delimited" /\ v.fields[1] = After(arg, 2)
    BY <2>2 DEF Value
  <2>4. Len(arg) \in Nat /\ Len(arg) >= 2
    BY <1>4, LenProperties DEF IsPrefix
  <2>5. \A i \in 3..Len(arg) : arg[i] \in Bytes
    BY <2>4, ElementOfSeq
  <2>6. /\ After(arg, 2) \in Seq(Bytes)
        /\ Len(After(arg, 2)) = IF 3 <= Len(arg) THEN Len(arg) - 3 + 1 ELSE 0
    BY <2>4, <2>5, SubSeqProperties DEF After
  <2>7. After(arg, 2) # <<>>
    <3>0. Len(arg) # 2
      BY <2>2
    <3>1. 3 <= Len(arg)
      <4>1. \A n \in Nat : n >= 2 /\ n # 2 => 3 <= n
        OBVIOUS
      <4> QED
        BY <2>4, <3>0, <4>1
    <3>2. Len(After(arg, 2)) = Len(arg) - 3 + 1
      BY <2>6, <3>1
    <3>3. Len(After(arg, 2)) # 0
      BY <2>4, <3>1, <3>2
    <3> QED
      BY <3>3, EmptySeq
  <2>8. HeaderOf(v) = Delimited(After(arg, 2))
    BY <2>3 DEF HeaderOf
  <2> HIDE DEF v
  <2> QED
    BY <2>6, <2>7, <2>8 DEF HeaderOK, HeaderType, Delimited
<1>5. CASE ~IsPrefix(<<"<", "<">>, arg)
  <2> DEFINE n == ParseRadix(arg, 10, U64_MAX)
  <2>1. v = IF n = -1 THEN Err("InvalidDataLength") ELSE Value("Counted", n, <<>>)
    BY <1>1, <1>5 DEF DataHeader, Number, ParseInt
  <2>2. v = Value("Counted", n, <<>>) /\ n # -1
    BY <1>2, <1>3, <2>1
  <2>3. n \in Nat
    BY <2>2, ParseRadixRange, ArgumentsAssumption
  <2>4. HeaderOf(v) = Counted(n)
    BY <2>2 DEF HeaderOf, Value
  <2>5. <<>> \in Seq(Bytes)
    BY EmptySeq
  <2> HIDE DEF v, n
  <2> QED
    BY <2>3, <2>4, <2>5 DEF HeaderOK, HeaderType, Counted
<1> QED
  BY <1>4, <1>5

\* The line of a directive that is there has an argument.
LEMMA MatchedArgument ==
    ASSUME PeekInv, Matches
    PROVE  Tail(view.line) \in Seq(Bytes)
<1>1. view.line \in Seq(Bytes) /\ Len(<<Current.prefix>>) <= Len(view.line)
  BY DEF Matches, PeekInv, IsPrefix
<1>2. Len(<<Current.prefix>>) = 1
  OBVIOUS
<1>3. view.line # <<>>
  BY <1>1, <1>2, EmptySeq
<1> QED
  BY <1>1, <1>3, HeadTailProperties

\* An argument that is parsed as a header announces one.
LEMMA AnnouncedHeader ==
    ASSUME PeekInv, ControlInv, TakeDirective
    PROVE  \/ /\ UNCHANGED <<dataVars, dataGhosts>>
              /\ pc' # "message"
           \/ \E h : HeaderOK(h) /\ Announce(h)
<1> DEFINE v == Parse(Current.parse, Tail(view.line))
<1>1. Matches /\ MayBump /\ UseArgument(Tail(view.line), v)
  BY Bumpable DEF TakeDirective
<1>2. CASE Failing(v)
  BY <1>1, <1>2 DEF UseArgument, Fail, Panic, Return
<1>3. CASE ~Failing(v) /\ Current.parse = "Header"
  <2>1. HeaderOK(HeaderOf(v)) /\ Announce(HeaderOf(v))
    BY <1>1, <1>3, MatchedArgument, HeaderTyped DEF UseArgument
  <2> QED
    BY <2>1
<1>4. CASE ~Failing(v) /\ Current.parse # "Header"
  BY <1>1, <1>4 DEF UseArgument, Advance, Continue, Return
<1> QED
  BY <1>2, <1>3, <1>4


\* Where the data of the last blob ends, however it is passed.
LEMMA BlobEnds ==
    ASSUME StreamInv, BlobInv, ~finished, faults = 0 \/ header.is_counted,
           NEW h, NEW q \in Ends(h, pos),
           \/ h = header /\ (ret = "Ok" \/ data_opened)
           \/ h = Left /\ ~data_opened
    PROVE  /\ q \in start..Len(stream) /\ ContentsEnd(header, start, q)
           /\ DataEnd(h, q) = DataEnd(header, q)
<1>1. /\ header \in HeaderType /\ start \in Nat /\ len_read \in Nat /\ header.len \in Nat
      /\ pos \in Nat /\ Len(stream) \in Nat /\ start <= Len(stream)
      /\ (ret = "Ok" \/ data_opened => len_read = 0)
  BY LenProperties DEF StreamInv, BlobInv, HeaderOK, HeaderType
<1>2. /\ h.is_counted = header.is_counted /\ h.delim = header.delim
      /\ h.len = header.len - len_read
  <2>1. CASE h = header /\ (ret = "Ok" \/ data_opened)
    BY <1>1, <2>1
  <2>2. CASE h = Left
    BY <1>1, <2>2 DEF Left, HeaderType
  <2> QED
    BY <2>1, <2>2
<1>3. q \in pos..Len(stream) /\ ContentsEnd(h, pos, q)
  BY DEF Ends
<1>4. DataEnd(h, q) = DataEnd(header, q)
  BY <1>2 DEF DataEnd
<1>5. CASE header.is_counted
  <2>1. q = pos + (header.len - len_read)
    BY <1>2, <1>3, <1>5 DEF ContentsEnd
  <2>2. \/ pos = start + len_read
        \/ data_opened /\ pos = Len(stream) /\ start + header.len > Len(stream)
    BY <1>5 DEF BlobInv
  <2>3. pos = start + len_read
    <3>1. ASSUME data_opened, pos = Len(stream), start + header.len > Len(stream)
          PROVE  FALSE
      <4>1. len_read = 0
        BY <1>1, <3>1
      <4>2. q <= Len(stream) /\ q = Len(stream) + header.len
        BY <1>1, <1>3, <2>1, <3>1, <4>1
      <4>3. header.len > 0
        BY <1>1, <3>1
      <4> QED
        BY <1>1, <4>2, <4>3
    <3> QED
      BY <2>2, <3>1
  <2>4. q = start + header.len /\ q \in start..Len(stream)
    BY <1>1, <1>3, <2>1, <2>3
  <2> QED
    BY <1>4, <1>5, <2>4 DEF ContentsEnd
<1>6. CASE ~header.is_counted
  <2>1. DelimiterAt(h, pos, q) /\ NoDelimiterBefore(h, pos, q)
    BY <1>2, <1>3, <1>6 DEF ContentsEnd
  <2>2. pos = start
    <3>1. ASSUME pos = Len(stream) PROVE FALSE
      <4>1. q = Len(stream)
        BY <1>1, <1>3, <3>1
      <4>2. IsLine(q, Len(header.delim))
        BY <1>2, <2>1 DEF DelimiterAt
      <4>3. Len(header.delim) = 0
        BY <1>1, <4>1, <4>2 DEF IsLine
      <4> QED
        BY <1>6, <4>3, EmptySeq DEF BlobInv, HeaderOK, HeaderType
    <3> QED
      BY <1>6, <3>1 DEF BlobInv
  <2>3. ContentsEnd(header, start, q)
    BY <1>2, <1>6, <2>1, <2>2 DEF ContentsEnd, DelimiterAt, NoDelimiterBefore
  <2> QED
    BY <1>1, <1>3, <1>4, <2>2, <2>3
<1> QED
  BY <1>5, <1>6

\* A step that leaves the input and the data where they are.
LEMMA SameData ==
    ASSUME DataInv, stream' = stream, pos' = pos,
           unread' = FALSE \/ (unread' = unread /\ seen' = seen),
           view' = view \/ (view'.kind = "line" => view'.line \in Seq(Bytes)),
           UNCHANGED dataVars, UNCHANGED dataGhosts, faults' = faults,
           pc' # "message", ret' = ret \/ ret' # "Ok" \/ finished
    PROVE  DataInv'
<1>1. PeekInv'
  <2>1. (view.kind = "line" => view.line \in Seq(Bytes))'
    BY DEF DataInv, PeekInv
  <2>2. ASSUME unread'
        PROVE  /\ Last(seen') \in 0..Len(stream')
               /\ \E n \in 0..(Len(stream') - Last(seen')) :
                    IsLine(Last(seen), n)' /\ pos' = LineEnd(Last(seen), n)'
    <3>1. unread' = unread /\ seen' = seen
      BY <2>2
    <3>2. PICK n \in 0..(Len(stream) - Last(seen)) :
            IsLine(Last(seen), n) /\ pos = LineEnd(Last(seen), n)
      BY <2>2, <3>1 DEF DataInv, PeekInv
    <3>3. IsLine(Last(seen), n)' /\ LineEnd(Last(seen), n)' = LineEnd(Last(seen), n)
      BY <3>1, <3>2 DEF IsLine, LineEnd, Last
    <3>4. Last(seen') = Last(seen) /\ Last(seen) \in 0..Len(stream)
      BY <2>2, <3>1 DEF Last, DataInv, PeekInv
    <3> QED
      BY <3>2, <3>3, <3>4
  <2> QED
    BY <2>1, <2>2 DEF PeekInv
<1>2. BlobInv'
  BY DEF DataInv, BlobInv, dataVars, dataGhosts, HeaderOK, HeaderType
<1>3. MessageInv'
  BY DEF DataInv, MessageInv, dataVars, dataGhosts
<1> QED
  BY <1>1, <1>2, <1>3 DEF DataInv


\* What the first line of a command does to the state that framing depends on,
LEMMA NextCommandMoves ==
    ASSUME ControlInv, NextCommand
    PROVE  /\ unread' = FALSE /\ pc' # "message" /\ (view' = view \/ view' = Unseen)
           /\ taken' = IF view.kind = "line" THEN Append(taken, Last(seen)) ELSE taken
<1>1. MayBump /\ Bump
  BY Bumpable DEF NextCommand
<1>2. Return("Eof") \/ Dispatch(view.line)
  BY <1>1 DEF NextCommand
<1>3. pc' # "message" /\ (view' = view \/ view' = Unseen)
  BY <1>2 DEF Dispatch, TakeArgument, Fail, Begin, SkipLFThen, Panic, Return
<1> QED
  BY <1>1, <1>3 DEF Bump

\* and what the line of a change does.
LEMMA ChangeEndMoves ==
    ASSUME ControlInv, ChangeEnd
    PROVE  /\ pc' # "message" /\ (view' = view \/ view' = Unseen)
           /\ Bump \/ UNCHANGED <<unread, taken>>
  BY Bumpable DEF ChangeEnd, TakeChange, UseChange, LeaveLine, Fail, Panic, Return

\* A running call keeps the invariant of data streams,
LEMMA ParserData ==
    ASSUME StreamInv, BufferInv, ControlInv, DataInv, ParserStep
    PROVE  DataInv'
<1> USE DEF inputVars, bufVars
<1>0. Unseen.kind # "line" /\ AtEof.kind # "line"
  BY DEF Unseen, AtEof
<1>1. finished /\ pc # "idle"
  BY DEF ParserStep, PeekUnread, PeekAtEof, PeekLine, PeekFails, NextCommand,
     SkipLF, TakeDirective, PassDirective, ReadMessage, MessageFails, MessageCutShort,
     Looking, ControlInv, CallInv
<1>2. ASSUME stream' = stream, unread' = FALSE, finished', faults' = faults,
             view'.kind # "line" \/ view' = view, pc' # "message",
             cut' /\ faults = 0 => pos' = Len(stream)
      PROVE  DataInv'
  <2>1. PeekInv'
    BY <1>2 DEF DataInv, PeekInv
  <2>2. BlobInv'
    BY <1>2 DEF BlobInv
  <2>3. MessageInv'
    BY <1>2 DEF MessageInv
  <2> QED
    BY <1>2, <2>1, <2>2, <2>3 DEF DataInv
<1>3. ASSUME stream' = stream, unread' = FALSE, finished', faults' = faults + 1,
             view'.kind # "line", pc' # "message"
      PROVE  DataInv'
  <2>1. PeekInv'
    BY <1>3 DEF DataInv, PeekInv
  <2>2. BlobInv'
    BY <1>3 DEF BlobInv
  <2>3. faults' \in Nat /\ faults' # 0
    BY <1>3 DEF DataInv
  <2>4. MessageInv'
    BY <1>3, <2>3 DEF MessageInv
  <2> QED
    BY <2>1, <2>2, <2>3, <2>4 DEF DataInv
<1>4. CASE PeekUnread
  <2>1. lines \in Seq(Seq(Bytes)) /\ lines # <<>>
    BY <1>4 DEF PeekUnread, BufferInv, UnreadIsBack
  <2>2. Last(lines) \in Seq(Bytes)
    <3>1. Len(lines) \in Nat \ {0}
      BY <2>1, EmptySeq
    <3>2. Len(lines) \in 1..Len(lines)
      BY <3>1
    <3> QED
      BY <2>1, <3>2, ElementOfSeq DEF Last
  <2>3. Peeked(Directive(Last(lines)))
    BY <1>4, <2>1 DEF PeekUnread
  <2>4. /\ view'.line \in Seq(Bytes) /\ pc # "message"
        /\ pc' = pc /\ ret' = ret /\ faults' = faults
    BY <1>4, <2>2, <2>3 DEF Peeked, Directive, PeekUnread, Looking
  <2> QED
    BY <1>4, <2>4, SameData DEF PeekUnread, lineGhosts
<1>5. CASE PeekAtEof
  <2>1. view' = AtEof /\ pc' = pc /\ ret' = ret /\ faults' = faults /\ pc # "message"
    BY <1>5 DEF PeekAtEof, Peeked, Looking
  <2> QED
    BY <1>0, <1>5, <2>1, SameData DEF PeekAtEof, lineGhosts
<1>6. CASE PeekLine
  <2>1. PICK n \in 0..(Len(stream) - pos) :
          /\ IsLine(pos, n) /\ pos' = LineEnd(pos, n)
          /\ IF pos = Len(stream)
             THEN Peeked(AtEof) /\ UNCHANGED <<unread, seen>>
             ELSE \/ Peeked(Unseen) /\ UNCHANGED <<unread, seen>>
                  \/ /\ Peeked(Directive(Slice(pos, pos + n)))
                     /\ unread' = TRUE /\ seen' = Append(seen, pos)
    BY <1>6 DEF PeekLine, ReadLine
  <2>2. /\ ~unread /\ stream' = stream /\ finished' = finished /\ cut' = cut
        /\ faults' = faults /\ pc' = pc /\ pc # "message"
    BY <1>6, <2>1 DEF PeekLine, Peeked, Looking, dataVars, dataGhosts
  <2>3. /\ stream \in Seq(Bytes) /\ pos \in Nat /\ pos \in 0..Len(stream)
        /\ Len(stream) \in Nat
    BY LenProperties DEF StreamInv
  <2>4. pos = Len(stream) => pos' = Len(stream)
    BY <2>1, <2>3 DEF LineEnd
  <2>5. cut /\ faults = 0 => pos = Len(stream) /\ pos' = Len(stream)
    BY <2>4 DEF DataInv, MessageInv
  <2>6. CASE view' \in {AtEof, Unseen} /\ UNCHANGED <<unread, seen>>
    BY <1>0, <1>1, <1>2, <2>2, <2>5, <2>6 DEF BufferInv
  <2>7. CASE /\ pos # Len(stream) /\ Peeked(Directive(Slice(pos, pos + n)))
             /\ unread' = TRUE /\ seen' = Append(seen, pos)
    <3>1. pos + n \in pos..Len(stream)
      BY <2>1, <2>3, LineEndBounds
    <3>2. Slice(pos, pos + n) \in Seq(Bytes)
      BY <2>3, <3>1, SliceProperties
    <3>3. view'.line \in Seq(Bytes)
      BY <2>7, <3>2 DEF Peeked, Directive
    <3>4. Last(seen') = pos
      BY <2>3, <2>7, LastAppended DEF BufferInv
    <3>5. IsLine(Last(seen), n)' /\ pos' = LineEnd(Last(seen), n)'
      BY <2>1, <2>2, <3>4 DEF IsLine, LineEnd, Last
    <3>6. PeekInv'
      BY <2>1, <2>2, <2>3, <3>3, <3>4, <3>5 DEF PeekInv, Last
    <3>7. BlobInv'
      BY <1>1, <2>2 DEF BlobInv
    <3>8. MessageInv'
      BY <2>2, <2>5, <2>7 DEF MessageInv
    <3> QED
      BY <2>2, <3>6, <3>7, <3>8 DEF DataInv
  <2> QED
    BY <2>1, <2>6, <2>7 DEF Peeked
<1>7. CASE PeekFails
  BY <1>0, <1>1, <1>3, <1>7 DEF PeekFails, Return, ReaderFails, dataVars, BufferInv
<1>8. CASE NextCommand
  <2>1. unread' = FALSE /\ pc' # "message" /\ (view' = view \/ view'.kind # "line")
    BY <1>0, <1>8, NextCommandMoves
  <2> QED
    BY <1>1, <1>8, <2>1, SameData DEF NextCommand
<1>9. CASE SkipLF
  <2>1. /\ ~unread /\ unread' = unread /\ stream' = stream /\ finished' = finished
        /\ cut' = cut /\ pos' \in {pos, SkipOptionalLF(pos)}
        /\ faults' = faults \/ faults' = faults + 1
    BY <1>9 DEF SkipLF, ControlInv, CallInv, dataVars, dataGhosts, ReaderFails
  <2>2. unread' = FALSE
    BY <2>1 DEF BufferInv
  <2>3. pc' # "message" /\ (view' = view \/ view' = Unseen)
    BY <1>9, <2>1 DEF SkipLF, Return, Begin
  <2>4. view = Unseen
    BY <1>9 DEF SkipLF, ControlInv, ViewInv
  <2>5. cut /\ faults = 0 => pos' = Len(stream)
    <3>1. Len(stream) \in Nat
      BY LenProperties DEF StreamInv
    <3>2. SkipOptionalLF(Len(stream)) = Len(stream)
      BY <3>1 DEF SkipOptionalLF
    <3> QED
      BY <2>1, <3>2 DEF DataInv, MessageInv
  <2> QED
    BY <1>0, <1>1, <1>2, <1>3, <2>1, <2>2, <2>3, <2>4, <2>5
<1>10. CASE TakeDirective
  <2>1. /\ unread /\ unread' = FALSE /\ pos' = pos /\ stream' = stream /\ faults' = faults
        /\ (cut => faults # 0) /\ pc = "steps"
    BY <1>10, Bumpable DEF TakeDirective, Bump, Matches, ControlInv, ViewInv, DataInv,
                           MessageInv
  <2>2. view' = view \/ view' = Unseen
    BY <1>10, Bumpable DEF TakeDirective, UseArgument, Fail, Announce, Advance, Continue,
       Return, Panic
  <2>3. CASE UNCHANGED <<dataVars, dataGhosts>> /\ pc' # "message"
    BY <1>0, <1>1, <2>1, <2>2, <2>3, SameData
  <2>4. ASSUME NEW h, HeaderOK(h), Announce(h)
        PROVE  DataInv'
    <3>1. PeekInv'
      BY <1>0, <2>1, <2>2 DEF DataInv, PeekInv
    <3>2. start' = pos /\ announced' = h /\ cut' = cut /\ pos \in 0..Len(stream)
          /\ Len(stream) \in Nat
      BY <2>4, LenProperties DEF Announce, StreamInv
    <3>3. CASE command = "blob"
      <4>1. /\ header' = h /\ finished' = FALSE /\ len_read' = 0
            /\ pc' # "message"
        BY <2>4, <3>3 DEF Announce, Advance, Continue, Return
      <4>2. (HeaderOK(header))'
        BY <2>4, <4>1 DEF HeaderOK, HeaderType
      <4>3. pos' = start' + len_read' /\ start' \in 0..Len(stream')
        BY <2>1, <3>2, <4>1
      <4>4. BlobInv'
        BY <2>1, <3>2, <4>1, <4>2, <4>3 DEF BlobInv
      <4>5. MessageInv'
        BY <2>1, <3>2, <4>1 DEF MessageInv
      <4> QED
        BY <2>1, <3>1, <4>4, <4>5 DEF DataInv
    <3>4. CASE command # "blob"
      <4>1. message' = h /\ finished' = finished
        BY <2>4, <3>4 DEF Announce, dataVars
      <4>2. (HeaderOK(message))'
        BY <2>4, <4>1 DEF HeaderOK, HeaderType
      <4>3. BlobInv'
        BY <1>1, <4>1 DEF BlobInv
      <4>4. MessageInv'
        BY <2>1, <3>2, <4>1, <4>2 DEF MessageInv
      <4> QED
        BY <2>1, <3>1, <4>3, <4>4 DEF DataInv
    <3> QED
      BY <3>3, <3>4
  <2> QED
    BY <1>10, <2>3, <2>4, AnnouncedHeader DEF DataInv
<1>11. CASE PassDirective
  <2>1. pc' # "message" /\ view' = Unseen
    BY <1>11 DEF PassDirective, Advance, Continue, Return
  <2> QED
    BY <1>0, <1>1, <1>11, <2>1, SameData DEF PassDirective, lineGhosts
<1>12. CASE ReadMessage
  <2>1. /\ stream' = stream /\ ~unread /\ unread' = unread /\ finished' = finished
        /\ faults' = faults /\ cut' = cut /\ (cut => faults # 0)
    BY <1>12 DEF ReadMessage, PassData, Passed, ControlInv, CallInv, dataVars, dataGhosts,
       DataInv, MessageInv
  <2>2. pc' # "message" /\ view' = Unseen
    BY <1>12 DEF ReadMessage, Advance, Continue, Return
  <2> QED
    BY <1>0, <1>1, <1>2, <2>1, <2>2 DEF BufferInv
<1>13. CASE MessageFails
  <2>1. /\ stream' = stream /\ ~unread /\ unread' = unread /\ finished' = finished
        /\ faults' = faults + 1
    BY <1>13 DEF MessageFails, BreakData, PassDataFails, Passed, ReaderFails, ControlInv,
       CallInv, dataVars
  <2>2. pc' # "message" /\ view' = Unseen
    BY <1>13 DEF MessageFails, Return
  <2> QED
    BY <1>0, <1>1, <1>3, <2>1, <2>2 DEF BufferInv
<1>14. CASE MessageCutShort
  <2>1. /\ stream' = stream /\ ~unread /\ unread' = unread /\ finished' = finished
        /\ faults' = faults /\ pos' = Len(stream)
    BY <1>14 DEF MessageCutShort, CutShort, ControlInv, CallInv, dataVars
  <2>2. pc' # "message" /\ (view' = view \/ view' = Unseen)
    BY <1>14 DEF MessageCutShort, Return, Panic
  <2> QED
    BY <1>0, <1>1, <1>2, <2>1, <2>2 DEF BufferInv
<1> QED
  BY <1>4, <1>5, <1>6, <1>7, <1>8, <1>9, <1>10, <1>11, <1>12, <1>13, <1>14 DEF ParserStep


\* so does the beginning of one, which may skip the data of a blob,
LEMMA CallData ==
    ASSUME StreamInv, BufferInv, ControlInv, DataInv, NextCall
    PROVE  DataInv'
<1> USE DEF inputVars, bufVars
<1>0. pc = "idle" /\ view = Unseen /\ Unseen.kind # "line" /\ pc' # "message"
  BY DEF NextCall, NextUnfinished, NextCutShort, NextSkipFails, NextBegin, Return,
         ControlInv, ViewInv, Unseen
<1>1. /\ len_read \in Nat \/ finished
      /\ pos \in Nat /\ Len(stream) \in Nat /\ pos <= Len(stream) /\ faults \in Nat
  BY LenProperties DEF StreamInv, DataInv, BlobInv
<1>2. CASE NextUnfinished
  BY <1>0, <1>2, SameData DEF NextUnfinished, Return, lineGhosts
<1>3. ASSUME ~finished, ~data_opened, stream' = stream, ~unread', view' = Unseen,
             ret' # "Ok", header' = header, UNCHANGED dataGhosts, data_opened' = data_opened,
             faults' \in Nat, faults # 0 => faults' # 0, pos' \in pos..Len(stream),
             len_read' = IF header.is_counted THEN len_read + (pos' - pos) ELSE 0,
             header.is_counted \/ faults' # 0 \/ pos' = Len(stream)
      PROVE  DataInv'
  <2>1. PeekInv'
    BY <1>0, <1>3 DEF PeekInv
  <2>2. header.is_counted => pos = start + len_read
    BY <1>3 DEF DataInv, BlobInv
  <2>3. /\ announced' = header' /\ HeaderOK(header) /\ start' = start /\ cut' = cut
        /\ start \in 0..Len(stream)
    BY <1>3 DEF DataInv, BlobInv, dataGhosts
  <2>4. (HeaderOK(header))'
    BY <1>3, <2>3 DEF HeaderOK, HeaderType
  <2>5. len_read' \in Nat /\ (header.is_counted => pos' = start + len_read')
    <3>1. CASE header.is_counted
      <4>1. /\ len_read \in Nat /\ start \in Nat /\ pos' \in Nat /\ pos \in Nat
            /\ pos <= pos' /\ pos = start + len_read
        BY <1>1, <1>3, <2>2, <2>3, <3>1
      <4>2. len_read' = len_read + (pos' - pos)
        BY <1>3, <3>1
      <4> DEFINE a == start  b == len_read  p == pos  q == pos'  c == len_read'
      <4>3. /\ a \in Nat /\ b \in Nat /\ p \in Nat /\ q \in Nat
            /\ p = a + b /\ p <= q /\ c = b + (q - p)
        BY <4>1, <4>2
      <4> SUFFICES c \in Nat /\ q = a + c
        OBVIOUS
      <4> HIDE DEF a, b, p, q, c
      <4> QED
        BY <4>3
    <3>2. CASE ~header.is_counted
      BY <1>3, <3>2
    <3> QED
      BY <3>1, <3>2
  <2>6. BlobInv'
    BY <1>3, <2>3, <2>4, <2>5 DEF BlobInv
  <2>7. MessageInv'
    <3>1. ~(cut' /\ faults' = 0)
      BY <1>3, <2>3 DEF DataInv, MessageInv
    <3> QED
      BY <1>0, <1>3, <3>1 DEF MessageInv
  <2> QED
    BY <1>3, <2>1, <2>6, <2>7 DEF DataInv
<1>4. CASE NextCutShort
  <2>1. /\ ~finished /\ ~data_opened /\ stream' = stream /\ pos' = Len(stream)
        /\ header' = header /\ UNCHANGED dataGhosts /\ data_opened' = data_opened
        /\ faults' = faults /\ unread' = unread /\ Return(Missing(header))
        /\ len_read' = IF header.is_counted THEN len_read + (pos' - pos) ELSE 0
    BY <1>4 DEF NextCutShort, CutShort
  <2>2. Missing(header) # "Ok" /\ ~unread
    BY <2>1 DEF Missing, ControlInv, CallInv
  <2>3. view' = Unseen /\ ret' # "Ok" /\ ~unread' /\ pos' \in pos..Len(stream)
    BY <1>1, <2>1, <2>2 DEF Return
  <2> QED
    BY <1>1, <1>3, <2>1, <2>3
<1>5. CASE NextSkipFails
  <2>1. /\ ~finished /\ ~data_opened /\ header' = header /\ UNCHANGED dataGhosts
        /\ data_opened' = data_opened /\ unread' = unread /\ Return("Io")
        /\ len_read' = IF header.is_counted THEN len_read + (pos' - pos) ELSE 0
        /\ stream' = stream /\ faults' = faults + 1
    BY <1>5 DEF NextSkipFails, BreakData, PassDataFails, Passed, ReaderFails
  <2>2. ~unread' /\ view' = Unseen /\ ret' = "Io" /\ faults' \in Nat /\ faults' # 0
    BY <1>1, <2>1 DEF Return, ControlInv, CallInv
  <2>3. CASE pos' \in pos..Len(stream)
    BY <1>3, <2>1, <2>2, <2>3
  <2>4. CASE finished'
    <3>1. PeekInv' /\ BlobInv'
      BY <1>0, <2>2, <2>4 DEF PeekInv, BlobInv
    <3>2. MessageInv'
      BY <1>0, <2>2 DEF MessageInv
    <3> QED
      BY <2>2, <3>1, <3>2 DEF DataInv
  <2> QED
    BY <1>5, <2>3, <2>4 DEF NextSkipFails, BreakData
<1>6. CASE NextBegin
  <2>1. /\ finished' /\ unread' = unread /\ seen' = seen /\ view' = Unseen /\ cut' = cut
        /\ pc' = "command"
    BY <1>6 DEF NextBegin, DataPassed, lineGhosts, dataGhosts
  <2>2. CASE finished /\ UNCHANGED <<inputVars, finished, faults>>
    <3>1. UNCHANGED dataVars /\ UNCHANGED dataGhosts /\ ret' = ret
      BY <1>6, <2>2 DEF NextBegin, dataVars
    <3> QED
      BY <1>0, <2>1, <2>2, <3>1, SameData
  <2>3. CASE ~finished /\ stream' = stream /\ faults' = faults
    <3>1. ~unread' /\ (cut => faults # 0)
      BY <2>1, <2>3 DEF ControlInv, CallInv, DataInv, MessageInv
    <3>2. PeekInv' /\ BlobInv' /\ MessageInv'
      BY <1>0, <2>1, <2>3, <3>1 DEF PeekInv, BlobInv, MessageInv
    <3> QED
      BY <2>3, <3>2 DEF DataInv
  <2> QED
    BY <1>6, <2>2, <2>3 DEF NextBegin, DataPassed, PassData, Passed
<1> QED
  BY <1>2, <1>4, <1>5, <1>6 DEF NextCall

\* so does the caller, who may read it,
LEMMA CallerData ==
    ASSUME StreamInv, BufferInv, ControlInv, DataInv, CallerStep
    PROVE  DataInv'
<1> USE DEF inputVars, bufVars, callVars
<1>1. /\ pc = "idle" /\ ~finished /\ ret = "Ok" /\ pc' = pc /\ ret' = ret /\ view' = view
      /\ ~unread /\ unread' = unread /\ stream' = stream /\ header' = header
      /\ len_read' = len_read /\ UNCHANGED dataGhosts /\ faults' = faults /\ view = Unseen
  BY DEF CallerStep, OpenData, FinishData, FailData, BlobHeld, PassData, Passed, CutShort,
         dataVars, ControlInv, CallInv, ViewInv
<1>2. /\ announced = header /\ HeaderOK(header) /\ start \in 0..Len(stream)
      /\ len_read = 0 /\ (cut => faults # 0) /\ faults \in Nat
      /\ announced' = announced /\ start' = start /\ cut' = cut
  BY <1>1 DEF DataInv, BlobInv, MessageInv, dataGhosts
<1>3. PeekInv'
  BY <1>1 DEF PeekInv, Unseen
<1>4. MessageInv'
  BY <1>1, <1>2 DEF MessageInv
<1>5. (HeaderOK(header))'
  BY <1>1, <1>2 DEF HeaderOK, HeaderType
<1>6. CASE OpenData
  <2>1. pos' = pos /\ data_opened'
    BY <1>6 DEF OpenData
  <2>2. BlobInv'
    BY <1>1, <1>2, <1>5, <2>1 DEF DataInv, BlobInv
  <2> QED
    BY <1>1, <1>2, <1>3, <1>4, <2>2 DEF DataInv
<1>7. CASE FinishData
  <2>1. BlobInv'
    BY <1>7 DEF FinishData, BlobInv
  <2> QED
    BY <1>1, <1>2, <1>3, <1>4, <2>1 DEF DataInv
<1>8. CASE FailData
  <2>1. pos' = Len(stream) /\ data_opened /\ data_opened' /\ Ends(header, pos) = {}
    BY <1>8 DEF FailData, CutShort, dataVars
  <2>2. ASSUME header.is_counted PROVE start + header.len > Len(stream)
    <3>1. header.len \in Nat /\ start \in Nat /\ Len(stream) \in Nat /\ start <= Len(stream)
      BY <1>2, LenProperties DEF HeaderOK, HeaderType, StreamInv
    <3>2. CASE pos = start + len_read
      <4>1. pos = start
        BY <1>2, <3>1, <3>2
      <4>2. ContentsEnd(header, pos, start + header.len)
        BY <2>2, <4>1 DEF ContentsEnd
      <4>3. start + header.len \notin pos..Len(stream)
        BY <2>1, <4>2 DEF Ends
      <4> QED
        BY <3>1, <4>1, <4>3
    <3>3. CASE start + header.len > Len(stream)
      BY <3>3
    <3> QED
      BY <1>1, <2>2, <3>2, <3>3 DEF DataInv, BlobInv
  <2>3. BlobInv'
    BY <1>1, <1>2, <1>5, <2>1, <2>2 DEF BlobInv
  <2> QED
    BY <1>1, <1>2, <1>3, <1>4, <2>3 DEF DataInv
<1> QED
  BY <1>6, <1>7, <1>8 DEF CallerStep

\* and so does every step.
LEMMA DataStep ==
    ASSUME StreamInv, BufferInv, ControlInv, DataInv, [ChangesNext]_changesVars
    PROVE  DataInv'
<1> USE DEF inputVars, bufVars
<1>1. CASE UNCHANGED changesVars
  BY <1>1 DEF changesVars, vars, callVars, dataVars, lineGhosts, dataGhosts, DataInv, PeekInv,
              BlobInv, MessageInv, HeaderOK, HeaderType, IsLine, LineEnd, Last
<1>2. CASE ChangeBegin
  <2>1. pc' # "message" /\ view' = view /\ ret' = ret /\ faults' = faults
    BY <1>2 DEF ChangeBegin
  <2> QED
    BY <1>2, <2>1, SameData DEF ChangeBegin, lineGhosts
<1>3. CASE ChangeEnd
  <2>1. pc' # "message" /\ (view' = view \/ view' = Unseen)
    BY <1>3, ChangeEndMoves
  <2>2. unread' = FALSE \/ (unread' = unread /\ seen' = seen)
    BY <1>3, ChangeEndMoves DEF Bump, ChangeEnd
  <2>3. finished /\ Unseen.kind # "line"
    BY <1>3 DEF ChangeEnd, ControlInv, CallInv, Unseen
  <2> QED
    BY <1>3, <2>1, <2>2, <2>3, SameData DEF ChangeEnd
<1> QED
  BY <1>1, <1>2, <1>3, ParserData, CallData, CallerData DEF ChangesNext, CallStep


-----------------------------------------------------------------------------
(* The parser reads the stream as Framing says.                              *)

\* A directive is read at Last(seen), when it is taken.
LEMMA TakenDirective ==
    ASSUME PeekInv, unread, ~InData, stream' = stream, unread' = FALSE, pos' = pos,
           \/ ~InData' /\ announced' = announced
           \/ InData' /\ start' = pos /\ announced' \in HeaderType
    PROVE  F!Next
<1>1. PICK n \in 0..(Len(stream) - Last(seen)) :
        IsLine(Last(seen), n) /\ pos = LineEnd(Last(seen), n)
  BY DEF PeekInv
<1>2. F!Directive
  BY <1>1 DEF F!Directive, F!IsLine, F!LineEnd, IsLine, LineEnd, InData
<1> QED
  BY <1>2 DEF F!Next

\* A line that is no directive is read when it is passed.
LEMMA PassedLine ==
    ASSUME ~unread, ~InData, stream' = stream, unread' = unread, ~InData',
           announced' = announced, NEW n \in 0..(Len(stream) - pos), IsLine(pos, n),
           pos' = LineEnd(pos, n)
    PROVE  F!Next
<1>1. F!Directive
  BY DEF F!Directive, F!IsLine, F!LineEnd, IsLine, LineEnd, InData
<1> QED
  BY <1>1 DEF F!Next

\* Data is read when it has been passed.
LEMMA PassedData ==
    ASSUME InData, ~InData', stream' = stream, announced' = announced,
           unread' = FALSE, NEW q \in start..Len(stream), ContentsEnd(announced, start, q),
           pos' = SkipOptionalLF(DataEnd(announced, q))
    PROVE  F!Next
<1>1. ResumesAt(announced, start, pos')
  BY DEF ResumesAt, DataEnd
<1>2. F!ResumesAt(announced, start, pos')
  BY <1>1 DEF F!ResumesAt, ResumesAt, F!ContentsEnd, ContentsEnd, F!SkipOptionalLF,
              SkipOptionalLF, F!LineEnd, LineEnd, F!DelimiterAt, DelimiterAt,
              F!NoDelimiterBefore, NoDelimiterBefore, F!LineStart, LineStart,
              F!IsLine, IsLine, F!Slice, Slice
<1>3. F!Data
  BY <1>2 DEF F!Data, InData
<1> QED
  BY <1>3 DEF F!Next

\* A step that changes nothing of where the next directive is read from.
LEMMA SameFrame ==
    ASSUME stream' = stream, announced' = announced, InData' = InData,
           \/ InData /\ start' = start
           \/ unread' = unread /\ pos' = pos /\ seen' = seen /\ start' = start
    PROVE  UNCHANGED F!framingVars
BY DEF F!framingVars, InData, Last


\* While a call runs, no data is being read but that of a message.
LEMMA FramedParser ==
    ASSUME StreamInv, BufferInv, ControlInv, DataInv, ParserStep
    PROVE  F!Next \/ UNCHANGED F!framingVars \/ faults' > 0
<1> USE DEF inputVars, bufVars
<1>1. /\ finished /\ pc # "idle" /\ faults \in Nat
      /\ unread \in BOOLEAN /\ (unread => ~(cut /\ faults = 0))
      /\ faults' = faults \/ faults' = faults + 1
  BY DEF ParserStep, PeekUnread, PeekAtEof, PeekLine, PeekFails, NextCommand, SkipLF,
     TakeDirective, PassDirective, ReadMessage, MessageFails, MessageCutShort, Looking,
     Peeked, PassData, PassDataFails, BreakData, CutShort, ReaderFails,
     ControlInv, CallInv, DataInv, MessageInv, BufferInv
<1>2. SUFFICES ASSUME faults = 0, faults' = faults
               PROVE  F!Next \/ UNCHANGED F!framingVars
  BY <1>1
<1>3. ASSUME finished' = finished, pc # "message", pc' # "message", UNCHANGED dataGhosts
      PROVE  InData' = InData /\ (InData <=> cut) /\ start' = start /\ announced' = announced
  BY <1>1, <1>3 DEF InData, dataGhosts
<1>4. CASE PeekUnread \/ PeekAtEof \/ PassDirective
  <2>1. /\ finished' = finished /\ pc # "message" /\ UNCHANGED dataGhosts
        /\ stream' = stream /\ pos' = pos /\ unread' = unread /\ seen' = seen
    BY <1>4 DEF PeekUnread, PeekAtEof, PassDirective, Looking, dataVars, lineGhosts
  <2>2. pc' # "message"
    BY <1>4 DEF PeekUnread, PeekAtEof, PassDirective, Looking, Peeked, Advance, Continue,
       Return, Panic
  <2> QED
    BY <1>3, <2>1, <2>2, SameFrame
<1>5. CASE PeekLine
  <2>1. PICK n \in 0..(Len(stream) - pos) :
          /\ IsLine(pos, n) /\ pos' = LineEnd(pos, n)
          /\ IF pos = Len(stream)
             THEN UNCHANGED <<unread, seen>>
             ELSE \/ UNCHANGED <<unread, seen>>
                  \/ unread' = TRUE /\ seen' = Append(seen, pos)
    BY <1>5 DEF PeekLine, ReadLine
  <2>2. /\ finished' = finished /\ pc # "message" /\ pc' = pc /\ UNCHANGED dataGhosts
        /\ stream' = stream /\ ~unread
    BY <1>5 DEF PeekLine, Looking, Peeked, dataVars
  <2>3. InData' = InData /\ (InData <=> cut) /\ start' = start /\ announced' = announced
    BY <1>3, <2>2
  <2>4. CASE InData
    BY <2>2, <2>3, <2>4, SameFrame
  <2>5. CASE ~InData /\ unread' = unread
    BY <2>1, <2>2, <2>3, <2>5, PassedLine
  <2>6. CASE ~InData /\ unread' = TRUE /\ seen' = Append(seen, pos)
    <3>1. pos \in Nat
      BY LenProperties DEF StreamInv
    <3>2. Last(seen') = pos
      BY <2>6, <3>1, LastAppended DEF BufferInv
    <3> QED
      BY <2>2, <2>3, <2>6, <3>2 DEF F!framingVars, Last
  <2> QED
    BY <2>1, <2>4, <2>5, <2>6
<1>6. CASE PeekFails
  BY <1>1, <1>2, <1>6 DEF PeekFails, ReaderFails
<1>7. CASE NextCommand
  <2>1. /\ unread' = FALSE /\ pc' # "message" /\ pc # "message" /\ finished' = finished
        /\ UNCHANGED dataGhosts /\ stream' = stream /\ pos' = pos /\ seen' = seen
    BY <1>7, NextCommandMoves DEF NextCommand, dataVars
  <2>2. InData' = InData /\ (InData <=> cut) /\ start' = start /\ announced' = announced
    BY <1>3, <2>1
  <2>3. CASE unread
    <3>1. ~InData
      BY <1>1, <1>2, <2>2, <2>3
    <3> QED
      BY <2>1, <2>2, <2>3, <3>1, TakenDirective DEF DataInv
  <2>4. CASE ~unread
    <3>1. unread' = unread
      BY <1>1, <2>1, <2>4
    <3> QED
      BY <2>1, <2>2, <3>1, SameFrame
  <2> QED
    BY <2>3, <2>4
<1>8. CASE SkipLF
  <2>1. /\ pc = "skip" /\ ~unread /\ unread' = unread /\ stream' = stream /\ seen' = seen
        /\ finished' = finished /\ UNCHANGED dataGhosts
    BY <1>8 DEF SkipLF, ControlInv, CallInv, dataVars, lineGhosts
  <2>2. pc' # "message" /\ (pos' = pos \/ pos' = SkipOptionalLF(pos))
    BY <1>8, <2>1 DEF SkipLF, Return, Begin
  <2>3. InData' = InData /\ (InData <=> cut) /\ start' = start /\ announced' = announced
    BY <1>3, <2>1, <2>2
  <2>4. CASE InData \/ pos' = pos
    BY <2>1, <2>3, <2>4, SameFrame
  <2>5. CASE ~InData /\ pos' # pos
    <3>1. pos < Len(stream) /\ stream[pos + 1] = LF /\ pos' = pos + 1
      BY <2>2, <2>5 DEF SkipOptionalLF
    <3>2. Len(stream) \in Nat /\ pos \in Nat
      BY LenProperties DEF StreamInv
    <3>3. 0 \in 0..(Len(stream) - pos) /\ IsLine(pos, 0) /\ pos' = LineEnd(pos, 0)
      BY <3>1, <3>2 DEF IsLine, LineEnd
    <3> QED
      BY <2>1, <2>3, <2>5, <3>3, PassedLine
  <2> QED
    BY <2>4, <2>5
<1>9. CASE TakeDirective
  <2>1. /\ pc = "steps" /\ unread /\ unread' = FALSE /\ stream' = stream /\ pos' = pos
    BY <1>9, Bumpable DEF TakeDirective, Bump, Matches, ControlInv, ViewInv
  <2>2. ~cut /\ ~InData
    BY <1>1, <1>2, <2>1 DEF InData
  <2>3. CASE UNCHANGED <<dataVars, dataGhosts>> /\ pc' # "message"
    <3>1. ~InData' /\ announced' = announced
      BY <1>1, <2>2, <2>3 DEF InData, dataVars, dataGhosts
    <3> QED
      BY <2>1, <2>2, <3>1, TakenDirective DEF DataInv
  <2>4. ASSUME NEW h, HeaderOK(h), Announce(h)
        PROVE  F!Next
    <3>1. InData' /\ start' = pos /\ announced' \in HeaderType
      BY <2>4 DEF Announce, InData, HeaderOK
    <3> QED
      BY <2>1, <2>2, <3>1, TakenDirective DEF DataInv
  <2> QED
    BY <1>9, <2>3, <2>4, AnnouncedHeader DEF DataInv
<1>10. CASE ReadMessage
  <2>1. PICK q \in Ends(message, pos) : PassData(message, q)
    BY <1>10 DEF ReadMessage
  <2>2. /\ announced = message /\ start = pos /\ ~cut /\ pc = "message" /\ ~unread
    BY <1>2, <1>10 DEF ReadMessage, DataInv, MessageInv, ControlInv, CallInv
  <2>3. /\ InData /\ unread' = FALSE /\ stream' = stream /\ announced' = announced
        /\ pos' = SkipOptionalLF(DataEnd(message, q))
    BY <1>1, <1>10, <2>1, <2>2 DEF ReadMessage, PassData, Passed, InData, dataGhosts
  <2>4. ~InData'
    BY <1>1, <1>10, <2>2 DEF ReadMessage, InData, Advance, Continue, Return, dataVars,
                             dataGhosts
  <2>5. q \in start..Len(stream) /\ ContentsEnd(announced, start, q)
    BY <2>1, <2>2 DEF Ends
  <2>6. F!Next
    BY <2>2, <2>3, <2>4, <2>5, PassedData
  <2> QED
    BY <2>6
<1>11. CASE MessageFails
  BY <1>1, <1>2, <1>11 DEF MessageFails, BreakData, PassDataFails, ReaderFails
<1>12. CASE MessageCutShort
  <2>1. InData' = TRUE /\ InData = TRUE /\ announced' = announced /\ start' = start
        /\ stream' = stream
    BY <1>12 DEF MessageCutShort, CutShort, InData
  <2> QED
    BY <2>1, SameFrame
<1> QED
  BY <1>4, <1>5, <1>6, <1>7, <1>8, <1>9, <1>10, <1>11, <1>12 DEF ParserStep


\* ... and between calls, that of the last blob.
LEMMA FramedCalls ==
    ASSUME StreamInv, BufferInv, ControlInv, DataInv, NextCall \/ CallerStep
    PROVE  F!Next \/ UNCHANGED F!framingVars \/ faults' > 0
<1> USE DEF inputVars, bufVars, callVars
<1>1. /\ faults \in Nat /\ faults' \in {faults, faults + 1} /\ stream' = stream
      /\ UNCHANGED dataGhosts /\ unread' = unread /\ seen' = seen
      /\ pc = "idle" /\ pc' # "message" /\ (~finished => ~unread)
      /\ unread \in BOOLEAN
  BY DEF NextCall, NextUnfinished, NextCutShort, NextSkipFails, NextBegin, DataPassed,
     CallerStep, OpenData, FinishData, FailData, BlobHeld, PassData, PassDataFails, Passed,
     BreakData, CutShort, ReaderFails, Return, lineGhosts, ControlInv, CallInv, DataInv,
     BufferInv
<1>2. SUFFICES ASSUME faults = 0, faults' = faults
               PROVE  F!Next \/ UNCHANGED F!framingVars
  BY <1>1
<1>3. announced' = announced /\ start' = start /\ cut' = cut /\ (cut => finished)
  BY <1>1, <1>2 DEF dataGhosts, DataInv, MessageInv
<1>4. CASE finished' = finished /\ (finished => pos' = pos)
  <2>1. InData' = InData
    BY <1>1, <1>3, <1>4 DEF InData
  <2>2. ~finished => InData
    BY DEF InData
  <2> QED
    BY <1>1, <1>3, <1>4, <2>1, <2>2, SameFrame
<1>5. ASSUME ~finished, finished', NEW h, NEW q \in Ends(h, pos), PassData(h, q),
             \/ h = header /\ (ret = "Ok" \/ data_opened)
             \/ h = Left /\ ~data_opened
      PROVE  F!Next
  <2>1. q \in start..Len(stream) /\ ContentsEnd(header, start, q)
        /\ DataEnd(h, q) = DataEnd(header, q) /\ announced = header
    BY <1>2, <1>5, BlobEnds DEF DataInv, BlobInv
  <2>2. InData /\ ~InData' /\ unread' = FALSE
    BY <1>1, <1>3, <1>5 DEF InData
  <2>3. pos' = SkipOptionalLF(DataEnd(announced, q))
    BY <1>5, <2>1 DEF PassData
  <2> QED
    BY <1>1, <1>3, <2>1, <2>2, <2>3, PassedData
<1>6. CASE NextUnfinished \/ NextCutShort \/ OpenData \/ FailData
  BY <1>4, <1>6 DEF NextUnfinished, NextCutShort, OpenData, FailData, BlobHeld, dataVars
<1>7. CASE NextSkipFails
  BY <1>1, <1>2, <1>7 DEF NextSkipFails, BreakData, PassDataFails, ReaderFails
<1>8. CASE FinishData
  BY <1>5, <1>8 DEF FinishData, BlobHeld
<1>9. CASE NextBegin
  BY <1>4, <1>5, <1>9 DEF NextBegin, DataPassed
<1> QED
  BY <1>6, <1>7, <1>8, <1>9 DEF NextCall, CallerStep

\* ... and the changes of a commit, each of which is a directive.
LEMMA FramedChanges ==
    ASSUME BufferInv, ControlInv, DataInv, ChangeBegin \/ ChangeEnd
    PROVE  F!Next \/ UNCHANGED F!framingVars \/ faults' > 0
<1> USE DEF inputVars, bufVars
<1>1. /\ pc # "message" /\ pc' # "message" /\ stream' = stream /\ pos' = pos /\ seen' = seen
      /\ UNCHANGED dataVars /\ UNCHANGED dataGhosts /\ faults' = faults /\ faults \in Nat
  BY ChangeEndMoves DEF ChangeBegin, ChangeEnd, lineGhosts, DataInv
<1>2. InData' = InData /\ start' = start /\ announced' = announced
  BY <1>1 DEF InData, dataVars, dataGhosts
<1>3. unread' = FALSE \/ unread' = unread
  BY ChangeEndMoves DEF ChangeBegin, Bump
<1>4. CASE unread' = unread
  BY <1>1, <1>2, <1>4, SameFrame
<1>5. CASE unread' = FALSE /\ unread # FALSE
  <2>1. unread
    BY <1>5 DEF BufferInv
  <2>2. CASE faults = 0
    <3>1. ~cut /\ finished
      BY <2>1, <2>2 DEF DataInv, MessageInv, ControlInv, CallInv
    <3>2. ~InData
      BY <1>1, <3>1 DEF InData
    <3> QED
      BY <1>1, <1>2, <1>5, <2>1, <3>2, TakenDirective DEF DataInv
  <2>3. CASE faults # 0
    BY <1>1, <2>3
  <2> QED
    BY <2>2, <2>3
<1> QED
  BY <1>3, <1>4, <1>5

\* Counted data is passed exactly.
LEMMA CountedStep ==
    ASSUME StreamInv, BufferInv, ControlInv, DataInv, [ChangesNext]_changesVars,
           ~finished, finished', header.is_counted
    PROVE  pos' \in {start + header.len, SkipOptionalLF(start + header.len)}
<1>1. pc = "idle" \/ pc = "panicked"
  BY DEF ControlInv, CallInv
<1>2. ASSUME NEW h, NEW q \in Ends(h, pos),
             pos' \in {DataEnd(h, q), SkipOptionalLF(DataEnd(h, q))},
             \/ h = header /\ (ret = "Ok" \/ data_opened)
             \/ h = Left /\ ~data_opened
      PROVE  pos' \in {start + header.len, SkipOptionalLF(start + header.len)}
  <2>1. ContentsEnd(header, start, q) /\ DataEnd(h, q) = DataEnd(header, q)
    BY <1>2, BlobEnds DEF DataInv
  <2>2. DataEnd(h, q) = start + header.len
    BY <2>1 DEF ContentsEnd, DataEnd
  <2> QED
    BY <1>2, <2>2
<1>3. CASE NextSkipFails
  BY <1>2, <1>3 DEF NextSkipFails, PassDataFails
<1>4. CASE NextBegin
  BY <1>2, <1>4 DEF NextBegin, DataPassed, PassData
<1>5. CASE FinishData
  BY <1>2, <1>5 DEF FinishData, BlobHeld, PassData
<1>6. CASE ~(NextSkipFails \/ NextBegin \/ FinishData)
  BY <1>1, <1>6 DEF ChangesNext, CallStep, ParserStep, PeekUnread, PeekAtEof, PeekLine,
     PeekFails, NextCommand, SkipLF, TakeDirective, PassDirective, ReadMessage, MessageFails,
     MessageCutShort, Looking, NextCall, NextUnfinished, NextCutShort, CallerStep, OpenData,
     FailData, ChangeBegin, ChangeEnd, changesVars, vars, dataVars
<1> QED
  BY <1>3, <1>4, <1>5, <1>6

DInv == IInv /\ DataInv

\* The invariant of data streams holds always.
LEMMA DataInvariant == ChangesSpec => []DInv
<1>1. ChangesInit => DInv
  <2> SUFFICES ASSUME ChangesInit PROVE DInv
    OBVIOUS
  <2>1. IInv
    BY InitInv
  <2>2. DataInv
    BY DEF ChangesInit, Init, DataInv, PeekInv, BlobInv, MessageInv, Unseen
  <2> QED
    BY <2>1, <2>2 DEF DInv
<1>2. DInv /\ [ChangesNext]_changesVars => DInv'
  BY StreamStep, BufferStep, ControlStep, DataStep DEF DInv, IInv
<1> QED
  BY <1>1, <1>2, PTL DEF ChangesSpec

\* Counted data is passed exactly, with at most an LF after it, however often
\* the reader has failed in the middle of it.
THEOREM ChangesCountedDataPassed == ChangesSpec => CountedDataPassed
<1>1. DInv /\ [ChangesNext]_changesVars =>
        [~finished /\ finished' /\ header.is_counted =>
            LET end == start + header.len
            IN  pos' \in {end, SkipOptionalLF(end)}]_vars
  BY CountedStep DEF DInv, IInv
<1> QED
  BY <1>1, DataInvariant, PTL DEF ChangesSpec, CountedDataPassed

\* Until the reader fails, the parser and its callers read any stream as
\* Framing says: they begin where it begins, and every step of theirs is one of
\* Framing, or changes nothing of where the next directive is read from.
THEOREM ChangesImplementsFraming == ChangesSpec => F!Init /\ ImplementsFraming
<1>1. DInv /\ [ChangesNext]_changesVars => [F!Next \/ faults' > 0]_F!framingVars
  <2> SUFFICES ASSUME DInv, [ChangesNext]_changesVars
               PROVE  F!Next \/ UNCHANGED F!framingVars \/ faults' > 0
    OBVIOUS
  <2>1. CASE UNCHANGED changesVars
    <3>1. UNCHANGED F!framingVars
      BY <2>1 DEF F!framingVars, changesVars, vars, inputVars, bufVars, dataVars, callVars,
                  lineGhosts, dataGhosts, InData, Last
    <3> QED
      BY <3>1
  <2>2. CASE ChangesNext
    BY <2>2, FramedParser, FramedCalls, FramedChanges DEF ChangesNext, CallStep, DInv, IInv
  <2> QED
    BY <2>1, <2>2
<1>2. ChangesInit => F!Init
  BY DEF ChangesInit, Init, InputInit, F!Init, InData, NoData,
         Delimited, F!Delimited
<1> QED
  BY <1>1, <1>2, DataInvariant, PTL DEF ChangesSpec, ImplementsFraming

-----------------------------------------------------------------------------
(* Searching for bytes.                                                      *)

\* A set of natural numbers that is not empty has a least one.
LEMMA LeastNumber ==
    ASSUME NEW T, T \subseteq Nat, T # {}
    PROVE  \E n \in T : \A m \in T : n <= m
<1> DEFINE R == OpToRel(<, Nat)
<1>1. IsWellFoundedOn(R, Nat)
  BY NatLessThanWellFounded
<1>2. \A x, y \in Nat : x < y => <<x, y>> \in R
  BY DEF OpToRel
<1> HIDE DEF R
<1>3. PICK n \in T : \A m \in T : <<m, n>> \notin R
  BY <1>1, WFMin
<1>4. \A m \in T : ~(m < n)
  BY <1>2, <1>3
<1> QED
  BY <1>4

\* Find returns the first position of one of the bytes, or 0.
LEMMA FindFirst ==
    ASSUME NEW s, Len(s) \in Nat, NEW bytes
    PROVE  /\ Find(s, bytes) \in 0..Len(s)
           /\ Find(s, bytes) = 0 => \A k \in 1..Len(s) : s[k] \notin bytes
           /\ Find(s, bytes) # 0 => s[Find(s, bytes)] \in bytes
           /\ \A k \in 1..(Find(s, bytes) - 1) : s[k] \notin bytes
<1> DEFINE I == {k \in 1..Len(s) : s[k] \in bytes}
<1>1. Find(s, bytes) = IF I # {} THEN CHOOSE x \in I : \A y \in I : x <= y ELSE 0
  BY DEF Find, SelectInSeq, Min
<1>2. CASE I = {}
  BY <1>1, <1>2
<1>3. CASE I # {}
  <2>0. I \subseteq Nat
    OBVIOUS
  <2>1. \E x \in I : \A y \in I : x <= y
    BY <1>3, <2>0, LeastNumber
  <2>2. Find(s, bytes) \in I /\ \A y \in I : Find(s, bytes) <= y
    BY <1>1, <1>3, <2>1
  <2>3. Find(s, bytes) \in 1..Len(s) /\ s[Find(s, bytes)] \in bytes
    BY <2>2
  <2>4. ASSUME NEW k \in 1..(Find(s, bytes) - 1) PROVE s[k] \notin bytes
    <3>1. k \in 1..Len(s) /\ k < Find(s, bytes)
      BY <2>3
    <3> QED
      BY <2>2, <3>1
  <2> QED
    BY <2>3, <2>4
<1> QED
  BY <1>2, <1>3

-----------------------------------------------------------------------------
(* Quoted strings.                                                           *)

\* The offset of memchr2 is one behind Find's position, in the rest of s.
LEMMA Memchr2Find ==
    ASSUME NEW s, NEW i
    PROVE  Memchr2(s, i) = Find(SubSeq(s, i + 1, Len(s)), {DoubleQuote, Backslash}) - 1
BY DEF Memchr2, Find

\* What an iteration that begins behind the opening quote finds is no quote and no
\* backslash, since it takes an offset into the rest of s for an index of s.
LEMMA IterationFails ==
    ASSUME NEW B, NEW s \in Seq(B), NEW i \in 1..Len(s)
    PROVE  \E k \in {"Unterminated", "slice out of range", "unreachable"} :
             \A Loop : Iteration(s, Loop, i, Memchr2(s, i)) = Failed(k)
<1> DEFINE rest == SubSeq(s, i + 1, Len(s))
<1> SUFFICES ASSUME NEW j, j = Memchr2(s, i), NEW f, f = Find(rest, {DoubleQuote, Backslash})
             PROVE  \E k \in {"Unterminated", "slice out of range", "unreachable"} :
                      \A Loop : Iteration(s, Loop, i, j) = Failed(k)
  OBVIOUS
<1>1. Len(s) \in Nat /\ i \in Nat /\ i >= 1 /\ i <= Len(s)
  BY LenProperties
<1>2. /\ Len(rest) = Len(s) - i
      /\ \A k \in 1..(Len(s) - i) : rest[k] = s[i + k]
  <2>1. \A k \in (i + 1)..Len(s) : s[k] \in B
    BY <1>1, ElementOfSeq
  <2>2. Len(rest) = IF i + 1 <= Len(s) THEN Len(s) - (i + 1) + 1 ELSE 0
    BY <1>1, <2>1, SubSeqProperties
  <2>3. \A k \in 1..(Len(s) - (i + 1) + 1) : rest[k] = s[(i + 1) + k - 1]
    BY <1>1, <2>1, SubSeqProperties
  <2> QED
    BY <1>1, <2>2, <2>3
<1>3. j = f - 1
  BY Memchr2Find
<1>4. Len(rest) \in Nat
  BY <1>1, <1>2
<1> HIDE DEF rest
<1>5. /\ f \in 0..Len(rest)
      /\ \A k \in 1..(f - 1) : rest[k] \notin {DoubleQuote, Backslash}
  BY <1>4, FindFirst
<1>6. CASE j = -1 \/ j < i
  BY <1>6 DEF Iteration
<1>7. CASE j # -1 /\ ~(j < i)
  <2>0. f \in Int /\ j \in Int /\ f <= Len(s) - i
    BY <1>1, <1>2, <1>3, <1>5
  <2>1. j \in Int /\ j >= i /\ j <= Len(s) - i
    BY <1>1, <1>3, <1>7, <2>0
  <2>2. j + 1 - i \in 1..(f - 1) /\ j + 1 - i \in 1..(Len(s) - i)
    BY <1>1, <1>3, <2>1
  <2>3. rest[j + 1 - i] = s[i + (j + 1 - i)] /\ i + (j + 1 - i) = j + 1
    <3>1. i + (j + 1 - i) = j + 1
      BY <1>1, <2>0
    <3> QED
      BY <1>2, <2>2, <3>1
  <2>4. s[j + 1] \notin {DoubleQuote, Backslash}
    BY <1>5, <2>2, <2>3
  <2> QED
    BY <1>7, <2>4 DEF Iteration
<1> QED
  BY <1>6, <1>7

\* Hence no string is ever unquoted: whatever follows its opening quote.
LEMMA UnquoteFails ==
    ASSUME NEW B, NEW s \in Seq(B)
    PROVE  Unquote(s) \in {Failed("Unterminated")} \cup {Failed(p) : p \in StringPanics}
<1>1. CASE s = <<>> \/ s[1] # DoubleQuote
  BY <1>1 DEF Unquote, StringPanics
<1>2. CASE s # <<>> /\ s[1] = DoubleQuote
  <2> DEFINE Is(X) == X = [i \in 1..Len(s) |-> Iteration(s, X, i, Memchr2(s, i))]
             G     == [i \in 1..Len(s) |-> Iteration(s, 0, i, Memchr2(s, i))]
             Loop  == CHOOSE X : Is(X)
  <2>1. \A X : \A i \in 1..Len(s) :
          Iteration(s, X, i, Memchr2(s, i)) = Iteration(s, 0, i, Memchr2(s, i))
    BY IterationFails
  <2>2. Is(G)
    BY <2>1
  <2>3. Is(Loop)
    BY <2>2
  <2>4. Unquote(s) = Loop[1]
    BY <1>2 DEF Unquote, UnquoteFrom
  <2>5. 1 \in 1..Len(s)
    BY <1>2, LenProperties, EmptySeq
  <2>6. Loop[1] = Iteration(s, Loop, 1, Memchr2(s, 1))
    BY <2>3, <2>5
  <2> HIDE DEF Loop
  <2>7. \E k \in {"Unterminated", "slice out of range", "unreachable"} : Unquote(s) = Failed(k)
    BY ZenonT(60), <2>4, <2>5, <2>6, IterationFails
  <2> QED
    BY <2>7 DEF StringPanics
<1> QED
  BY <1>1, <1>2

-----------------------------------------------------------------------------
(* Identities.                                                               *)

Angles == {"<", ">"}

\* The grammar's split of s at its < and its >, position by position.
SplitAt(s, lt, gt) ==
    /\ NulFree(s)
    /\ lt \in 1..Len(s) /\ s[lt] = "<" /\ (\A k \in 1..(lt - 1) : s[k] \notin Angles)
    /\ lt > 1 => s[lt - 1] = " "
    /\ gt \in 1..Len(s) /\ lt < gt /\ s[gt] = ">"
    /\ \A k \in (lt + 1)..(gt - 1) : s[k] \notin Angles
    /\ gt < Len(s) /\ s[gt + 1] = " "

\* A part of s, byte by byte.
LEMMA PartOf ==
    ASSUME NEW B, NEW s \in Seq(B), NEW m \in Nat, m >= 1, NEW n \in Int, n <= Len(s)
    PROVE  /\ SubSeq(s, m, n) \in Seq(B)
           /\ Len(SubSeq(s, m, n)) = IF m <= n THEN n - m + 1 ELSE 0
           /\ \A k \in 1..Len(SubSeq(s, m, n)) : SubSeq(s, m, n)[k] = s[m + k - 1]
<1>1. \A k \in m..n : s[k] \in B
  <2> TAKE k \in m..n
  <2>1. k \in 1..Len(s)
    BY LenProperties
  <2> QED
    BY <2>1, ElementOfSeq
<1>2. /\ SubSeq(s, m, n) \in Seq(B)
      /\ Len(SubSeq(s, m, n)) = IF m <= n THEN n - m + 1 ELSE 0
      /\ \A k \in 1..(n - m + 1) : SubSeq(s, m, n)[k] = s[m + k - 1]
  BY <1>1, SubSeqProperties
<1> QED
  BY <1>2

\* A byte is in a part of s if it is at a position of it.
LEMMA PartContains ==
    ASSUME NEW B, NEW s \in Seq(B), NEW m \in Nat, m >= 1, NEW n \in Int, n <= Len(s), NEW b
    PROVE  Contains(SubSeq(s, m, n), b) <=> \E k \in m..n : s[k] = b
<1> SUFFICES ASSUME NEW t, t = SubSeq(s, m, n)
             PROVE  Contains(t, b) <=> \E k \in m..n : s[k] = b
  OBVIOUS
<1>1. /\ Len(t) = IF m <= n THEN n - m + 1 ELSE 0
      /\ \A k \in 1..Len(t) : t[k] = s[m + k - 1]
  BY PartOf
<1>2. Contains(t, b) <=> \E k \in 1..Len(t) : t[k] = b
  BY DEF Contains
<1>3. ASSUME NEW k \in 1..Len(t), t[k] = b PROVE \E i \in m..n : s[i] = b
  <2>1. m + k - 1 \in m..n /\ s[m + k - 1] = b
    BY <1>1, <1>3
  <2> QED
    BY <2>1
<1>4. ASSUME NEW i \in m..n, s[i] = b PROVE \E k \in 1..Len(t) : t[k] = b
  <2>1. i - m + 1 \in 1..Len(t) /\ m + (i - m + 1) - 1 = i
    BY <1>1
  <2>2. t[i - m + 1] = b
    BY <1>1, <1>4, <2>1
  <2> QED
    BY <2>1, <2>2
<1> QED
  BY <1>2, <1>3, <1>4

\* The grammar has a split of s if there is one position by position.
LEMMA SplitsAt ==
    ASSUME NEW B, NEW s \in Seq(B)
    PROVE  Splits(s) # {} <=> \E lt, gt \in 1..Len(s) : SplitAt(s, lt, gt)
<1> DEFINE NoAngle(t) == ~\E b \in {"<", ">", "NUL"} : Contains(t, b)
           Split(f) == /\ s[f.lt] = "<" /\ NoAngle(SubSeq(s, 1, f.lt - 1))
                       /\ f.lt > 1 => s[f.lt - 1] = " "
                       /\ s[f.gt] = ">" /\ NoAngle(SubSeq(s, f.lt + 1, f.gt - 1))
                       /\ f.lt < f.gt /\ f.gt < Len(s) /\ s[f.gt + 1] = " "
                       /\ NulFree(s)
<1>1. DOMAIN s = 1..Len(s) /\ Len(s) \in Nat
  BY LenProperties
<1>2. Splits(s) = {f \in [lt : 1..Len(s), gt : 1..Len(s)] : Split(f)}
  BY <1>1 DEF Splits
<1>3. ASSUME NEW lt \in 1..Len(s), NEW gt \in 1..Len(s)
      PROVE  Split([lt |-> lt, gt |-> gt]) <=> SplitAt(s, lt, gt)
  <2>1. \A b : Contains(SubSeq(s, 1, lt - 1), b) <=> \E k \in 1..(lt - 1) : s[k] = b
    BY <1>1, PartContains
  <2>2. \A b : Contains(SubSeq(s, lt + 1, gt - 1), b)
                 <=> \E k \in (lt + 1)..(gt - 1) : s[k] = b
    BY <1>1, PartContains
  <2>3. NulFree(s) <=> \A k \in 1..Len(s) : s[k] # "NUL"
    BY DEF NulFree, Contains
  <2>4. /\ NulFree(s) => (NoAngle(SubSeq(s, 1, lt - 1))
                            <=> \A k \in 1..(lt - 1) : s[k] \notin Angles)
        /\ NulFree(s) => (NoAngle(SubSeq(s, lt + 1, gt - 1))
                            <=> \A k \in (lt + 1)..(gt - 1) : s[k] \notin Angles)
    BY <1>1, <2>1, <2>2, <2>3 DEF Angles
  <2> HIDE DEF NoAngle
  <2> QED
    BY <2>4 DEF SplitAt
<1> HIDE DEF Split
<1>4. \A f \in [lt : 1..Len(s), gt : 1..Len(s)] :
        f.lt \in 1..Len(s) /\ f.gt \in 1..Len(s) /\ f = [lt |-> f.lt, gt |-> f.gt]
  OBVIOUS
<1>5. ASSUME NEW f \in Splits(s) PROVE \E lt, gt \in 1..Len(s) : SplitAt(s, lt, gt)
  BY <1>2, <1>3, <1>4
<1>6. ASSUME NEW lt \in 1..Len(s), NEW gt \in 1..Len(s), SplitAt(s, lt, gt)
      PROVE  [lt |-> lt, gt |-> gt] \in Splits(s)
  BY <1>2, <1>3, <1>6
<1> QED
  BY <1>5, <1>6

\* The positions that PersonIdent::parse looks for.
LtOf(s) == Find(s, Angles)
GtOf(s) == LtOf(s) + Find(After(s, LtOf(s)), Angles)

\* They are the first < or >, and the next one, or the first again.
LEMMA LtGtOf ==
    ASSUME NEW B, NEW s \in Seq(B), NEW lt, lt = LtOf(s), NEW gt, gt = GtOf(s)
    PROVE  /\ lt \in 0..Len(s) /\ gt \in lt..Len(s)
           /\ lt = 0 => \A k \in 1..Len(s) : s[k] \notin Angles
           /\ lt # 0 => s[lt] \in Angles
           /\ \A k \in 1..(lt - 1) : s[k] \notin Angles
           /\ gt = lt => \A k \in (lt + 1)..Len(s) : s[k] \notin Angles
           /\ gt # lt => s[gt] \in Angles
           /\ \A k \in (lt + 1)..(gt - 1) : s[k] \notin Angles
<1> DEFINE rest == After(s, lt)
<1>1. Len(s) \in Nat
  BY LenProperties
<1>2. /\ lt \in 0..Len(s)
      /\ lt = 0 => \A k \in 1..Len(s) : s[k] \notin Angles
      /\ lt # 0 => s[lt] \in Angles
      /\ \A k \in 1..(lt - 1) : s[k] \notin Angles
  BY <1>1, FindFirst DEF LtOf
<1>3. /\ Len(rest) = Len(s) - lt
      /\ \A k \in 1..Len(rest) : rest[k] = s[lt + k]
  <2>1. /\ Len(rest) = IF lt + 1 <= Len(s) THEN Len(s) - (lt + 1) + 1 ELSE 0
        /\ \A k \in 1..Len(rest) : rest[k] = s[(lt + 1) + k - 1]
    BY <1>1, <1>2, PartOf DEF After
  <2> QED
    BY <1>1, <1>2, <2>1
<1>4. PICK g : g = Find(rest, Angles)
  OBVIOUS
<1>5. gt = lt + g
  BY <1>4 DEF GtOf
<1>6. Len(rest) \in Nat
  BY <1>1, <1>2, <1>3
<1>7. /\ g \in 0..Len(rest)
      /\ g = 0 => \A k \in 1..Len(rest) : rest[k] \notin Angles
      /\ g # 0 => rest[g] \in Angles
      /\ \A k \in 1..(g - 1) : rest[k] \notin Angles
  BY <1>4, <1>6, FindFirst
<1> HIDE DEF rest
<1>8. gt \in lt..Len(s) /\ (gt = lt <=> g = 0)
  BY <1>1, <1>2, <1>3, <1>5, <1>7
<1>9. \A k \in (lt + 1)..Len(s) : k - lt \in 1..Len(rest) /\ rest[k - lt] = s[k]
  <2> TAKE k \in (lt + 1)..Len(s)
  <2>1. k - lt \in 1..Len(rest) /\ lt + (k - lt) = k
    BY <1>1, <1>2, <1>3
  <2> QED
    BY <1>3, <2>1
<1>10. gt = lt => \A k \in (lt + 1)..Len(s) : s[k] \notin Angles
  BY <1>7, <1>8, <1>9
<1>11. gt # lt => s[gt] \in Angles
  BY <1>1, <1>2, <1>3, <1>5, <1>7, <1>8
<1>12. ASSUME NEW k \in (lt + 1)..(gt - 1) PROVE s[k] \notin Angles
  <2>1. k - lt \in 1..(g - 1) /\ k \in (lt + 1)..Len(s)
    BY SMTT(30), <1>1, <1>2, <1>5, <1>7, <1>8
  <2> QED
    BY <1>7, <1>9, <2>1
<1> QED
  BY <1>2, <1>8, <1>10, <1>11, <1>12

\* A split can only be at those positions.
LEMMA SplitIsThere ==
    ASSUME NEW B, NEW s \in Seq(B), NEW a, NEW b, SplitAt(s, a, b),
           NEW lt, lt = LtOf(s), NEW gt, gt = GtOf(s)
    PROVE  a = lt /\ b = gt
<1>1. /\ Len(s) \in Nat /\ lt \in 0..Len(s) /\ gt \in lt..Len(s)
      /\ a \in 1..Len(s) /\ b \in 1..Len(s) /\ a < b
      /\ s[a] \in Angles /\ s[b] \in Angles
  BY LtGtOf, LenProperties DEF SplitAt, Angles
<1>2. a = lt
  <2>1. lt # 0 /\ s[lt] \in Angles
    BY <1>1, LtGtOf
  <2>2. ~(lt < a)
    <3>1. lt < a => lt \in 1..(a - 1)
      BY <1>1, <2>1
    <3> QED
      BY <2>1, <3>1 DEF SplitAt
  <2>3. ~(a < lt)
    <3>1. a < lt => a \in 1..(lt - 1)
      BY <1>1
    <3> QED
      BY <1>1, <3>1, LtGtOf
  <2> QED
    BY <1>1, <2>2, <2>3
<1>3. b = gt
  <2>0. b \in (lt + 1)..Len(s)
    BY <1>1, <1>2
  <2>1. gt # lt /\ s[gt] \in Angles
    BY <1>1, <2>0, LtGtOf
  <2>2. ~(gt < b)
    <3>1. gt < b => gt \in (a + 1)..(b - 1)
      BY <1>1, <1>2, <2>1
    <3> QED
      BY <2>1, <3>1 DEF SplitAt
  <2>3. ~(b < gt)
    <3>1. b < gt => b \in (lt + 1)..(gt - 1)
      BY <1>1, <2>0
    <3> QED
      BY <1>1, <3>1, LtGtOf
  <2> QED
    BY <1>1, <2>2, <2>3
<1> QED
  BY <1>2, <1>3

\* PersonIdent::parse refuses what the grammar does not have, and nothing else.
LEMMA IdentGrammar ==
    ASSUME NEW B, NEW s \in Seq(B)
    PROVE  PersonIdent(s).kind \in ArgErrors <=> Splits(s) = {}
<1> SUFFICES ASSUME NEW lt, lt = LtOf(s), NEW gt, gt = GtOf(s)
             PROVE  PersonIdent(s).kind \in ArgErrors <=> Splits(s) = {}
  OBVIOUS
<1> DEFINE ident == Value("Ident", 0, <<SubSeq(s, 1, lt - 3), SubSeq(s, lt + 1, gt - 2),
                                        After(s, gt + 1)>>)
<1>1. PersonIdent(s) =
        IF ~NulFree(s) THEN Err("IdentContainsNul")
        ELSE IF lt = 0 THEN Err("IdentNoLtOrGt")
        ELSE IF s[lt] # "<" THEN Err("IdentNoLtBeforeGt")
        ELSE IF ~SpaceBefore(s, lt) THEN Err("IdentNoSpaceBeforeLt")
        ELSE IF gt = lt \/ s[gt] # ">" THEN Err("IdentNoGtAfterLt")
        ELSE IF gt = Len(s) \/ s[gt + 1] # " " THEN Err("IdentNoSpaceAfterGt")
        ELSE IF gt = lt + 1 THEN Err("slice out of range")
        ELSE ident
  BY Zenon DEF PersonIdent, LtOf, GtOf, Angles
<1>2. /\ \A k : Err(k).kind = k
      /\ ident.kind = "Ident"
  BY DEF Err, Value
<1>3. /\ {"IdentContainsNul", "IdentNoLtOrGt", "IdentNoLtBeforeGt", "IdentNoSpaceBeforeLt",
          "IdentNoGtAfterLt", "IdentNoSpaceAfterGt"} \subseteq ArgErrors
      /\ "slice out of range" \notin ArgErrors /\ "Ident" \notin ArgErrors
  BY DEF ArgErrors, NulErrors, IdentErrors, ParseStringErrors, ChangeErrors
<1> HIDE DEF ident
<1>4. PersonIdent(s).kind \notin ArgErrors <=>
        /\ NulFree(s) /\ lt # 0 /\ s[lt] = "<" /\ SpaceBefore(s, lt)
        /\ gt # lt /\ s[gt] = ">" /\ gt # Len(s) /\ s[gt + 1] = " "
  BY <1>1, <1>2, <1>3
<1>5. /\ Len(s) \in Nat /\ lt \in 0..Len(s) /\ gt \in lt..Len(s)
      /\ \A k \in 1..(lt - 1) : s[k] \notin Angles
      /\ \A k \in (lt + 1)..(gt - 1) : s[k] \notin Angles
  BY LtGtOf, LenProperties
<1>6. PersonIdent(s).kind \notin ArgErrors <=> SplitAt(s, lt, gt)
  <2>1. lt # 0 <=> lt \in 1..Len(s)
    BY <1>5
  <2>2. /\ gt # lt <=> lt < gt
        /\ gt # lt => gt \in 1..Len(s)
        /\ gt # Len(s) <=> gt < Len(s)
    BY <1>5
  <2> QED
    BY <1>4, <1>5, <2>1, <2>2 DEF SplitAt, SpaceBefore
<1>7. SplitAt(s, lt, gt) => lt \in 1..Len(s) /\ gt \in 1..Len(s)
  BY DEF SplitAt
<1> QED
  BY <1>6, <1>7, SplitsAt, SplitIsThere

-----------------------------------------------------------------------------
(* The modes of files.                                                       *)

\* The canonical modes are the five that Modes has.
LEMMA CanonicalModes ==
    ASSUME NEW n \in Nat
    PROVE  /\ IsCanon(n) <=> n \in {33188, 33261, 40960, 57344, 16384}
           /\ IsCanon(n) => /\ n = 33188 => Canonicalize(n) = "File"
                            /\ n = 33261 => Canonicalize(n) = "Exe"
                            /\ n = 40960 => Canonicalize(n) = "SymLink"
                            /\ n = 57344 => Canonicalize(n) = "GitLink"
                            /\ n = 16384 => Canonicalize(n) = "Dir"
<1>1. /\ Modes["File"] = 33188 /\ Modes["Exe"] = 33261 /\ Modes["SymLink"] = 40960
      /\ Modes["GitLink"] = 57344 /\ Modes["Dir"] = 16384
  BY DEF Modes
<1>2. Canonicalize(n) \in {"File", "Exe", "SymLink", "GitLink", "Dir"}
  BY DEF Canonicalize
<1>3. /\ Canonicalize(33188) = "File" /\ Canonicalize(33261) = "Exe"
      /\ Canonicalize(40960) = "SymLink" /\ Canonicalize(57344) = "GitLink"
      /\ Canonicalize(16384) = "Dir"
  BY DEF Canonicalize
<1>4. IsCanon(n) <=> Modes[Canonicalize(n)] = n
  BY DEF IsCanon
<1> QED
  BY <1>1, <1>2, <1>3, <1>4

\* What Mode::parse makes of the canonical modes, and of the two short ones.
LEMMA ModeOfArms ==
    ASSUME NEW s, NEW n,
           n = ParseRadix(IF IsPrefix(<<"+">>, s) THEN Tail(s) ELSE s, 8, U16_MAX)
    PROVE  /\ n = -1 => ModeOf(s) = Err("InvalidModeInt")
           /\ n \in {33188, 420} => ModeOf(s) = Value("File", 33188, <<>>)
           /\ n \in {33261, 493} => ModeOf(s) = Value("Exe", 33261, <<>>)
           /\ n = 40960 => ModeOf(s) = Value("SymLink", 40960, <<>>)
           /\ n = 57344 => ModeOf(s) = Value("GitLink", 57344, <<>>)
           /\ n = 16384 => ModeOf(s) = Value("Dir", 16384, <<>>)
           /\ n \in Nat /\ n \notin {33188, 420, 33261, 493, 40960, 57344, 16384} =>
                ModeOf(s) = Err("InvalidMode")
<1> DEFINE arms == {m \in DOMAIN ModeArms : n \in ModeArms[m]}
<1>1. ModeOf(s) = IF n = -1 THEN Err("InvalidModeInt")
                  ELSE IF arms = {} THEN Err("InvalidMode")
                  ELSE Value(CHOOSE m \in arms : TRUE, Modes[CHOOSE m \in arms : TRUE], <<>>)
  BY DEF ModeOf
<1>2. /\ Modes["File"] = 33188 /\ Modes["Exe"] = 33261 /\ Modes["SymLink"] = 40960
      /\ Modes["GitLink"] = 57344 /\ Modes["Dir"] = 16384
  BY DEF Modes
<1>3. /\ n \in {33188, 420} => arms = {"File"}
      /\ n \in {33261, 493} => arms = {"Exe"}
      /\ n = 40960 => arms = {"SymLink"}
      /\ n = 57344 => arms = {"GitLink"}
      /\ n = 16384 => arms = {"Dir"}
      /\ n \notin {33188, 420, 33261, 493, 40960, 57344, 16384} => arms = {}
  BY DEF ModeArms
<1>4. \A k : (CHOOSE m \in {k} : TRUE) = k
  OBVIOUS
<1> HIDE DEF arms
<1>5. ASSUME NEW k, arms = {k}, n # -1
      PROVE  ModeOf(s) = Value(k, Modes[k], <<>>)
  <2>1. arms # {}
    BY <1>5
  <2>2. (CHOOSE m \in arms : TRUE) = k
    BY <1>4, <1>5
  <2> QED
    BY <1>1, <1>5, <2>1, <2>2
<1>6. /\ n = -1 => ModeOf(s) = Err("InvalidModeInt")
      /\ n \in Nat /\ n \notin {33188, 420, 33261, 493, 40960, 57344, 16384} =>
           ModeOf(s) = Err("InvalidMode")
  BY <1>1, <1>3
<1>7. \A k \in {33188, 420, 33261, 493, 40960, 57344, 16384} : k # -1
  OBVIOUS
<1> QED
  BY <1>2, <1>3, <1>5, <1>6, <1>7

\* None of these is an error.
LEMMA ModesSucceed ==
    \A k \in {"File", "Exe", "SymLink", "GitLink", "Dir"} :
        k \notin ArgErrors \cup StringPanics
BY DEF ArgErrors, NulErrors, IdentErrors, ParseStringErrors, ChangeErrors, StringPanics

\* Mode::parse accepts the modes that are canonical and the two short ones.
LEMMA ModesCanonical ==
    ASSUME NEW s, NEW n,
           n = ParseRadix(IF IsPrefix(<<"+">>, s) THEN Tail(s) ELSE s, 8, U16_MAX)
    PROVE  /\ n = -1 \/ ~(IsCanon(n) \/ n \in ShortModes) =>
                ModeOf(s) \in {Err("InvalidModeInt"), Err("InvalidMode")}
           /\ ~(n = -1 \/ ~(IsCanon(n) \/ n \in ShortModes)) =>
                /\ ~Failing(ModeOf(s))
                /\ IsCanon(ModeOf(s).num)
                /\ \/ ModeOf(s).num = n
                   \/ n \in ShortModes /\ ModeOf(s).num % 4096 = n
<1>1. n \in Nat \cup {-1}
  BY ParseRadixRange DEF U16_MAX
<1>2. \A k, m : Value(k, m, <<>>).kind = k /\ Value(k, m, <<>>).num = m
  BY DEF Value
<1>3. /\ IsCanon(33188) /\ IsCanon(33261) /\ IsCanon(40960) /\ IsCanon(57344)
      /\ IsCanon(16384)
  BY CanonicalModes
<1>4. ASSUME n = -1 \/ ~(IsCanon(n) \/ n \in ShortModes)
      PROVE  ModeOf(s) \in {Err("InvalidModeInt"), Err("InvalidMode")}
  <2>1. n \in Nat => n \notin {33188, 420, 33261, 493, 40960, 57344, 16384} \/ n = -1
    BY <1>3, <1>4 DEF ShortModes
  <2> QED
    BY <1>1, <2>1, ModeOfArms
<1>5. ASSUME n \in Nat, IsCanon(n) \/ n \in ShortModes
      PROVE  /\ ~Failing(ModeOf(s))
             /\ IsCanon(ModeOf(s).num)
             /\ \/ ModeOf(s).num = n
                \/ n \in ShortModes /\ ModeOf(s).num % 4096 = n
  <2>1. n \in {33188, 420, 33261, 493, 40960, 57344, 16384}
    BY <1>5, CanonicalModes DEF ShortModes
  <2>2. ASSUME NEW k \in {"File", "Exe", "SymLink", "GitLink", "Dir"}, NEW m,
               ModeOf(s) = Value(k, m, <<>>)
        PROVE  ~Failing(ModeOf(s)) /\ ModeOf(s).num = m
    BY <1>2, <2>2, ModesSucceed DEF Failing
  <2>3. CASE n = 33188 \/ n = 420
    <3>1. ~Failing(ModeOf(s)) /\ ModeOf(s).num = 33188
      BY <2>2, <2>3, ModeOfArms
    <3>2. 33188 % 4096 = 420
      OBVIOUS
    <3> QED
      BY <1>3, <2>3, <3>1, <3>2 DEF ShortModes
  <2>4. CASE n = 33261 \/ n = 493
    <3>1. ~Failing(ModeOf(s)) /\ ModeOf(s).num = 33261
      BY <2>2, <2>4, ModeOfArms
    <3>2. 33261 % 4096 = 493
      OBVIOUS
    <3> QED
      BY <1>3, <2>4, <3>1, <3>2 DEF ShortModes
  <2>5. CASE n = 40960 \/ n = 57344 \/ n = 16384
    BY <1>3, <2>2, <2>5, ModeOfArms
  <2> QED
    BY <2>1, <2>3, <2>4, <2>5
<1> QED
  BY <1>1, <1>4, <1>5

\* No other argument of a file change is refused with the error of a mode.
LEMMA RefsAndPaths ==
    /\ \A s : DataRef(s).kind \notin {"InvalidModeInt", "InvalidMode"}
    /\ \A s : UnquoteEol(s, "JunkAfterFileModifyPath").kind
                  \notin {"InvalidModeInt", "InvalidMode"}
<1>1. \A k, n, f : Value(k, n, f).kind = k /\ Err(k).kind = k
  BY DEF Value, Err
<1>2. \A s : Objectish(s).kind \in {"MarkMissingColon", "InvalidMark", "ZeroMark", "Mark",
                                    "Name"}
  <2>1. ASSUME NEW s
        PROVE  Number("Mark", s, U64_MAX, "InvalidMark").kind \in {"InvalidMark", "Mark"}
    BY <1>1 DEF Number
  <2>2. \A s : Mark(s).kind \in {"MarkMissingColon", "InvalidMark", "ZeroMark", "Mark"}
    BY <1>1, <2>1 DEF Mark
  <2> QED
    BY <1>1, <2>2 DEF Objectish
<1>3. \A s : DataRef(s).kind \notin {"InvalidModeInt", "InvalidMode"}
  BY <1>1, <1>2 DEF DataRef
<1>4. ASSUME NEW s, NEW str
      PROVE  PathEol(s, str, "JunkAfterFileModifyPath").kind
               \notin {"InvalidModeInt", "InvalidMode"}
  <2>1. PathEol(s, str, "JunkAfterFileModifyPath").kind
          \in StringPanics \cup {"Path", "JunkAfterFileModifyPath"}
    BY <1>1 DEF PathEol
  <2> QED
    BY <2>1 DEF StringPanics
<1> QED
  BY <1>3, <1>4 DEF UnquoteEol

\* What parse_file_modify makes of its mode.
LEMMA FileModifyMode ==
    ASSUME NEW s, HasSpace(s), NEW mode, mode = ModeOf(BeforeSpace(s))
    PROVE  /\ Failing(mode) => FileModify(s) = mode
           /\ ~Failing(mode) => FileModify(s).kind \notin {"InvalidModeInt", "InvalidMode"}
           /\ ~Failing(FileModify(s)) => ~Failing(mode) /\ FileModify(s).num = mode.num
<1> DEFINE rest == AfterSpace(s)
           ref  == DataRef(BeforeSpace(rest))
           path == UnquoteEol(AfterSpace(rest), "JunkAfterFileModifyPath")
<1>1. FileModify(s) = Modified(mode, rest, ref, path)
  BY Zenon DEF FileModify
<1>2. /\ ref.kind \notin {"InvalidModeInt", "InvalidMode"}
      /\ path.kind \notin {"InvalidModeInt", "InvalidMode"}
  BY RefsAndPaths
<1> HIDE DEF rest, ref, path
<1>3. /\ Err("NoSpaceAfterDataRef").kind = "NoSpaceAfterDataRef"
      /\ Value("FileModify", mode.num, path.fields).kind = "FileModify"
      /\ Value("FileModify", mode.num, path.fields).num = mode.num
  BY DEF Value, Err
<1>4. Failing(Err("NoSpaceAfterDataRef"))
  BY <1>3 DEF Failing, ArgErrors, ChangeErrors
<1> QED
  BY <1>1, <1>2, <1>3, <1>4 DEF Modified

-----------------------------------------------------------------------------
(* What was parsed last.                                                     *)

\* The value is what the argument, a part of a line, is parsed to.
ParsedInv ==
    \/ parsed = NotParsed
    \/ /\ parsed.parse \in Parses /\ parsed.arg \in Seq(Bytes)
       /\ parsed.value = Parse(parsed.parse, parsed.arg)

\* A line with a first byte has the rest of it for an argument.
LEMMA RestOfLine ==
    ASSUME NEW l \in Seq(Bytes), NEW s, IsPrefix(<<s>>, l)
    PROVE  Tail(l) \in Seq(Bytes)
<1>1. Len(<<s>>) = 1 /\ Len(<<s>>) <= Len(l)
  BY DEF IsPrefix
<1>2. l # <<>>
  BY <1>1, EmptySeq
<1> QED
  BY <1>2, HeadTailProperties

\* An argument is parsed.
LEMMA ParsedArgument ==
    ASSUME NEW p \in Parses, NEW arg \in Seq(Bytes), Parsed(p, arg, Parse(p, arg))
    PROVE  ParsedInv'
<1>1. /\ parsed'.parse = p /\ parsed'.arg = arg /\ parsed'.value = Parse(p, arg)
  BY DEF Parsed
<1>2. Parse(parsed.parse, parsed.arg)' = Parse(p, arg)
  BY <1>1 DEF Parse
<1> QED
  BY <1>1, <1>2 DEF ParsedInv

\* What is parsed, and to what, of each directive and change.
LEMMA ParsedStep ==
    ASSUME PeekInv, ControlInv, ParsedInv, [ChangesNext]_changesVars
    PROVE  ParsedInv'
<1>1. ASSUME parsed' = parsed PROVE ParsedInv'
  <2>1. Parse(parsed.parse, parsed.arg)' = Parse(parsed.parse, parsed.arg)
    BY <1>1 DEF Parse
  <2> QED
    BY <1>1, <2>1 DEF ParsedInv, NotParsed
<1>2. CASE NextCommand
  <2>1. ASSUME NEW s \in DOMAIN ArgumentOf, view.kind = "line", IsPrefix(<<s>>, view.line),
               TakeArgument(s, Tail(view.line), Parse(ArgumentOf[s], Tail(view.line)))
        PROVE  ParsedInv'
    <3>1. Tail(view.line) \in Seq(Bytes)
      BY <2>1, RestOfLine DEF PeekInv
    <3>2. ArgumentOf[s] \in Parses
      BY DEF ArgumentOf, Parses
    <3> QED
      BY <2>1, <3>1, <3>2, ParsedArgument DEF TakeArgument
  <2>2. \/ parsed' = parsed
        \/ view.kind = "line" /\ \E s \in DOMAIN ArgumentOf :
             /\ IsPrefix(<<s>>, view.line)
             /\ TakeArgument(s, Tail(view.line), Parse(ArgumentOf[s], Tail(view.line)))
    BY <1>2 DEF NextCommand, Dispatch, SkipLFThen
  <2> QED
    BY <1>1, <2>1, <2>2
<1>3. CASE TakeDirective
  <2>1. Current.parse \in Parses
    BY <1>3, StepsFacts DEF TakeDirective, ControlInv, CallInv, Current, IsCommand, IsStep
  <2>2. UseArgument(Tail(view.line), Parse(Current.parse, Tail(view.line)))
        \/ parsed' = parsed
    BY <1>3 DEF TakeDirective
  <2>3. Tail(view.line) \in Seq(Bytes)
    BY <1>3, MatchedArgument DEF TakeDirective
  <2> QED
    BY <1>1, <2>1, <2>2, <2>3, ParsedArgument DEF UseArgument
<1>4. CASE ChangeEnd
  <2>1. ASSUME NEW s \in DOMAIN ChangeArgumentOf, view.kind = "line",
               IsPrefix(<<s>>, view.line),
               UseChange(ChangeArgumentOf[s], Tail(view.line),
                         Parse(ChangeArgumentOf[s], Tail(view.line)))
        PROVE  ParsedInv'
    <3>1. Tail(view.line) \in Seq(Bytes)
      BY <2>1, RestOfLine DEF PeekInv
    <3>2. ChangeArgumentOf[s] \in Parses
      BY DEF ChangeArgumentOf, Parses
    <3> QED
      BY <2>1, <3>1, <3>2, ParsedArgument DEF UseChange
  <2>2. \/ parsed' = parsed
        \/ view.kind = "line" /\ \E s \in DOMAIN ChangeArgumentOf :
             /\ IsPrefix(<<s>>, view.line)
             /\ UseChange(ChangeArgumentOf[s], Tail(view.line),
                          Parse(ChangeArgumentOf[s], Tail(view.line)))
    BY <1>4 DEF ChangeEnd, TakeChange, LeaveLine
  <2> QED
    BY <1>1, <2>1, <2>2
<1>5. CASE NextBegin \/ ChangeBegin
  BY <1>5 DEF NextBegin, ChangeBegin, ParsedInv
<1>6. CASE ~(NextCommand \/ TakeDirective \/ ChangeEnd \/ NextBegin \/ ChangeBegin)
  <2>1. parsed' = parsed
    BY <1>6 DEF ChangesNext, CallStep, ParserStep, PeekUnread, PeekAtEof, PeekLine, PeekFails,
       SkipLF, PassDirective, ReadMessage, MessageFails, MessageCutShort, NextCall,
       NextUnfinished, NextCutShort, NextSkipFails, CallerStep, OpenData, FinishData, FailData,
       changesVars, vars
  <2> QED
    BY <1>1, <2>1
<1> QED
  BY <1>2, <1>3, <1>4, <1>5, <1>6

\* The value of the last argument is always what it is parsed to.
LEMMA ParsedInvariant == ChangesSpec => []ParsedInv
<1>1. ChangesInit => ParsedInv
  BY DEF ChangesInit, Init, ParsedInv
<1>2. DInv /\ ParsedInv /\ [ChangesNext]_changesVars => ParsedInv'
  BY ParsedStep DEF DInv, IInv, DataInv
<1> QED
  BY <1>1, <1>2, DataInvariant, PTL DEF ChangesSpec

\* An identity is refused if the grammar does not have it, and only then.
THEOREM ChangesIdentAsGrammar == ChangesSpec => []IdentAsGrammar
<1>1. ParsedInv => IdentAsGrammar
  <2> SUFFICES ASSUME ParsedInv, parsed.parse = "Ident"
               PROVE  parsed.value.kind \in ArgErrors <=> Splits(parsed.arg) = {}
    BY DEF IdentAsGrammar
  <2>1. parsed.arg \in Seq(Bytes) /\ parsed.value = PersonIdent(parsed.arg)
    BY DEF ParsedInv, NotParsed, Parse
  <2> QED
    BY <2>1, IdentGrammar
<1> QED
  BY <1>1, ParsedInvariant, PTL

\* The modes that a file change may have are the canonical ones and the two short
\* ones, and what Mode::parse returns is canonical.
THEOREM ChangesModesAreCanonical == ChangesSpec => []ModesAreCanonical
<1>1. ParsedInv => ModesAreCanonical
  <2> DEFINE mode == BeforeSpace(parsed.arg)
             n    == ParseRadix(IF IsPrefix(<<"+">>, mode) THEN Tail(mode) ELSE mode,
                                8, U16_MAX)
             v    == parsed.value
             refused == v.kind \in {"InvalidModeInt", "InvalidMode"}
             bad == n = -1 \/ ~(IsCanon(n) \/ n \in ShortModes)
  <2> SUFFICES ASSUME ParsedInv, parsed.parse = "FileModify", HasSpace(parsed.arg)
               PROVE  /\ refused <=> bad
                      /\ ~Failing(v) => /\ IsCanon(v.num)
                                        /\ \/ v.num = n
                                           \/ n \in ShortModes /\ v.num % 4096 = n
    BY DEF ModesAreCanonical
  <2>1. v = FileModify(parsed.arg)
    BY DEF ParsedInv, NotParsed, Parse
  <2>2. /\ bad => ModeOf(mode) \in {Err("InvalidModeInt"), Err("InvalidMode")}
        /\ ~bad => /\ ~Failing(ModeOf(mode))
                   /\ IsCanon(ModeOf(mode).num)
                   /\ \/ ModeOf(mode).num = n
                      \/ n \in ShortModes /\ ModeOf(mode).num % 4096 = n
    BY ModesCanonical
  <2>3. /\ Failing(ModeOf(mode)) => v = ModeOf(mode)
        /\ ~Failing(ModeOf(mode)) => v.kind \notin {"InvalidModeInt", "InvalidMode"}
        /\ ~Failing(v) => ~Failing(ModeOf(mode)) /\ v.num = ModeOf(mode).num
    BY <2>1, FileModifyMode
  <2>4. ASSUME NEW e \in {"InvalidModeInt", "InvalidMode"}
        PROVE  Failing(Err(e)) /\ Err(e).kind = e
    BY DEF Failing, Err, Value, ArgErrors, ChangeErrors
  <2> HIDE DEF mode, n, v
  <2>5. CASE bad
    BY <2>2, <2>3, <2>4, <2>5
  <2>6. CASE ~bad
    BY <2>2, <2>3, <2>6
  <2> QED
    BY <2>5, <2>6
<1> QED
  BY <1>1, ParsedInvariant, PTL

-----------------------------------------------------------------------------
(* The types of what arguments are parsed to.                                *)

Typed(v) == v.fields \in Seq(Seq(Bytes))

\* A value of up to three slices of an argument.
LEMMA TypedValues ==
    ASSUME NEW k, NEW n
    PROVE  /\ Typed(Value(k, n, <<>>)) /\ Typed(Err(k))
           /\ \A a \in Seq(Bytes) : Typed(Value(k, n, <<a>>))
           /\ \A a, b \in Seq(Bytes) : Typed(Value(k, n, <<a, b>>))
           /\ \A a, b, c \in Seq(Bytes) : Typed(Value(k, n, <<a, b, c>>))
<1>1. \A S : /\ <<>> \in Seq(S)
             /\ \A a \in S : <<a>> \in Seq(S)
             /\ \A a, b \in S : <<a, b>> \in Seq(S)
             /\ \A a, b, c \in S : <<a, b, c>> \in Seq(S)
  OBVIOUS
<1>2. ASSUME NEW f \in Seq(Seq(Bytes)) PROVE Typed(Value(k, n, f))
  BY DEF Typed, Value
<1>3. Typed(Value(k, n, <<>>)) /\ Typed(Err(k))
  BY <1>1 DEF Typed, Value, Err
<1>4. ASSUME NEW a \in Seq(Bytes) PROVE Typed(Value(k, n, <<a>>))
  <2>1. <<a>> \in Seq(Seq(Bytes))
    BY <1>1
  <2> QED
    BY <1>2, <2>1
<1>5. ASSUME NEW a \in Seq(Bytes), NEW b \in Seq(Bytes) PROVE Typed(Value(k, n, <<a, b>>))
  <2>1. <<a, b>> \in Seq(Seq(Bytes))
    BY <1>1
  <2> QED
    BY <1>2, <2>1
<1>6. ASSUME NEW a \in Seq(Bytes), NEW b \in Seq(Bytes), NEW c \in Seq(Bytes)
      PROVE  Typed(Value(k, n, <<a, b, c>>))
  <2>1. <<a, b, c>> \in Seq(Seq(Bytes))
    BY <1>1
  <2> QED
    BY <1>2, <2>1
<1> QED
  BY <1>3, <1>4, <1>5, <1>6

\* Slices of s.
LEMMA Slices ==
    ASSUME NEW s \in Seq(Bytes)
    PROVE  /\ \A n \in Nat : After(s, n) \in Seq(Bytes)
           /\ \A m, n \in Int : m >= 1 /\ n <= Len(s) => SubSeq(s, m, n) \in Seq(Bytes)
           /\ \A bytes : Find(s, bytes) \in 0..Len(s)
           /\ Len(s) \in Nat
           /\ \A n \in 0..Len(s) : SubSeq(s, 1, n - 1) \in Seq(Bytes)
           /\ \A n \in 1..Len(s) : After(s, n - 1) \in Seq(Bytes)
<1>1. Len(s) \in Nat
  BY LenProperties
<1>2. \A m, n \in Int : m >= 1 /\ n <= Len(s) => SubSeq(s, m, n) \in Seq(Bytes)
  BY PartOf
<1>3. \A n \in Nat : After(s, n) \in Seq(Bytes)
  BY <1>1, <1>2 DEF After
<1>4. ASSUME NEW n \in 0..Len(s) PROVE SubSeq(s, 1, n - 1) \in Seq(Bytes)
  <2>1. n - 1 \in Int /\ n - 1 <= Len(s)
    BY <1>1
  <2> QED
    BY <1>2, <2>1
<1>5. ASSUME NEW n \in 1..Len(s) PROVE After(s, n - 1) \in Seq(Bytes)
  <2>1. n - 1 \in Nat
    BY <1>1
  <2> QED
    BY <1>3, <2>1
<1>6. \A bytes : Find(s, bytes) \in 0..Len(s)
  BY <1>1, FindFirst
<1> QED
  BY <1>1, <1>2, <1>3, <1>4, <1>5, <1>6

\* ... and the parts of s around a byte that it has.
LEMMA Halves ==
    ASSUME NEW s \in Seq(Bytes), NEW b, Contains(s, b), NEW at, at = Find(s, {b})
    PROVE  /\ SubSeq(s, 1, at - 1) \in Seq(Bytes)
           /\ After(s, at) \in Seq(Bytes) /\ After(s, at - 1) \in Seq(Bytes)
<1>1. at \in 1..Len(s) /\ Len(s) \in Nat
  <2>1. PICK k \in 1..Len(s) : s[k] = b
    BY DEF Contains
  <2>2. Len(s) \in Nat /\ at \in 0..Len(s)
    BY Slices
  <2>3. at = 0 => s[k] \notin {b}
    BY <2>2, FindFirst
  <2> QED
    BY <2>1, <2>2, <2>3
<1>2. at \in 0..Len(s) /\ at \in Nat
  BY <1>1
<1> QED
  BY <1>1, <1>2, Slices

\* Numbers, marks and objects.
LEMMA TypedObjects ==
    ASSUME NEW s \in Seq(Bytes)
    PROVE  /\ \A k, t, max, e : Typed(Number(k, t, max, e))
           /\ \A k, e : Typed(Text(k, s, e))
           /\ Typed(Mark(s)) /\ Typed(Objectish(s)) /\ Typed(DataRef(s))
<1>1. \A k, t, max, e : Typed(Number(k, t, max, e))
  BY TypedValues DEF Number
<1>2. \A k, e : Typed(Text(k, s, e))
  BY TypedValues DEF Text
<1>3. Typed(Mark(s))
  BY <1>1, TypedValues DEF Mark
<1>4. Typed(Objectish(s))
  BY <1>3, TypedValues DEF Objectish
<1> QED
  BY <1>1, <1>2, <1>3, <1>4, TypedValues DEF DataRef

\* Identities.
LEMMA TypedIdent ==
    ASSUME NEW s \in Seq(Bytes)
    PROVE  Typed(PersonIdent(s))
<1> SUFFICES ASSUME NEW lt, lt = LtOf(s), NEW gt, gt = GtOf(s)
             PROVE  Typed(PersonIdent(s))
  OBVIOUS
<1> DEFINE ident == Value("Ident", 0, <<SubSeq(s, 1, lt - 3), SubSeq(s, lt + 1, gt - 2),
                                        After(s, gt + 1)>>)
<1>1. \/ \E e : PersonIdent(s) = Err(e)
      \/ PersonIdent(s) = ident
  <2>1. PersonIdent(s) =
        IF ~NulFree(s) THEN Err("IdentContainsNul")
        ELSE IF lt = 0 THEN Err("IdentNoLtOrGt")
        ELSE IF s[lt] # "<" THEN Err("IdentNoLtBeforeGt")
        ELSE IF ~SpaceBefore(s, lt) THEN Err("IdentNoSpaceBeforeLt")
        ELSE IF gt = lt \/ s[gt] # ">" THEN Err("IdentNoGtAfterLt")
        ELSE IF gt = Len(s) \/ s[gt + 1] # " " THEN Err("IdentNoSpaceAfterGt")
        ELSE IF gt = lt + 1 THEN Err("slice out of range")
        ELSE ident
    BY Zenon DEF PersonIdent, LtOf, GtOf, Angles
  <2> HIDE DEF ident
  <2> QED
    BY <2>1
<1>2. Len(s) \in Nat /\ lt \in 0..Len(s) /\ gt \in lt..Len(s)
  BY LtGtOf, LenProperties
<1>3. /\ SubSeq(s, 1, lt - 3) \in Seq(Bytes) /\ SubSeq(s, lt + 1, gt - 2) \in Seq(Bytes)
      /\ After(s, gt + 1) \in Seq(Bytes)
  <2>1. /\ lt - 3 \in Int /\ lt - 3 <= Len(s)
        /\ lt + 1 \in Int /\ lt + 1 >= 1 /\ gt - 2 \in Int /\ gt - 2 <= Len(s)
        /\ gt + 1 \in Nat
    BY <1>2
  <2>2. SubSeq(s, 1, lt - 3) \in Seq(Bytes)
    BY <2>1, PartOf
  <2>3. SubSeq(s, lt + 1, gt - 2) \in Seq(Bytes)
    BY <2>1, Slices
  <2>4. After(s, gt + 1) \in Seq(Bytes)
    BY <2>1, Slices
  <2> QED
    BY <2>2, <2>3, <2>4
<1> QED
  BY ZenonT(60), <1>1, <1>3, TypedValues

\* Headers of data.
LEMMA TypedHeader ==
    ASSUME NEW s \in Seq(Bytes)
    PROVE  Typed(DataHeader(s))
<1>1. After(s, 2) \in Seq(Bytes)
  BY Slices
<1>2. Typed(Text("Delimited", After(s, 2), "DataDelimContainsNul"))
  BY <1>1, TypedObjects
<1> QED
  BY <1>2, TypedObjects, TypedValues DEF DataHeader

\* Paths of `ls`.
LEMMA TypedLs ==
    ASSUME NEW s \in Seq(Bytes), NEW in_commit_ \in BOOLEAN
    PROVE  Typed(Ls(s, in_commit_))
<1>1. ASSUME NEW root \in Seq(Seq(Bytes)), NEW path \in Seq(Bytes)
      PROVE  Typed(LsPath(root, path))
  <2>1. Unquote(path).kind # "String"
    <3>1. \A k : Failed(k).kind = k
      BY DEF Failed
    <3>2. PICK k \in {"Unterminated"} \cup StringPanics : Unquote(path) = Failed(k)
      BY UnquoteFails
    <3> QED
      BY <3>1, <3>2 DEF StringPanics
  <2>2. Typed(LsString(root, Unquote(path)))
    BY <2>1, TypedValues DEF LsString
  <2>3. Append(root, path) \in Seq(Seq(Bytes))
    BY AppendProperties
  <2>4. Typed(Value("Ls", 0, Append(root, path)))
    BY <2>3 DEF Typed, Value
  <2> QED
    BY <2>2, <2>4 DEF LsPath
<1>2. ASSUME NEW sp \in 0..Len(s), NEW root, root = SubSeq(s, 1, sp - 1)
      PROVE  /\ Typed(Objectish(root)) /\ Typed(LsPath(<<>>, s))
             /\ sp # 0 => Typed(LsPath(<<root>>, After(s, sp - 1)))
  <2>1. Len(s) \in Nat /\ root \in Seq(Bytes)
    BY <1>2, Slices
  <2>2. <<root>> \in Seq(Seq(Bytes)) /\ <<>> \in Seq(Seq(Bytes))
    BY <2>1
  <2>3. ASSUME sp # 0 PROVE After(s, sp - 1) \in Seq(Bytes)
    <3>1. sp \in 1..Len(s)
      BY <2>1, <2>3
    <3> QED
      BY <3>1, Slices
  <2> QED
    BY <1>1, <2>1, <2>2, <2>3, TypedObjects
<1>3. Find(s, {" "}) \in 0..Len(s)
  BY Slices
<1> QED
  BY <1>2, <1>3, TypedValues DEF Ls

\* Features.
LEMMA TypedFeature ==
    ASSUME NEW s \in Seq(Bytes)
    PROVE  Typed(Feature(s))
<1> SUFFICES ASSUME NEW key, key = Keyword(s), NEW rest \in Seq(Bytes), rest = After(s, 1)
             PROVE  Typed(Feature(s))
  BY Slices
<1>1. \A k : Typed(RewriteSubmodules(k, rest))
  <2> SUFFICES ASSUME NEW colon, colon = Find(rest, {":"})
               PROVE  \A k : Typed(RewriteSubmodules(k, rest))
    OBVIOUS
  <2>1. colon \in 0..Len(rest) /\ Len(rest) \in Nat
    BY Slices
  <2>2. colon # 0 => /\ SubSeq(rest, 1, colon - 1) \in Seq(Bytes)
                     /\ After(rest, colon - 1) \in Seq(Bytes)
    <3>1. colon # 0 => colon \in 1..Len(rest)
      BY <2>1
    <3> QED
      BY <2>1, <3>1, Slices
  <2> QED
    BY <2>2, TypedValues DEF RewriteSubmodules
<1>2. \A k, e : Typed(Text(k, rest, e))
  BY TypedObjects
<1> QED
  BY <1>1, <1>2, TypedValues DEF Feature

\* Options.
LEMMA TypedOption ==
    ASSUME NEW s \in Seq(Bytes)
    PROVE  Typed(OptionCommand(s))
<1>1. ASSUME NEW k, NEW t PROVE Typed(FileSize(k, t))
  <2>1. \A u, max, e : /\ Typed(Number(k, u, max, e))
                       /\ \A unit : Typed([Number(k, u, max, e) EXCEPT !.unit = unit])
    <3>1. \A u, max, e : \E n, kind : Number(k, u, max, e) = Value(kind, n, <<>>)
      BY DEF Number, Err
    <3>2. \A n, kind, unit : Typed([Value(kind, n, <<>>) EXCEPT !.unit = unit])
      BY DEF Typed, Value
    <3>3. \A u, max, e : Typed(Number(k, u, max, e))
      BY TypedValues DEF Number
    <3> QED
      BY <3>1, <3>2, <3>3
  <2> QED
    BY <2>1 DEF FileSize
<1>2. ASSUME NEW t \in Seq(Bytes) PROVE Typed(OptionGit(t))
  <2> SUFFICES ASSUME NEW key, key = Keyword(t), NEW rest \in Seq(Bytes), rest = After(t, 1)
               PROVE  Typed(OptionGit(t))
    BY <1>2, Slices
  <2> QED
    BY <1>1, TypedValues, TypedObjects DEF OptionGit
<1>3. IsPrefix(<<"git ">>, s) => Tail(s) \in Seq(Bytes)
  BY RestOfLine
<1> QED
  BY <1>2, <1>3, TypedValues DEF OptionCommand

\* The parts of s around its first space.
LEMMA SpaceHalves ==
    ASSUME NEW s \in Seq(Bytes), HasSpace(s)
    PROVE  BeforeSpace(s) \in Seq(Bytes) /\ AfterSpace(s) \in Seq(Bytes)
BY Halves DEF HasSpace, BeforeSpace, AfterSpace

\* A path to the end of the line is the line itself, since no string is unquoted.
LEMMA PathToEol ==
    ASSUME NEW s \in Seq(Bytes), NEW junk
    PROVE  \/ \E p \in StringPanics : UnquoteEol(s, junk) = Err(p)
           \/ UnquoteEol(s, junk) = Value("Path", 0, <<s>>)
<1>1. \A k : Failed(k).kind = k
  BY DEF Failed
<1>2. PICK k \in {"Unterminated"} \cup StringPanics : Unquote(s) = Failed(k)
  BY UnquoteFails
<1>3. k # "String"
  BY DEF StringPanics
<1> QED
  BY <1>1, <1>2, <1>3 DEF UnquoteEol, PathEol

\* ... and one to a space, what is before that.
LEMMA PathToSpace ==
    ASSUME NEW s \in Seq(Bytes)
    PROVE  \/ \E e \in StringPanics \cup {"NoSpaceAfterSource"} : UnquoteSpace(s) = Err(e)
           \/ /\ HasSpace(s)
              /\ UnquoteSpace(s) = Value("Path", 0, <<BeforeSpace(s), AfterSpace(s)>>)
<1>1. \A k : Failed(k).kind = k
  BY DEF Failed
<1>2. PICK k \in {"Unterminated"} \cup StringPanics : Unquote(s) = Failed(k)
  BY UnquoteFails
<1>3. k # "String"
  BY DEF StringPanics
<1>4. Unquote(s).kind = k
  BY <1>1, <1>2
<1>5. UnquoteSpace(s) = IF k \in StringPanics THEN Err(k)
                        ELSE IF ~HasSpace(s) THEN Err("NoSpaceAfterSource")
                        ELSE Value("Path", 0, <<BeforeSpace(s), AfterSpace(s)>>)
  BY Zenon, <1>3, <1>4 DEF UnquoteSpace, PathSpace
<1> QED
  BY <1>5

\* File changes.
LEMMA TypedFileModify ==
    ASSUME NEW s \in Seq(Bytes)
    PROVE  Typed(FileModify(s))
<1> DEFINE rest == AfterSpace(s)
           ref  == DataRef(BeforeSpace(rest))
           path == UnquoteEol(AfterSpace(rest), "JunkAfterFileModifyPath")
           mode == ModeOf(BeforeSpace(s))
<1>1. Typed(mode)
  <2>1. \A t : \E k, n : ModeOf(t) = Value(k, n, <<>>)
    BY DEF ModeOf, Err
  <2> QED
    BY <2>1, TypedValues
<1>2. ASSUME HasSpace(s) PROVE rest \in Seq(Bytes)
  BY <1>2, SpaceHalves
<1> HIDE DEF rest
<1>3. ASSUME HasSpace(s), HasSpace(rest) PROVE Typed(ref) /\ Typed(path)
  <2>1. BeforeSpace(rest) \in Seq(Bytes) /\ AfterSpace(rest) \in Seq(Bytes)
    BY <1>2, <1>3, SpaceHalves
  <2> QED
    BY <2>1, TypedObjects, PathToEol, TypedValues
<1> HIDE DEF ref, path, mode
<1>4. ASSUME Typed(path) PROVE Typed(Value("FileModify", mode.num, path.fields))
  BY <1>4 DEF Typed, Value
<1>5. HasSpace(s) => Typed(Modified(mode, rest, ref, path))
  BY <1>1, <1>3, <1>4, TypedValues DEF Modified
<1>6. FileModify(s) = IF ~HasSpace(s) THEN Err("NoSpaceAfterMode")
                      ELSE Modified(mode, rest, ref, path)
  BY DEF FileModify, rest, ref, path, mode
<1> QED
  BY <1>5, <1>6, TypedValues

\* Renames and copies.
LEMMA TypedFileRename ==
    ASSUME NEW s \in Seq(Bytes)
    PROVE  Typed(FileRenameCopy(s))
<1>1. \A k, n, f : Value(k, n, f).fields = f
  BY DEF Value
<1>2. ASSUME NEW a \in Seq(Bytes), NEW b \in Seq(Bytes)
      PROVE  Typed(RenamedTo(a, UnquoteEol(b, "JunkAfterDest")))
  <2>1. CASE \E p \in StringPanics : UnquoteEol(b, "JunkAfterDest") = Err(p)
    <3>1. Failing(UnquoteEol(b, "JunkAfterDest"))
      BY <2>1 DEF Failing, Err, Value
    <3> QED
      BY <2>1, <3>1, TypedValues DEF RenamedTo
  <2>2. CASE UnquoteEol(b, "JunkAfterDest") = Value("Path", 0, <<b>>)
    <3>1. UnquoteEol(b, "JunkAfterDest").fields[1] = b
      BY <1>1, <2>2
    <3> QED
      BY <2>2, <3>1, TypedValues DEF RenamedTo
  <2> QED
    BY <2>1, <2>2, PathToEol
<1>3. CASE \E e \in StringPanics \cup {"NoSpaceAfterSource"} : UnquoteSpace(s) = Err(e)
  <2>1. "NoSpaceAfterSource" \in ArgErrors
    BY DEF ArgErrors, ChangeErrors
  <2>2. Failing(UnquoteSpace(s))
    BY <1>3, <2>1 DEF Failing, Err, Value
  <2> QED
    BY <1>3, <2>2, TypedValues DEF FileRenameCopy, RenamedFrom
<1>4. CASE /\ HasSpace(s)
           /\ UnquoteSpace(s) = Value("Path", 0, <<BeforeSpace(s), AfterSpace(s)>>)
  <2>1. BeforeSpace(s) \in Seq(Bytes) /\ AfterSpace(s) \in Seq(Bytes)
    BY <1>4, SpaceHalves
  <2>2. /\ UnquoteSpace(s).fields[1] = BeforeSpace(s)
        /\ UnquoteSpace(s).fields[2] = AfterSpace(s)
    BY <1>1, <1>4
  <2> QED
    BY <1>2, <1>4, <2>1, <2>2, TypedValues DEF FileRenameCopy, RenamedFrom
<1> QED
  BY <1>3, <1>4, PathToSpace

\* Changes of notes.
LEMMA TypedNoteModify ==
    ASSUME NEW s \in Seq(Bytes)
    PROVE  Typed(NoteModify(s))
<1>1. HasSpace(s) => Typed(DataRef(BeforeSpace(s))) /\ Typed(Objectish(AfterSpace(s)))
  BY SpaceHalves, TypedObjects
<1> QED
  BY <1>1, TypedValues DEF NoteModify

\* Whatever an argument is parsed to has slices of a line for fields.
LEMMA TypedParse ==
    ASSUME NEW p \in Parses, NEW arg \in Seq(Bytes)
    PROVE  Typed(Parse(p, arg))
<1>1. /\ \A k, e : Typed(Text(k, arg, e)) /\ Typed(Value(k, 0, <<arg>>))
      /\ Typed(Mark(arg)) /\ Typed(Objectish(arg)) /\ Typed(PersonIdent(arg))
      /\ Typed(DataHeader(arg)) /\ Typed(Ls(arg, FALSE)) /\ Typed(Ls(arg, TRUE))
      /\ Typed(Feature(arg)) /\ Typed(OptionCommand(arg))
  BY TypedValues, TypedObjects, TypedIdent, TypedHeader, TypedLs, TypedFeature, TypedOption
<1>2. /\ Typed(FileModify(arg)) /\ Typed(FileDelete(arg)) /\ Typed(FileRenameCopy(arg))
      /\ Typed(NoteModify(arg))
  BY TypedFileModify, TypedFileRename, TypedNoteModify, PathToEol, TypedValues DEF FileDelete
<1> QED
  BY <1>1, <1>2 DEF Parse, Parses

-----------------------------------------------------------------------------
(* The types of the rest of the state.                                       *)

CountType == line \in Nat /\ faults \in 0..MaxFaults

DataType ==
    /\ header \in HeaderType /\ len_read \in 0..header.len
    /\ finished \in BOOLEAN /\ data_opened \in BOOLEAN
    /\ message \in HeaderType /\ announced \in HeaderType
    /\ start \in 0..Len(stream) /\ cut \in BOOLEAN

ViewType == [kind : {"none", "eof", "line"}, line : Seq(Bytes)]
Returns == Results \cup Errors \cup Assertions \cup StringPanics
CallType ==
    /\ pc \in {"idle", "command", "skip", "steps", "message", "change", "panicked"}
    /\ view \in ViewType
    /\ command \in DOMAIN Steps \cup {"none"}
    /\ IF command = "none" THEN step = 0 ELSE step \in 1..Len(Steps[command])
    /\ ret \in Returns

\* Lines are counted, and the failures of the reader.
LEMMA CountStep ==
    ASSUME StreamInv, CountType, [ChangesNext]_changesVars
    PROVE  CountType'
<1>1. /\ faults' \in {faults, faults + 1}
      /\ faults' = faults \/ faults < MaxFaults
  BY DEF ChangesNext, CallStep, ParserStep, PeekUnread, PeekAtEof, PeekLine, PeekFails,
     NextCommand, SkipLF, TakeDirective, PassDirective, ReadMessage, MessageFails,
     MessageCutShort, Peeked, PassData, PassDataFails, BreakData, CutShort, ReaderFails,
     NextCall, NextUnfinished, NextCutShort, NextSkipFails, NextBegin, DataPassed,
     CallerStep, OpenData, FinishData, FailData, ChangeBegin, ChangeEnd, changesVars, vars
<1>2. faults' \in 0..MaxFaults
  BY <1>1, ParserAssumption DEF CountType
<1> SUFFICES line' \in Nat
  BY <1>2 DEF CountType
<1>0. line \in Nat /\ \A k \in Nat : line + k \in Nat /\ line + k + 1 \in Nat
  BY DEF CountType
<1>3. /\ pos \in Int /\ Len(stream) \in Nat
      /\ \A q \in Int : CountLF(pos, q) \in Nat
  <2>1. pos \in Int /\ Len(stream) \in Nat
    BY LenProperties DEF StreamInv
  <2> QED
    BY <2>1, CountLFNat
<1>4. ASSUME NEW h, NEW q \in pos..Len(stream), Passed(h, q) PROVE line' \in Nat
  <2>1. PICK k \in Nat : k = CountLF(pos, q)
    BY <1>3
  <2>2. line' = line + k \/ line' = line + k + 1
    <3>1. line' = line + k + (IF h.is_counted THEN 0 ELSE 1)
      BY Zenon, <1>4, <2>1 DEF Passed
    <3> QED
      BY <1>0, <3>1
  <2> QED
    BY <1>0, <2>1, <2>2
<1>5. ASSUME NEW h, NEW q \in Ends(h, pos), PassData(h, q) \/ PassDataFails(h, q)
      PROVE  line' \in Nat
  BY <1>4, <1>5 DEF Ends, PassData, PassDataFails
<1>6. ASSUME NEW h, CutShort(h) PROVE line' \in Nat
  <2>1. pos' \in Int
    BY <1>3, <1>6 DEF CutShort
  <2>2. PICK k \in Nat : k = CountLF(pos, pos')
    BY <1>3, <2>1
  <2>3. line' = line + k \/ line' = line + k + 1
    <3>1. \E cond : line' = line + k + (IF cond THEN 1 ELSE 0)
      BY Zenon, <1>6, <2>2 DEF CutShort
    <3> QED
      BY <1>0, <3>1
  <2> QED
    BY <1>0, <2>2, <2>3
<1>7. ASSUME line' = line PROVE line' \in Nat
  BY <1>0, <1>7
<1>8. CASE ParserStep
  <2>1. CASE PeekLine
    BY <1>0, <2>1 DEF PeekLine, ReadLine
  <2>2. CASE ReadMessage
    BY <1>5, <2>2 DEF ReadMessage
  <2>3. CASE MessageFails
    <3>1. CASE \E q \in Ends(message, pos) : PassDataFails(message, q)
      BY <1>5, <3>1
    <3>2. CASE \E p \in pos..Len(stream) :
                 line' = line + (IF message.is_counted THEN 0 ELSE CountLF(pos, p))
      <4>1. PICK p \in pos..Len(stream) :
              line' = line + (IF message.is_counted THEN 0 ELSE CountLF(pos, p))
        BY <3>2
      <4>2. PICK k \in Nat : k = CountLF(pos, p)
        BY <1>3
      <4>3. line' = line + 0 \/ line' = line + k
        BY <4>1, <4>2
      <4> QED
        BY <1>0, <4>2, <4>3
    <3> QED
      BY <2>3, <3>1, <3>2 DEF MessageFails
  <2>4. CASE MessageCutShort
    BY <1>6, <2>4 DEF MessageCutShort
  <2>5. CASE ~(PeekLine \/ ReadMessage \/ MessageFails \/ MessageCutShort)
    BY <1>7, <1>8, <2>5 DEF ParserStep, PeekUnread, PeekAtEof, PeekFails, NextCommand, SkipLF,
       TakeDirective, PassDirective, inputVars
  <2> QED
    BY <2>1, <2>2, <2>3, <2>4, <2>5
<1>9. CASE NextCall
  <2>1. CASE NextSkipFails
    <3>1. CASE \E q \in Ends(Left, pos) : PassDataFails(Left, q)
      BY <1>5, <3>1
    <3>2. CASE \E p \in pos..Len(stream) : line' = line + CountLF(pos, p)
      <4>1. PICK p \in pos..Len(stream) : line' = line + CountLF(pos, p)
        BY <3>2
      <4>2. PICK k \in Nat : k = CountLF(pos, p)
        BY <1>3
      <4>3. line' = line + k
        BY <4>1, <4>2
      <4> QED
        BY <1>0, <4>2, <4>3
    <3> QED
      BY <2>1, <3>1, <3>2 DEF NextSkipFails
  <2>2. CASE NextBegin
    BY <1>5, <1>7, <2>2 DEF NextBegin, DataPassed, inputVars
  <2>3. CASE NextUnfinished \/ NextCutShort
    BY <1>6, <1>7, <2>3 DEF NextUnfinished, NextCutShort, inputVars
  <2> QED
    BY <1>9, <2>1, <2>2, <2>3 DEF NextCall
<1>10. CASE CallerStep
  BY <1>5, <1>6, <1>7, <1>10 DEF CallerStep, OpenData, FinishData, FailData, inputVars
<1>11. CASE ChangeBegin \/ ChangeEnd \/ UNCHANGED changesVars
  BY <1>7, <1>11 DEF ChangeBegin, ChangeEnd, changesVars, vars, inputVars
<1> QED
  BY <1>8, <1>9, <1>10, <1>11 DEF ChangesNext, CallStep

\* How much is read of the data of a blob, when its reading breaks off.
LEMMA LenReadBounds ==
    ASSUME StreamInv, DataType, NEW p \in pos..Len(stream),
           \A q \in Ends(Left, pos) : p <= q, header.is_counted
    PROVE  len_read + (p - pos) \in 0..header.len
<1>1. /\ pos \in Nat /\ Len(stream) \in Nat /\ pos <= Len(stream)
      /\ header.len \in Nat /\ len_read \in Nat /\ len_read <= header.len
  BY LenProperties DEF StreamInv, DataType, HeaderType
<1>2. Left.is_counted /\ Left.len = header.len - len_read
  BY DEF Left, DataType, HeaderType
<1>3. \A q : ContentsEnd(Left, pos, q) <=> q = pos + (header.len - len_read)
  BY <1>2 DEF ContentsEnd
<1>4. p <= pos + (header.len - len_read)
  <2>1. CASE pos + (header.len - len_read) <= Len(stream)
    <3>1. pos + (header.len - len_read) \in Ends(Left, pos)
      BY <1>1, <1>3, <2>1 DEF Ends
    <3> QED
      BY <3>1
  <2>2. CASE ~(pos + (header.len - len_read) <= Len(stream))
    BY <1>1, <2>2
  <2> QED
    BY <2>1, <2>2
<1> QED
  BY <1>1, <1>4

\* Data streams.
LEMMA DataTypeStep ==
    ASSUME StreamInv, ControlInv, PeekInv, DataType, [ChangesNext]_changesVars
    PROVE  DataType'
<1>1. stream' = stream
  BY DEF ChangesNext, CallStep, ParserStep, PeekUnread, PeekAtEof, PeekLine, PeekFails,
     NextCommand, SkipLF, TakeDirective, PassDirective, ReadMessage, MessageFails,
     MessageCutShort, PassData, PassDataFails, Passed, BreakData, CutShort,
     NextCall, NextUnfinished, NextCutShort, NextSkipFails, NextBegin, DataPassed,
     CallerStep, OpenData, FinishData, FailData, ChangeBegin, ChangeEnd, changesVars, vars,
     inputVars
<1>2. NoData \in HeaderType
  <2>1. <<>> \in Seq(Bytes)
    BY EmptySeq
  <2> QED
    BY <2>1 DEF NoData, Delimited, HeaderType
<1>3. ASSUME message' \in {message, NoData}, UNCHANGED <<header, announced, start>>,
             len_read' \in 0..header.len, finished' \in BOOLEAN, data_opened' \in BOOLEAN,
             cut' \in BOOLEAN
      PROVE  DataType'
  BY <1>1, <1>2, <1>3 DEF DataType
<1>4. ASSUME message' \in {message, NoData}, UNCHANGED dataVars, UNCHANGED dataGhosts
      PROVE  DataType'
  BY <1>1, <1>2, <1>4 DEF DataType, dataVars, dataGhosts
<1>5. CASE ParserStep
  <2>1. CASE TakeDirective
    <3>1. CASE UNCHANGED <<dataVars, dataGhosts>> /\ pc' # "message"
      <4>1. message' \in {message, NoData}
        BY <2>1, <3>1 DEF TakeDirective, UseArgument, Fail, Panic, Return, Advance, Continue,
           Announce
      <4> QED
        BY <1>4, <3>1, <4>1
    <3>2. ASSUME NEW h, HeaderOK(h), Announce(h) PROVE DataType'
      <4>1. h \in HeaderType /\ pos \in 0..Len(stream) /\ h.len \in Nat
        BY <3>2 DEF HeaderOK, StreamInv, HeaderType
      <4>2. announced' = h /\ start' = pos /\ cut' = cut
        BY <3>2 DEF Announce
      <4>3. CASE command = "blob"
        <5>1. /\ header' = h /\ finished' = FALSE /\ len_read' = 0 /\ data_opened' = FALSE
              /\ message' = NoData
          BY <3>2, <4>3 DEF Announce, Advance, Return, Continue
        <5>2. 0 \in 0..h.len
          BY <4>1
        <5> QED
          BY <1>1, <1>2, <4>1, <4>2, <5>1, <5>2 DEF DataType
      <4>4. CASE command # "blob"
        <5>1. message' = h /\ UNCHANGED dataVars
          BY <3>2, <4>4 DEF Announce
        <5> QED
          BY <1>1, <4>1, <4>2, <5>1 DEF DataType, dataVars
      <4> QED
        BY <4>3, <4>4
    <3> QED
      BY <2>1, <3>1, <3>2, AnnouncedHeader
  <2>2. CASE MessageFails \/ MessageCutShort
    <3>1. /\ message' \in {message, NoData} /\ UNCHANGED dataVars /\ cut' = TRUE
          /\ UNCHANGED <<announced, start>>
      BY <2>2 DEF MessageFails, MessageCutShort, Return, Panic
    <3> QED
      BY <1>3, <3>1 DEF DataType, dataVars
  <2>3. CASE ~(TakeDirective \/ MessageFails \/ MessageCutShort)
    <3>1. UNCHANGED dataVars /\ UNCHANGED dataGhosts
      BY <1>5, <2>3 DEF ParserStep, PeekUnread, PeekAtEof, PeekLine, PeekFails, NextCommand,
         SkipLF, PassDirective, ReadMessage
    <3>2. message' \in {message, NoData}
      BY <1>5, <2>3 DEF ParserStep, PeekUnread, PeekAtEof, PeekLine, PeekFails, Peeked,
         NextCommand, Dispatch, TakeArgument, Fail, Begin, SkipLFThen, SkipLF, PassDirective,
         ReadMessage, Advance, Continue, Return, Panic
    <3> QED
      BY <1>4, <3>1, <3>2
  <2> QED
    BY <2>1, <2>2, <2>3
<1>6. CASE NextUnfinished
  BY <1>4, <1>6 DEF NextUnfinished, Return
<1>7. CASE NextCutShort
  <2>1. /\ message' = NoData /\ UNCHANGED <<header, finished, data_opened>>
        /\ UNCHANGED dataGhosts /\ Ends(Left, pos) = {} /\ pos' = Len(stream)
        /\ len_read' = IF header.is_counted THEN len_read + (pos' - pos) ELSE 0
    BY <1>7 DEF NextCutShort, Return, CutShort
  <2>2. pos' \in pos..Len(stream) /\ 0 \in 0..header.len
    BY <2>1, LenProperties DEF StreamInv, DataType, HeaderType
  <2>3. len_read' \in 0..header.len
    BY <2>1, <2>2, LenReadBounds
  <2> QED
    BY <1>3, <2>1, <2>3 DEF DataType, dataGhosts
<1>8. CASE NextSkipFails
  <2>1. /\ message' = NoData /\ UNCHANGED <<header, data_opened>>
        /\ UNCHANGED dataGhosts /\ finished' \in BOOLEAN
        /\ len_read' = IF header.is_counted THEN len_read + (pos' - pos) ELSE 0
    BY <1>8 DEF NextSkipFails, Return, DataType
  <2>2. 0 \in 0..header.len
    BY DEF DataType, HeaderType
  <2>3. ASSUME header.is_counted
        PROVE  pos' \in pos..Len(stream) /\ \A q \in Ends(Left, pos) : pos' <= q
    <3>1. Left.is_counted /\ pos \in Int /\ Len(stream) \in Nat
      BY <2>3, LenProperties DEF Left, DataType, HeaderType, StreamInv
    <3>2. \A q \in Ends(Left, pos) : q \in pos..Len(stream) /\ q = pos + Left.len
      BY <3>1 DEF Ends, ContentsEnd
    <3>3. CASE \E p \in pos..Len(stream) : BreakData(Left, p)
      <4>1. PICK p \in pos..Len(stream) : BreakData(Left, p)
        BY <3>3
      <4>2. pos' = p /\ \A q \in Ends(Left, pos) : p < q + 0
        BY <3>1, <4>1 DEF BreakData
      <4> QED
        BY <3>1, <3>2, <4>2
    <3>4. CASE \E q \in Ends(Left, pos) : PassDataFails(Left, q)
      <4>1. PICK q \in Ends(Left, pos) : PassDataFails(Left, q)
        BY <3>4
      <4>2. pos' = q
        BY <3>1, <4>1 DEF PassDataFails, DataEnd
      <4> QED
        BY <3>1, <3>2, <4>1, <4>2
    <3> QED
      BY <1>8, <3>3, <3>4 DEF NextSkipFails
  <2>4. len_read' \in 0..header.len
    BY <2>1, <2>2, <2>3, LenReadBounds
  <2> QED
    BY <1>3, <2>1, <2>4 DEF DataType, dataGhosts
<1>9. CASE NextBegin \/ FinishData \/ OpenData
  <2>1. /\ message' = message /\ UNCHANGED <<header, len_read>> /\ UNCHANGED dataGhosts
        /\ finished' \in {finished, TRUE} /\ data_opened' \in {data_opened, TRUE}
    BY <1>9 DEF NextBegin, DataPassed, FinishData, OpenData, callVars
  <2> QED
    BY <1>3, <2>1 DEF DataType, dataGhosts
<1>10. CASE FailData \/ ChangeBegin \/ ChangeEnd \/ UNCHANGED changesVars
  <2>1. UNCHANGED dataVars /\ UNCHANGED dataGhosts
    BY <1>10 DEF FailData, ChangeBegin, ChangeEnd, changesVars, vars, dataVars, dataGhosts
  <2>2. message' \in {message, NoData}
    BY <1>10 DEF FailData, callVars, ChangeBegin, ChangeEnd, TakeChange, UseChange, LeaveLine,
       Fail, Return, Panic, changesVars, vars
  <2> QED
    BY <1>4, <2>1, <2>2
<1> QED
  BY <1>5, <1>6, <1>7, <1>8, <1>9, <1>10 DEF ChangesNext, CallStep, NextCall, CallerStep

\* A call that ends,
LEMMA ReturnedCall ==
    ASSUME NEW r \in Returns, Return(r)
    PROVE  CallType'
<1>1. Unseen \in ViewType
  BY EmptySeq DEF Unseen, ViewType
<1> QED
  BY <1>1 DEF Return, CallType

\* ... by a panic,
LEMMA PanickedCall ==
    ASSUME CallType, NEW a \in Returns, Panic(a)
    PROVE  CallType'
BY DEF Panic, CallType

\* ... or by an argument that is not parsed,
LEMMA FailedCall ==
    ASSUME CallType, NEW v, Failing(v), Fail(v)
    PROVE  CallType'
<1>1. v.kind \in Returns
  BY DEF Failing, Returns, Errors
<1> QED
  BY <1>1, ReturnedCall, PanickedCall DEF Fail

\* ... or that goes on,
LEMMA RunningCall ==
    ASSUME CallType, pc' \in {"command", "skip", "steps", "message", "change"},
           view' \in ViewType, ret' = ret,
           \/ command' = "none" /\ step' = 0
           \/ command' = command /\ step' = step
           \/ command' \in DOMAIN Steps /\ step' \in 1..Len(Steps[command'])
    PROVE  CallType'
<1>1. "none" \notin DOMAIN Steps
  BY StepsFacts
<1> QED
  BY <1>1 DEF CallType

\* ... with a command,
LEMMA BegunCall ==
    ASSUME CallType, NEW kind \in DOMAIN Steps \cup {"none"},
           SkipLFThen(kind) \/ (kind # "none" /\ Begin(kind))
    PROVE  CallType'
<1>1. Unseen \in ViewType
  BY EmptySeq DEF Unseen, ViewType
<1>2. kind # "none" => 1 \in 1..Len(Steps[kind])
  BY StepsFacts DEF IsCommand
<1>3. pc' \in {"skip", "steps"} /\ view' = Unseen /\ ret' = ret /\ command' = kind
  BY DEF SkipLFThen, Begin
<1>4. step' = IF kind = "none" THEN 0 ELSE 1
  BY DEF SkipLFThen, Begin
<1> QED
  BY <1>1, <1>2, <1>3, <1>4, RunningCall

\* ... or with its next directive.
LEMMA AdvancedCall ==
    ASSUME CallType, command \in DOMAIN Steps, step \in 1..Len(Steps[command]),
           Advance \/ Continue(step)
    PROVE  CallType'
<1>1. Unseen \in ViewType /\ "Ok" \in Returns
  BY EmptySeq DEF Unseen, ViewType, Returns, Results
<1>2. Len(Steps[command]) \in Nat
  BY StepsFacts DEF IsCommand
<1>3. ASSUME NEW n \in 1..Len(Steps[command]), Continue(n) PROVE CallType'
  <2>1. pc' = "steps" /\ view' = Unseen /\ ret' = ret /\ command' = command /\ step' = n
    BY <1>3 DEF Continue
  <2> QED
    BY <1>1, <1>3, <2>1, RunningCall
<1>4. CASE Continue(step)
  BY <1>3, <1>4
<1>5. CASE Advance /\ step = Len(Steps[command])
  BY <1>1, <1>5, ReturnedCall DEF Advance
<1>6. CASE Advance /\ step # Len(Steps[command])
  <2>1. step + 1 \in 1..Len(Steps[command])
    BY <1>2, <1>6
  <2>2. Continue(step + 1)
    BY <1>6 DEF Advance
  <2> QED
    BY <1>3, <2>1, <2>2
<1> QED
  BY <1>4, <1>5, <1>6

\* What is peeked is a line of bytes, or the end.
LEMMA PeekedCall ==
    ASSUME StreamInv, BufferInv, CallType, PeekUnread \/ PeekAtEof \/ PeekLine
    PROVE  CallType'
<1> SUFFICES ASSUME NEW v \in ViewType, Looking, Peeked(v) PROVE CallType'
  <2>1. \A l \in Seq(Bytes) : Directive(l) \in ViewType
    BY DEF Directive, ViewType
  <2>2. AtEof \in ViewType /\ Unseen \in ViewType
    BY EmptySeq DEF AtEof, Unseen, ViewType
  <2>3. CASE PeekUnread
    <3>1. lines # <<>> /\ Looking /\ Peeked(Directive(Last(lines)))
      BY <2>3 DEF PeekUnread, BufferInv, UnreadIsBack
    <3>2. Last(lines) \in Seq(Bytes)
      <4>1. lines \in Seq(Seq(Bytes))
        BY DEF BufferInv
      <4>2. Len(lines) \in 1..Len(lines)
        BY <3>1, <4>1, EmptySeq, LenProperties
      <4> QED
        BY <4>1, <4>2, ElementOfSeq DEF Last
    <3> QED
      BY <2>1, <3>1, <3>2
  <2>4. CASE PeekAtEof
    BY <2>2, <2>4 DEF PeekAtEof
  <2>5. CASE PeekLine
    <3>1. PICK n \in 0..(Len(stream) - pos) :
            Peeked(AtEof) \/ Peeked(Unseen) \/ Peeked(Directive(Slice(pos, pos + n)))
      BY <2>5 DEF PeekLine
    <3>2. Slice(pos, pos + n) \in Seq(Bytes)
      <4>1. pos \in 0..Len(stream) /\ Len(stream) \in Nat /\ stream \in Seq(Bytes)
        BY LenProperties DEF StreamInv
      <4>2. pos + n \in pos..Len(stream)
        BY <4>1
      <4> QED
        BY <4>1, <4>2, SliceProperties
    <3> QED
      BY <2>1, <2>2, <2>5, <3>1, <3>2 DEF PeekLine
  <2> QED
    BY <2>3, <2>4, <2>5
<1>1. /\ pc' = pc /\ view' = v /\ command' = command /\ step' = step /\ ret' = ret
      /\ pc \in {"command", "steps", "change"}
  BY DEF Peeked, Looking
<1> QED
  BY <1>1, RunningCall

\* The first line of a command begins it, or ends the call.
LEMMA DispatchedCall ==
    ASSUME CallType, NEW l, Dispatch(l)
    PROVE  CallType'
<1>1. /\ "Ok" \in Returns /\ "Done" \in Returns /\ "UnexpectedBlank" \in Returns
      /\ "UnrecognizedCommand" \in Returns /\ "unwrap on None" \in Returns
  BY DEF Returns, Results, Errors, Assertions
<1>2. "blob" \in DOMAIN Steps /\ "alias" \in DOMAIN Steps /\ "none" \notin DOMAIN Steps
  BY StepsFacts
<1>3. CASE Begin("blob")
  BY <1>2, <1>3, BegunCall
<1>4. ASSUME NEW s, NEW arg, NEW v, TakeArgument(s, arg, v) PROVE CallType'
  <2>1. CASE Failing(v)
    BY <1>4, <2>1, FailedCall DEF TakeArgument
  <2>2. CASE ~Failing(v) /\ s \in DOMAIN Names
    <3>1. Begin(Names[s]) /\ Names[s] \in DOMAIN Steps
      BY <1>4, <2>2, NamesFacts DEF TakeArgument
    <3> QED
      BY <1>2, <3>1, BegunCall
  <2>3. CASE ~Failing(v) /\ s \notin DOMAIN Names
    <3>1. Panic("unwrap on None") \/ Return("Ok")
      BY <1>4, <2>3 DEF TakeArgument
    <3> QED
      BY <1>1, <3>1, ReturnedCall, PanickedCall
  <2> QED
    BY <2>1, <2>2, <2>3
<1>5. CASE \/ Return("Done")
           \/ Return(IF l = <<>> THEN "UnexpectedBlank" ELSE "UnrecognizedCommand")
  BY <1>1, <1>5, ReturnedCall
<1>6. CASE SkipLFThen("none") \/ SkipLFThen("alias")
  BY <1>2, <1>6, BegunCall
<1> QED
  BY <1>3, <1>4, <1>5, <1>6 DEF Dispatch

\* The directive that is there is taken, the one that is not is passed over.
LEMMA DirectiveCall ==
    ASSUME ControlInv, CallType, TakeDirective \/ PassDirective
    PROVE  CallType'
<1>1. /\ pc = "steps" /\ command \in DOMAIN Steps /\ step \in 1..Len(Steps[command])
      /\ view # Unseen
  BY DEF TakeDirective, PassDirective, ControlInv, CallInv
<1>2. Missings \subseteq Returns
  BY DEF Returns, Errors
<1>3. CASE PassDirective
  <2>1. CASE Current.missing = "Ok"
    BY <1>1, <1>3, <2>1, AdvancedCall DEF PassDirective
  <2>2. CASE Current.missing # "Ok"
    <3>1. Current.missing \in Missings
      BY <1>1, <2>2, StepsFacts DEF Current, IsCommand, IsStep
    <3> QED
      BY <1>2, <1>3, <2>2, <3>1, ReturnedCall DEF PassDirective
  <2> QED
    BY <2>1, <2>2
<1>4. ASSUME NEW arg, NEW v, UseArgument(arg, v) PROVE CallType'
  <2>1. CASE Failing(v)
    BY <1>4, <2>1, FailedCall DEF UseArgument
  <2>2. CASE Advance \/ Continue(step)
    BY <1>1, <2>2, AdvancedCall
  <2>3. ASSUME NEW h, Announce(h) PROVE CallType'
    <3>1. CASE command = "blob"
      BY <1>1, <2>3, <3>1, AdvancedCall DEF Announce
    <3>2. CASE command # "blob"
      <4>1. Unseen \in ViewType
        BY EmptySeq DEF Unseen, ViewType
      <4>2. pc' = "message" /\ view' = Unseen /\ UNCHANGED <<command, step, ret>>
        BY <2>3, <3>2 DEF Announce
      <4> QED
        BY <4>1, <4>2, RunningCall
    <3> QED
      BY <3>1, <3>2
  <2> QED
    BY <1>4, <2>1, <2>2, <2>3 DEF UseArgument
<1>5. CASE TakeDirective
  <2>1. MayBump
    BY <1>1, Bumpable
  <2> QED
    BY <1>4, <1>5, <2>1 DEF TakeDirective
<1> QED
  BY <1>3, <1>5

\* Every step leaves a call where the types say.
LEMMA CallTypeStep ==
    ASSUME StreamInv, BufferInv, ControlInv, CallType, [ChangesNext]_changesVars
    PROVE  CallType'
<1>1. /\ {"Ok", "Done", "Eof", "Io", "Some", "None", "Unfinished", "DataUnexpectedEof",
          "UnterminatedData"} \subseteq Returns
      /\ Assertions \subseteq Returns
  BY DEF Returns, Results, Errors
<1>2. /\ \A h : Missing(h) \in Returns
      /\ "already at EOF" \in Returns
      /\ "skipping optional LF with unread line" \in Returns
      /\ "unread_directive not preceded by bump_directive" \in Returns
  BY <1>1 DEF Missing, Assertions
<1>3. ASSUME UNCHANGED callVars, ret' = ret PROVE CallType'
  BY <1>3 DEF CallType, callVars
<1>4. CASE NextCommand
  <2>1. MayBump
    BY <1>4, Bumpable DEF NextCommand
  <2>2. Return("Eof") \/ Dispatch(view.line)
    BY <1>4, <2>1 DEF NextCommand
  <2> QED
    BY <1>1, <2>2, ReturnedCall, DispatchedCall
<1>5. CASE SkipLF
  <2>1. command = "none" \/ command \in DOMAIN Steps
    BY DEF CallType
  <2>2. \/ Panic("skipping optional LF with unread line")
        \/ Return("Io") \/ Return("Ok")
        \/ command # "none" /\ Begin(command)
    BY <1>5 DEF SkipLF
  <2> QED
    BY <1>1, <1>2, <2>1, <2>2, ReturnedCall, PanickedCall, BegunCall
<1>6. CASE ReadMessage
  <2>1. command \in DOMAIN Steps /\ step \in 1..Len(Steps[command]) /\ Advance
    BY <1>6 DEF ReadMessage, ControlInv, CallInv
  <2> QED
    BY <2>1, AdvancedCall
<1>7. CASE PeekFails \/ MessageFails \/ NextSkipFails \/ NextUnfinished \/ NextCutShort
  BY <1>1, <1>2, <1>7, ReturnedCall
     DEF PeekFails, MessageFails, NextSkipFails, NextUnfinished, NextCutShort
<1>8. CASE MessageCutShort
  BY <1>2, <1>8, ReturnedCall, PanickedCall DEF MessageCutShort
<1>9. CASE NextBegin \/ ChangeBegin
  <2>1. /\ pc' \in {"command", "change"} /\ view' \in {view, Unseen}
        /\ UNCHANGED <<command, step, ret>>
    BY <1>9 DEF NextBegin, ChangeBegin
  <2>2. Unseen \in ViewType /\ view \in ViewType
    BY EmptySeq DEF Unseen, ViewType, CallType
  <2> QED
    BY <2>1, <2>2, RunningCall
<1>10. CASE ChangeEnd
  <2>1. MayBump
    BY <1>10, Bumpable DEF ChangeEnd
  <2>2. \/ Return("None") \/ Return("Some")
        \/ Panic("unread_directive not preceded by bump_directive")
        \/ \E v : Failing(v) /\ Fail(v)
    BY <1>10, <2>1 DEF ChangeEnd, TakeChange, UseChange, LeaveLine
  <2> QED
    BY <1>1, <1>2, <2>2, ReturnedCall, PanickedCall, FailedCall
<1>11. CASE CallerStep \/ UNCHANGED changesVars
  <2>1. UNCHANGED callVars /\ ret' = ret
    BY <1>11 DEF CallerStep, OpenData, FinishData, FailData, changesVars, vars, callVars
  <2> QED
    BY <1>3, <2>1
<1> QED
  BY <1>4, <1>5, <1>6, <1>7, <1>8, <1>9, <1>10, <1>11, PeekedCall, DirectiveCall
     DEF ChangesNext, CallStep, ParserStep, NextCall

TypeInv == CountType /\ DataType /\ CallType

\* The parser's state, and the argument that was parsed last, always have their
\* types: in every call, and after every result of one.
THEOREM ChangesTypeOK == ChangesSpec => []TypeOK
<1>1. ChangesInit => TypeInv
  <2> SUFFICES ASSUME ChangesInit PROVE TypeInv
    OBVIOUS
  <2>2. NoData \in HeaderType /\ Unseen \in ViewType
    BY EmptySeq DEF NoData, Delimited, HeaderType, Unseen, ViewType
  <2>3. Len(stream) \in Nat
    BY LinesAssumption, LenProperties DEF ChangesInit, Init, InputInit
  <2>4. CountType
    BY ParserAssumption DEF ChangesInit, Init, InputInit, CountType
  <2>5. DataType
    <3>1. NoData.len \in Nat
      BY <2>2 DEF HeaderType
    <3>2. /\ header = NoData /\ message = NoData /\ announced = NoData
          /\ len_read = 0 /\ start = 0 /\ finished = TRUE /\ data_opened = FALSE
          /\ cut = FALSE
      BY DEF ChangesInit, Init
    <3>3. 0 \in 0..header.len /\ 0 \in 0..Len(stream)
      BY <2>3, <3>1, <3>2
    <3> QED
      BY <2>2, <3>2, <3>3 DEF DataType
  <2>6. CallType
    BY <2>2 DEF ChangesInit, Init, CallType, Returns, Results
  <2> QED
    BY <2>4, <2>5, <2>6 DEF TypeInv
<1>2. DInv /\ TypeInv /\ [ChangesNext]_changesVars => TypeInv'
  BY CountStep, DataTypeStep, CallTypeStep DEF DInv, IInv, DataInv, TypeInv
<1>3. DInv /\ ParsedInv /\ TypeInv => TypeOK
  <2> SUFFICES ASSUME DInv, ParsedInv, TypeInv PROVE TypeOK
    OBVIOUS
  <2>1. InputTypeOK
    BY DEF InputTypeOK, DInv, IInv, StreamInv, TypeInv, CountType
  <2>2. /\ lines \in Seq(Seq(Bytes)) /\ unread \in BOOLEAN
        /\ seen \in Seq(Nat) /\ taken \in Seq(Nat)
    BY DEF DInv, IInv, BufferInv
  <2>3. parsed.arg \in Seq(Bytes) /\ parsed.value.fields \in Seq(Seq(Bytes))
    <3>1. CASE parsed = NotParsed
      BY <3>1, EmptySeq DEF NotParsed, Err, Value
    <3>2. CASE parsed # NotParsed
      BY <3>2, TypedParse DEF ParsedInv, Typed
    <3> QED
      BY <3>1, <3>2
  <2>4. CallType
    BY DEF TypeInv
  <2>5. DataType /\ faults \in 0..MaxFaults
    BY DEF TypeInv, CountType
  <2> HIDE DEF DInv, TypeInv, ParsedInv
  <2> QED
    BY <2>1, <2>2, <2>3, <2>4, <2>5 DEF TypeOK, CallType, DataType, ViewType, Returns
<1> QED
  BY <1>1, <1>2, <1>3, DataInvariant, ParsedInvariant, PTL DEF ChangesSpec

-----------------------------------------------------------------------------
(* Numbers, written and read.                                                *)

\* The numbers of the prefixes of a sequence of digits.
LEMMA AccumulatedFacts ==
    ASSUME NEW s, Len(s) \in Nat, NEW radix
    PROVE  /\ Accumulated(s, radix)[0] = 0
           /\ \A k \in 1..Len(s) : Accumulated(s, radix)[k] =
                radix * Accumulated(s, radix)[k - 1] + Digits[s[k]]
<1> DEFINE Step(f, k) == IF k = 0 THEN 0 ELSE radix * f[k - 1] + Digits[s[k]]
           Exists(n) == \E f : f = [k \in 0..n |-> Step(f, k)]
<1>1. Exists(0)
  <2> DEFINE g == [k \in 0..0 |-> 0]
  <2>1. g = [k \in 0..0 |-> Step(g, k)]
    OBVIOUS
  <2> QED
    BY <2>1
<1>2. ASSUME NEW n \in Nat, n > 0, Exists(n - 1) PROVE Exists(n)
  <2>1. PICK f : f = [k \in 0..(n - 1) |-> Step(f, k)]
    BY <1>2
  <2> DEFINE g == [k \in 0..n |-> IF k = n THEN radix * f[n - 1] + Digits[s[n]] ELSE f[k]]
  <2>2. ASSUME NEW k \in 0..n PROVE g[k] = Step(g, k)
    <3>1. CASE k = n
      <4>1. n - 1 \in 0..n /\ n - 1 # n /\ g[n - 1] = f[n - 1]
        BY <1>2
      <4> QED
        BY <1>2, <3>1, <4>1
    <3>2. CASE k = 0
      <4>1. 0 \in 0..(n - 1) /\ f[0] = 0
        BY <1>2, <2>1
      <4> QED
        BY <1>2, <3>2, <4>1
    <3>3. CASE k # n /\ k # 0
      <4>1. k \in 0..(n - 1) /\ k - 1 \in 0..(n - 1) /\ k \in 0..n /\ k - 1 \in 0..n
            /\ k - 1 # n
        BY <3>3
      <4>2. g[k] = f[k] /\ g[k - 1] = f[k - 1]
        BY <3>3, <4>1
      <4>3. f[k] = radix * f[k - 1] + Digits[s[k]]
        BY <2>1, <3>3, <4>1
      <4> QED
        BY <3>3, <4>2, <4>3
    <3> QED
      BY <3>1, <3>2, <3>3
  <2>3. g = [k \in 0..n |-> Step(g, k)]
    BY <2>2
  <2> HIDE DEF g
  <2> QED
    BY <2>3
<1> HIDE DEF Exists
<1>3. \A n \in Nat : Exists(n)
  <2> SUFFICES ASSUME NEW bad \in Nat, ~Exists(bad) PROVE FALSE
    OBVIOUS
  <2> DEFINE T == {n \in Nat : ~Exists(n)}
  <2>1. PICK n \in T : \A m \in T : n <= m
    BY LeastNumber
  <2>2. n \in Nat /\ ~Exists(n) /\ n # 0
    BY <1>1, <2>1
  <2>3. n - 1 \in Nat /\ n - 1 \notin T
    BY <2>1, <2>2
  <2> QED
    BY <1>2, <2>2, <2>3
<1>4. Exists(Len(s))
  BY <1>3
<1>5. Accumulated(s, radix) = [k \in 0..Len(s) |-> Step(Accumulated(s, radix), k)]
  BY <1>4 DEF Exists, Accumulated
<1>6. 0 \in 0..Len(s)
  OBVIOUS
<1>7. Accumulated(s, radix)[0] = 0
  BY <1>5, <1>6
<1>8. ASSUME NEW k \in 1..Len(s)
      PROVE  Accumulated(s, radix)[k] = radix * Accumulated(s, radix)[k - 1] + Digits[s[k]]
  <2>1. k \in 0..Len(s) /\ k # 0
    OBVIOUS
  <2> QED
    BY <1>5, <2>1
<1> QED
  BY <1>7, <1>8

\* Digits stand for the numbers up to 9, each of which has one.
LEMMA DigitFacts ==
    /\ \A d \in DOMAIN Digits : Digits[d] \in 0..9
    /\ \A n \in 0..9 : \E d \in DOMAIN Digits : Digits[d] = n
<1>1. DOMAIN Digits = {"0", "1", "2", "3", "4", "5", "6", "7", "8", "9"}
  BY DEF Digits
<1>2. /\ Digits["0"] = 0 /\ Digits["1"] = 1 /\ Digits["2"] = 2 /\ Digits["3"] = 3
      /\ Digits["4"] = 4 /\ Digits["5"] = 5 /\ Digits["6"] = 6 /\ Digits["7"] = 7
      /\ Digits["8"] = 8 /\ Digits["9"] = 9
  BY DEF Digits
<1> QED
  BY <1>1, <1>2

\* A prefix of digits stands for the same numbers.
LEMMA AccumulatedPrefix ==
    ASSUME NEW s, Len(s) \in Nat, NEW t, Len(t) \in Nat, Len(t) <= Len(s),
           \A k \in 1..Len(t) : s[k] = t[k], NEW radix
    PROVE  \A k \in 0..Len(t) : Accumulated(s, radix)[k] = Accumulated(t, radix)[k]
<1> SUFFICES ASSUME NEW f, f = Accumulated(s, radix), NEW g, g = Accumulated(t, radix),
                    NEW bad \in 0..Len(t), f[bad] # g[bad]
             PROVE  FALSE
  BY Zenon
<1> DEFINE T == {k \in 0..Len(t) : f[k] # g[k]}
<1>0. T # {} /\ T \subseteq Nat
  <2>1. bad \in T
    OBVIOUS
  <2> QED
    BY <2>1
<1>1. PICK n \in T : \A m \in T : n <= m
  <2> HIDE DEF T
  <2> QED
    BY <1>0, LeastNumber
<1>2. n \in 0..Len(t) /\ f[n] # g[n]
  BY <1>1
<1>3. f[0] = g[0]
  BY AccumulatedFacts
<1>4. n \in 1..Len(t) /\ n \in 1..Len(s) /\ n - 1 \in 0..Len(t) /\ n - 1 \notin T
  BY <1>1, <1>2, <1>3
<1>5. f[n - 1] = g[n - 1] /\ s[n] = t[n]
  BY <1>4
<1>6. f[n] = radix * f[n - 1] + Digits[s[n]] /\ g[n] = radix * g[n - 1] + Digits[t[n]]
  BY <1>4, AccumulatedFacts
<1> QED
  BY <1>2, <1>5, <1>6

\* The digits of a number are that of the number without its last one, and that.
LEMMA DecimalFacts ==
    ASSUME NEW n \in 0..U32_MAX
    PROVE  \E d \in DOMAIN Digits :
             /\ Digits[d] = n % 10
             /\ n < 10 => Decimal[n] = <<d>>
             /\ n >= 10 => Decimal[n] = Decimal[n \div 10] \o <<d>>
<1> DEFINE Digit(m) == <<CHOOSE d \in DOMAIN Digits : Digits[d] = m % 10>>
           Step(f, m) == IF m < 10 THEN Digit(m) ELSE f[m \div 10] \o Digit(m)
           Exists(N) == \E f : f = [m \in 0..N |-> Step(f, m)]
<1>0. U32_MAX \in Nat
  BY ArgumentsAssumption
<1>1. Exists(0)
  <2> DEFINE g == [m \in 0..0 |-> Digit(m)]
  <2>1. g = [m \in 0..0 |-> Step(g, m)]
    OBVIOUS
  <2> QED
    BY <2>1
<1>2. ASSUME NEW N \in Nat, N > 0, Exists(N - 1) PROVE Exists(N)
  <2>1. PICK f : f = [m \in 0..(N - 1) |-> Step(f, m)]
    BY <1>2
  <2> DEFINE g == [m \in 0..N |-> IF m = N THEN Step(f, N) ELSE f[m]]
  <2>2. ASSUME NEW m \in 0..N PROVE g[m] = Step(g, m)
    <3>1. m >= 10 => m \div 10 \in 0..N /\ m \div 10 # N /\ m \div 10 \in 0..(N - 1)
      BY <1>2
    <3>2. m >= 10 => g[m \div 10] = f[m \div 10]
      BY <3>1
    <3>3. Step(g, m) = Step(f, m)
      <4>1. CASE m < 10
        BY <4>1
      <4>2. CASE m >= 10
        BY <3>2, <4>2
      <4> QED
        BY <4>1, <4>2
    <3>4. CASE m = N
      BY <3>3, <3>4
    <3>5. CASE m # N
      <4>1. m \in 0..(N - 1)
        BY <3>5
      <4>2. f[m] = Step(f, m)
        BY <2>1, <4>1
      <4> QED
        BY <3>3, <3>5, <4>2
    <3> QED
      BY <3>4, <3>5
  <2>3. g = [m \in 0..N |-> Step(g, m)]
    BY <2>2
  <2> HIDE DEF g
  <2> QED
    BY <2>3
<1> HIDE DEF Exists
<1>3. ASSUME NEW bad \in Nat, ~Exists(bad) PROVE FALSE
  <2> DEFINE T == {N \in Nat : ~Exists(N)}
  <2>1. PICK N \in T : \A m \in T : N <= m
    BY <1>3, LeastNumber
  <2>2. N \in Nat /\ ~Exists(N) /\ N # 0
    BY <1>1, <2>1
  <2>3. N - 1 \in Nat /\ N - 1 \notin T
    BY <2>1, <2>2
  <2> QED
    BY <1>2, <2>2, <2>3
<1>4. Exists(U32_MAX)
  BY <1>0, <1>3
<1>5. Decimal = [m \in 0..U32_MAX |-> Step(Decimal, m)]
  BY <1>4 DEF Exists, Decimal
<1>6. Decimal[n] = Step(Decimal, n)
  BY <1>5
<1>7. n % 10 \in 0..9
  BY <1>0
<1>8. PICK d : d \in DOMAIN Digits /\ Digits[d] = n % 10 /\ Digit(n) = <<d>>
  BY <1>7, DigitFacts
<1>9. n < 10 => Decimal[n] = <<d>>
  BY <1>6, <1>8
<1>10. n >= 10 => Decimal[n] = Decimal[n \div 10] \o <<d>>
  <2>1. n >= 10 => ~(n < 10)
    BY <1>0
  <2> QED
    BY <1>6, <1>8, <2>1
<1> HIDE DEF Digit, Step
<1> QED
  BY <1>8, <1>9, <1>10

IsDigits(s) == s \in Seq(DOMAIN Digits) /\ s # <<>>

\* A byte after a sequence.
LEMMA OneMore ==
    ASSUME NEW S, NEW t \in Seq(S), NEW d
    PROVE  /\ Len(t) \in Nat /\ Len(t \o <<d>>) = Len(t) + 1
           /\ (t \o <<d>>)[Len(t) + 1] = d
           /\ \A k \in 1..Len(t) : (t \o <<d>>)[k] = t[k]
           /\ t \o <<d>> # <<>>
           /\ d \in S => t \o <<d>> \in Seq(S)
<1>1. Len(t) \in Nat
  BY LenProperties
<1>2. t \in Seq(S \cup {d}) /\ <<d>> \in Seq(S \cup {d}) /\ Len(<<d>>) = 1 /\ <<d>>[1] = d
  OBVIOUS
<1>3. /\ Len(t \o <<d>>) = Len(t) + 1
      /\ \A k \in 1..Len(t) + 1 :
           (t \o <<d>>)[k] = IF k <= Len(t) THEN t[k] ELSE <<d>>[k - Len(t)]
  BY <1>2, ConcatProperties
<1>4. (t \o <<d>>)[Len(t) + 1] = d
  BY <1>1, <1>2, <1>3
<1>5. \A k \in 1..Len(t) : (t \o <<d>>)[k] = t[k]
  BY <1>1, <1>3
<1>6. t \o <<d>> # <<>>
  BY <1>1, <1>3, EmptySeq
<1>7. d \in S => t \o <<d>> \in Seq(S)
  BY ConcatProperties
<1> QED
  BY <1>1, <1>3, <1>4, <1>5, <1>6, <1>7

\* A digit after others is added to ten times what they stand for.
LEMMA OneMoreDigit ==
    ASSUME NEW t, IsDigits(t), NEW d \in DOMAIN Digits
    PROVE  /\ IsDigits(t \o <<d>>)
           /\ Accumulated(t \o <<d>>, 10)[Len(t \o <<d>>)] =
                10 * Accumulated(t, 10)[Len(t)] + Digits[d]
<1>1. ASSUME NEW s, Len(t) \in Nat, Len(s) = Len(t) + 1, s[Len(t) + 1] = d,
             \A k \in 1..Len(t) : s[k] = t[k]
      PROVE  Accumulated(s, 10)[Len(s)] = 10 * Accumulated(t, 10)[Len(t)] + Digits[d]
  <2>1. /\ Len(s) \in Nat /\ Len(t) <= Len(s) /\ Len(t) \in 0..Len(t)
        /\ Len(s) \in 1..Len(s) /\ Len(s) - 1 = Len(t)
    BY <1>1
  <2>2. \A k \in 0..Len(t) : Accumulated(s, 10)[k] = Accumulated(t, 10)[k]
    BY <1>1, <2>1, AccumulatedPrefix
  <2>3. \A k \in 1..Len(s) :
          Accumulated(s, 10)[k] = 10 * Accumulated(s, 10)[k - 1] + Digits[s[k]]
    BY <2>1, AccumulatedFacts
  <2> QED
    BY <1>1, <2>1, <2>2, <2>3
<1>2. /\ Len(t) \in Nat /\ Len(t \o <<d>>) = Len(t) + 1
      /\ (t \o <<d>>)[Len(t) + 1] = d
      /\ \A k \in 1..Len(t) : (t \o <<d>>)[k] = t[k]
      /\ IsDigits(t \o <<d>>)
  BY OneMore DEF IsDigits
<1> QED
  BY <1>1, <1>2, Zenon

\* A number in decimal stands for itself.
LEMMA DecimalReadsBack ==
    ASSUME NEW n \in 0..U32_MAX
    PROVE  IsDigits(Decimal[n]) /\ Accumulated(Decimal[n], 10)[Len(Decimal[n])] = n
<1> DEFINE Good(m) == /\ IsDigits(Decimal[m])
                      /\ Accumulated(Decimal[m], 10)[Len(Decimal[m])] = m
           T == {m \in 0..U32_MAX : ~Good(m)}
<1>0. U32_MAX \in Nat
  BY ArgumentsAssumption
<1>1. ASSUME NEW m \in 0..U32_MAX, \A k \in 0..U32_MAX : k < m => Good(k) PROVE Good(m)
  <2>1. PICK d \in DOMAIN Digits :
          /\ Digits[d] = m % 10
          /\ m < 10 => Decimal[m] = <<d>>
          /\ m >= 10 => Decimal[m] = Decimal[m \div 10] \o <<d>>
    BY DecimalFacts
  <2>2. CASE m < 10
    <3>1. Decimal[m] = <<d>> /\ m % 10 = m
      BY <1>0, <2>1, <2>2
    <3>2. Len(<<d>>) = 1 /\ <<d>>[1] = d /\ <<d>> \in Seq(DOMAIN Digits) /\ <<d>> # <<>>
      OBVIOUS
    <3>3. Accumulated(<<d>>, 10)[1] = 10 * Accumulated(<<d>>, 10)[0] + Digits[d]
          /\ Accumulated(<<d>>, 10)[0] = 0
      BY <3>2, AccumulatedFacts
    <3>4. Accumulated(<<d>>, 10)[1] = m
      BY <2>1, <3>1, <3>3
    <3> QED
      BY <3>1, <3>2, <3>4 DEF IsDigits
  <2>3. CASE m >= 10
    <3>1. /\ m \div 10 \in 0..U32_MAX /\ m \div 10 < m
          /\ 10 * (m \div 10) + (m % 10) = m
      <4>1. m \in Nat /\ m <= U32_MAX
        BY <1>0
      <4>2. m \div 10 \in Nat /\ m \div 10 < m
        BY <2>3, <4>1
      <4>3. 10 * (m \div 10) + (m % 10) = m
        BY <4>1
      <4> QED
        BY <1>0, <4>1, <4>2, <4>3
    <3>2. /\ IsDigits(Decimal[m \div 10])
          /\ Accumulated(Decimal[m \div 10], 10)[Len(Decimal[m \div 10])] = m \div 10
      BY <1>1, <3>1
    <3>3. Decimal[m] = Decimal[m \div 10] \o <<d>>
      BY <2>1, <2>3
    <3>4. /\ IsDigits(Decimal[m])
          /\ Accumulated(Decimal[m], 10)[Len(Decimal[m])] = 10 * (m \div 10) + Digits[d]
      BY <3>2, <3>3, OneMoreDigit
    <3> QED
      BY <2>1, <3>1, <3>4
  <2> QED
    BY <1>0, <2>2, <2>3
<1> HIDE DEF Good
<1>2. ASSUME ~Good(n) PROVE FALSE
  <2>1. T \subseteq Nat /\ n \in T
    BY <1>0, <1>2
  <2>2. PICK m \in T : \A k \in T : m <= k
    <3> HIDE DEF T
    <3> QED
      BY <2>1, LeastNumber
  <2>3. m \in 0..U32_MAX /\ ~Good(m)
    BY <2>2
  <2>4. \A k \in 0..U32_MAX : k < m => Good(k)
    BY <1>0, <2>2, <2>3
  <2> QED
    BY <1>1, <2>3, <2>4
<1> QED
  BY <1>2 DEF Good

\* ... and is parsed as itself.
LEMMA DecimalParsed ==
    ASSUME NEW n \in 0..U32_MAX
    PROVE  \A kind, e : Number(kind, Decimal[n], U32_MAX, e) = Value(kind, n, <<>>)
<1> SUFFICES ASSUME NEW s, s = Decimal[n]
             PROVE  ParseRadix(s, 10, U32_MAX) = n
  <2>1. n # -1
    BY ArgumentsAssumption
  <2> QED
    BY <2>1 DEF Number, ParseInt
<1>1. /\ s \in Seq(DOMAIN Digits) /\ s # <<>>
      /\ Accumulated(s, 10)[Len(s)] = n
  BY DecimalReadsBack DEF IsDigits
<1>2. \A k \in DOMAIN s : s[k] \in DOMAIN Digits /\ Digits[s[k]] < 10
  <2>1. \A k \in DOMAIN s : s[k] \in DOMAIN Digits
    BY <1>1
  <2>2. \A m \in 0..9 : m < 10
    OBVIOUS
  <2> QED
    BY <2>1, <2>2, DigitFacts
<1> QED
  BY <1>1, <1>2 DEF ParseRadix

-----------------------------------------------------------------------------
(* Options, written and read.                                                *)

\* A byte before a sequence.
LEMMA OneBefore ==
    ASSUME NEW S, NEW t \in Seq(S), NEW d \in S
    PROVE  /\ <<d>> \o t \in Seq(S) /\ <<d>> \o t # <<>>
           /\ Head(<<d>> \o t) = d /\ Tail(<<d>> \o t) = t /\ After(<<d>> \o t, 1) = t
           /\ IsPrefix(<<d>>, <<d>> \o t)
<1>1. /\ <<d>> \in Seq(S) /\ Len(<<d>>) = 1 /\ <<d>>[1] = d
      /\ Len(t) \in Nat
  BY LenProperties
<1> SUFFICES ASSUME NEW w, w = <<d>> \o t
             PROVE  /\ w \in Seq(S) /\ w # <<>> /\ Head(w) = d /\ Tail(w) = t
                    /\ After(w, 1) = t /\ IsPrefix(<<d>>, w)
  BY Zenon
<1>2. /\ w \in Seq(S) /\ Len(w) = 1 + Len(t)
      /\ \A k \in 1..1 + Len(t) : w[k] = IF k <= 1 THEN <<d>>[k] ELSE t[k - 1]
  BY <1>1, ConcatProperties
<1>3. w # <<>> /\ w[1] = d /\ Len(w) >= 1 /\ Len(w) \in Nat
  BY <1>1, <1>2, EmptySeq
<1>4. Head(w) = d
  BY <1>2, <1>3
<1>5. Tail(w) = t
  <2>1. /\ Tail(w) \in Seq(S) /\ Len(Tail(w)) = Len(w) - 1
        /\ \A k \in 1..Len(Tail(w)) : Tail(w)[k] = w[k + 1]
    BY <1>2, <1>3, HeadTailProperties
  <2>2. Len(Tail(w)) = Len(t)
    BY <1>1, <1>2, <2>1
  <2>3. ASSUME NEW k \in 1..Len(t) PROVE Tail(w)[k] = t[k]
    <3>1. k + 1 \in 1..1 + Len(t) /\ ~(k + 1 <= 1) /\ k + 1 - 1 = k
      BY <1>1
    <3>2. w[k + 1] = t[k]
      BY <1>2, <3>1
    <3> QED
      BY <2>1, <2>2, <3>2
  <2> QED
    BY <2>1, <2>2, <2>3, SeqEqual
<1>6. After(w, 1) = Tail(w)
  BY <1>2, <1>3, TailIsSubSeq DEF After
<1>7. IsPrefix(<<d>>, w)
  <2>1. SubSeq(<<d>>, 1, 1) = <<d>>
    BY <1>1, SubSeqFull
  <2>2. SubSeq(w, 1, 1) = <<d>>
    <3>1. /\ SubSeq(w, 1, 1) \in Seq(S) /\ Len(SubSeq(w, 1, 1)) = 1
          /\ SubSeq(w, 1, 1)[1] = w[1]
      <4>1. \A k \in 1..1 : w[k] \in S
        BY <1>3
      <4> QED
        BY <4>1, SubSeqProperties
    <3>2. ASSUME NEW i \in 1..1 PROVE SubSeq(w, 1, 1)[i] = <<d>>[i]
      BY <1>1, <1>3, <3>1
    <3> QED
      BY <1>1, <3>1, <3>2, SeqEqual
  <2> QED
    BY <1>1, <1>3, <2>1, <2>2 DEF IsPrefix
<1> QED
  BY <1>2, <1>3, <1>4, <1>5, <1>6, <1>7

\* The key of an option of git, and the rest of it, as they are written.
LEMMA GitOption ==
    ASSUME NEW S, NEW x \in Seq(S), NEW key, NEW git
    PROVE  LET s == <<git, key>> \o x
               t == <<key>> \o x
           IN  /\ IsPrefix(<<git>>, s) /\ Tail(s) = t
               /\ t # <<>> /\ Head(t) = key /\ After(t, 1) = x
<1> DEFINE T == S \cup {git, key}
<1>1. x \in Seq(T) /\ key \in T /\ git \in T /\ <<git>> \in Seq(T) /\ <<key>> \in Seq(T)
  OBVIOUS
<1>2. <<git, key>> = <<git>> \o <<key>>
  OBVIOUS
<1> HIDE DEF T
<1>3. <<git, key>> \o x = <<git>> \o (<<key>> \o x)
  <2>1. \A a, b, c \in Seq(T) : (a \o b) \o c = a \o (b \o c)
    BY ConcatAssociative
  <2>2. ASSUME NEW p \in Seq(T), NEW q \in Seq(T), NEW r, r = p \o q
        PROVE  r \o x = p \o (q \o x)
    <3>1. x \in Seq(T)
      BY <1>1
    <3> QED
      BY <2>1, <2>2, <3>1, Zenon
  <2> QED
    BY <1>1, <1>2, <2>2
<1>4. <<key>> \o x \in Seq(T)
  BY <1>1, ConcatProperties
<1>5. /\ IsPrefix(<<git>>, <<git>> \o (<<key>> \o x))
      /\ Tail(<<git>> \o (<<key>> \o x)) = <<key>> \o x
  BY <1>1, <1>4, OneBefore, Zenon
<1>6. <<key>> \o x # <<>> /\ Head(<<key>> \o x) = key /\ After(<<key>> \o x, 1) = x
  BY <1>1, OneBefore, Zenon
<1> QED
  BY <1>3, <1>5, <1>6, Zenon

\* What is parsed of an option of git that is dumped.
LEMMA DumpedOption ==
    ASSUME NEW S, NEW x \in Seq(S), NEW key
    PROVE  OptionCommand(<<"git ", key>> \o x) =
             IF key \in SizeOptions THEN FileSize(key, x)
             ELSE IF key \in IntOptions THEN Number(key, x, U32_MAX, "InvalidOptionInt")
             ELSE IF key = "export-pack-edges=" THEN Value(key, 0, <<x>>)
             ELSE IF key \in FlagOptions /\ x = <<>> THEN Value(key, 0, <<>>)
             ELSE Err("UnrecognizedCommand")
<1> DEFINE s == <<"git ", key>> \o x
           t == <<key>> \o x
<1>1. /\ IsPrefix(<<"git ">>, s) /\ Tail(s) = t
      /\ t # <<>> /\ Head(t) = key /\ After(t, 1) = x
  BY GitOption, Zenon
<1> HIDE DEF s, t
<1>2. OptionCommand(s) = OptionGit(t) /\ Keyword(t) = key
  BY <1>1, Zenon DEF OptionCommand, Keyword
<1> QED
  BY <1>1, <1>2, Zenon DEF OptionGit, s

\* The size of a file, with its unit.
Sized(key, n, unit) == [Value(key, n, <<>>) EXCEPT !.unit = unit]

\* The end of a sequence, and what is before it.
LEMMA FrontOneMore ==
    ASSUME NEW S, NEW t \in Seq(S), t # <<>>, NEW c
    PROVE  Last(t \o <<c>>) = c /\ Front(t \o <<c>>) = t
<1>1. /\ Len(t) \in Nat /\ Len(t \o <<c>>) = Len(t) + 1 /\ (t \o <<c>>)[Len(t) + 1] = c
  BY OneMore
<1>2. Len(t \o <<c>>) - 1 = Len(t) /\ Len(t) \in 1..Len(t)
  BY <1>1, EmptySeq, LenProperties
<1>3. 1 \in 1..Len(t)
  BY <1>1, <1>2
<1>4. \A T, a, b : a \in Seq(T) /\ b \in Seq(T) /\ Len(a) \in 1..Len(a) /\ 1 \in 1..Len(a) =>
        SubSeq(a \o b, 1, Len(a)) = a
  BY SubSeqOfConcat1, SubSeqFull
<1>5. t \in Seq(S \cup {c}) /\ <<c>> \in Seq(S \cup {c})
  OBVIOUS
<1>6. SubSeq(t \o <<c>>, 1, Len(t)) = t
  BY <1>2, <1>3, <1>4, <1>5
<1> QED
  BY <1>1, <1>2, <1>6 DEF Front, Last

\* The unit of a size: none, or the byte after its digits.
LEMMA SizeWithUnit ==
    ASSUME NEW n \in 0..U32_MAX, NEW key, NEW t, t = Decimal[n]
    PROVE  /\ FileSize(key, t) = Value(key, n, <<>>)
           /\ \A c \in DOMAIN Units : FileSize(key, t \o <<c>>) = Sized(key, n, Units[c])
<1>1. t \in Seq(DOMAIN Digits) /\ t # <<>>
  BY DecimalReadsBack DEF IsDigits
<1>2. DOMAIN Digits \cap DOMAIN Units = {}
  BY DEF Digits, Units
<1>3. \A e : Number(key, t, U32_MAX, e) = Value(key, n, <<>>)
  BY DecimalParsed
<1>4. Last(t) \notin DOMAIN Units
  <2>1. Len(t) \in 1..Len(t)
    BY <1>1, EmptySeq, LenProperties
  <2>2. t[Len(t)] \in DOMAIN Digits
    BY <1>1, <2>1, ElementOfSeq
  <2> QED
    BY <1>2, <2>2 DEF Last
<1>5. FileSize(key, t) = Value(key, n, <<>>)
  BY <1>3, <1>4, Zenon DEF FileSize
<1>6. ASSUME NEW c \in DOMAIN Units
      PROVE  FileSize(key, t \o <<c>>) = Sized(key, n, Units[c])
  <2>1. t \o <<c>> # <<>>
    BY <1>1, OneMore
  <2>2. Last(t \o <<c>>) = c
    BY <1>1, FrontOneMore
  <2>3. Front(t \o <<c>>) = t
    BY <1>1, FrontOneMore
  <2>4. Value(key, n, <<>>).kind = key
    BY DEF Value
  <2> HIDE DEF Sized
  <2> QED
    BY <1>3, <2>1, <2>2, <2>3, <2>4, Zenon DEF FileSize, Sized
<1> QED
  BY <1>5, <1>6

\* A size that is dumped is parsed as itself.
LEMMA SizeReadsBack ==
    ASSUME NEW n \in 0..U32_MAX, NEW key, NEW unit \in {"B", "K", "M", "G"}
    PROVE  /\ FileSize(key, DumpFileSize(Sized(key, n, unit))) = Sized(key, n, unit)
           /\ DumpFileSize(Sized(key, n, unit)) \in Seq(DOMAIN Digits \cup DOMAIN Units)
<1> SUFFICES ASSUME NEW t, t = Decimal[n]
             PROVE  /\ FileSize(key, DumpFileSize(Sized(key, n, unit))) = Sized(key, n, unit)
                    /\ DumpFileSize(Sized(key, n, unit)) \in Seq(DOMAIN Digits \cup DOMAIN Units)
  OBVIOUS
<1>1. t \in Seq(DOMAIN Digits)
  BY DecimalReadsBack DEF IsDigits
<1>2. Sized(key, n, unit).num = n /\ Sized(key, n, unit).unit = unit
  BY DEF Sized, Value
<1>3. /\ FileSize(key, t) = Value(key, n, <<>>)
      /\ \A c \in DOMAIN Units : FileSize(key, t \o <<c>>) = Sized(key, n, Units[c])
  BY SizeWithUnit
<1>4. t \in Seq(DOMAIN Digits \cup DOMAIN Units)
  BY <1>1
<1>5. CASE unit = "B"
  <2>1. DumpFileSize(Sized(key, n, unit)) = t \o <<>>
    BY <1>2, <1>5 DEF DumpFileSize
  <2>2. t \o <<>> = t
    BY <1>1, ConcatEmptySeq
  <2>3. Sized(key, n, unit) = Value(key, n, <<>>)
    BY <1>5 DEF Sized, Value
  <2> QED
    BY <1>3, <1>4, <2>1, <2>2, <2>3
<1>6. ASSUME NEW c \in DOMAIN Units, Units[c] = unit,
             DumpFileSize(Sized(key, n, unit)) = t \o <<c>>
      PROVE  /\ FileSize(key, DumpFileSize(Sized(key, n, unit))) = Sized(key, n, unit)
             /\ DumpFileSize(Sized(key, n, unit)) \in Seq(DOMAIN Digits \cup DOMAIN Units)
  <2>1. t \o <<c>> \in Seq(DOMAIN Digits \cup DOMAIN Units)
    BY <1>4, OneMore
  <2> QED
    BY <1>3, <1>6, <2>1
<1>7. /\ "k" \in DOMAIN Units /\ Units["k"] = "K" /\ "m" \in DOMAIN Units /\ Units["m"] = "M"
      /\ "g" \in DOMAIN Units /\ Units["g"] = "G"
  BY DEF Units
<1>8. CASE unit = "K"
  BY <1>2, <1>6, <1>7, <1>8 DEF DumpFileSize
<1>9. CASE unit = "M"
  BY <1>2, <1>6, <1>7, <1>9 DEF DumpFileSize
<1>10. CASE unit = "G"
  BY <1>2, <1>6, <1>7, <1>10 DEF DumpFileSize
<1> QED
  BY <1>5, <1>8, <1>9, <1>10

\* A number that is accepted, and a size.
LEMMA AcceptedNumbers ==
    ASSUME NEW key \in SizeOptions \cup IntOptions, NEW t
    PROVE  /\ ~Failing(Number(key, t, U32_MAX, "InvalidOptionInt")) =>
                \E n \in 0..U32_MAX :
                    Number(key, t, U32_MAX, "InvalidOptionInt") = Value(key, n, <<>>)
           /\ ~Failing(FileSize(key, t)) =>
                \E n \in 0..U32_MAX, unit \in {"B", "K", "M", "G"} :
                    FileSize(key, t) = Sized(key, n, unit)
<1>1. /\ "InvalidOptionInt" \in ArgErrors /\ "InvalidOptionFileSize" \in ArgErrors
      /\ "InvalidOptionInt" # key /\ "InvalidOptionFileSize" # key
  BY DEF ArgErrors, SizeOptions, IntOptions
<1>2. \A e \in ArgErrors : Failing(Err(e)) /\ Err(e).kind = e
  BY DEF Failing, Err, Value
<1>3. ASSUME NEW u, NEW e
      PROVE  \/ Number(key, u, U32_MAX, e) = Err(e)
             \/ \E n \in 0..U32_MAX : Number(key, u, U32_MAX, e) = Value(key, n, <<>>)
  <2>1. ParseInt(u, U32_MAX) \in 0..U32_MAX \cup {-1}
    <3> SUFFICES ASSUME NEW n, n = Accumulated(u, 10)[Len(u)], NEW good \in BOOLEAN,
                        ParseRadix(u, 10, U32_MAX) = IF good /\ n \in 0..U32_MAX
                                                     THEN n ELSE -1
                 PROVE  ParseRadix(u, 10, U32_MAX) \in 0..U32_MAX \cup {-1}
      BY Zenon DEF ParseInt, ParseRadix
    <3> QED
      OBVIOUS
  <2> QED
    BY <2>1, Zenon DEF Number
<1>4. \A n : /\ Value(key, n, <<>>).kind = key /\ Value(key, n, <<>>) = Sized(key, n, "B")
             /\ \A c : [Value(key, n, <<>>) EXCEPT !.unit = Units[c]] = Sized(key, n, Units[c])
  BY DEF Value, Sized
<1>5. \A c \in DOMAIN Units : Units[c] \in {"B", "K", "M", "G"}
  BY DEF Units
<1>6. ~Failing(Number(key, t, U32_MAX, "InvalidOptionInt")) =>
        \E n \in 0..U32_MAX :
            Number(key, t, U32_MAX, "InvalidOptionInt") = Value(key, n, <<>>)
  BY <1>1, <1>2, <1>3, Zenon
<1>7. ASSUME ~Failing(FileSize(key, t))
      PROVE  \E n \in 0..U32_MAX, unit \in {"B", "K", "M", "G"} :
                FileSize(key, t) = Sized(key, n, unit)
  <2> DEFINE has_unit == t # <<>> /\ Last(t) \in DOMAIN Units
             size == Number(key, IF has_unit THEN Front(t) ELSE t, U32_MAX,
                            "InvalidOptionFileSize")
  <2>1. FileSize(key, t) = IF has_unit /\ size.kind = key
                           THEN [size EXCEPT !.unit = Units[Last(t)]] ELSE size
    BY DEF FileSize
  <2>2. \/ size = Err("InvalidOptionFileSize")
        \/ \E n \in 0..U32_MAX : size = Value(key, n, <<>>)
    BY <1>3, Zenon
  <2>3. has_unit => Last(t) \in DOMAIN Units
    OBVIOUS
  <2> HIDE DEF size, has_unit
  <2>4. size # Err("InvalidOptionFileSize")
    <3>1. ASSUME size = Err("InvalidOptionFileSize") PROVE FALSE
      <4>1. size.kind # key /\ Failing(size)
        BY <1>1, <1>2, <3>1
      <4> QED
        BY <1>7, <2>1, <4>1
    <3> QED
      BY <3>1
  <2>5. PICK n \in 0..U32_MAX : size = Value(key, n, <<>>)
    BY <2>2, <2>4
  <2>6. CASE has_unit
    <3>1. FileSize(key, t) = Sized(key, n, Units[Last(t)])
      BY <1>4, <2>1, <2>5, <2>6
    <3> QED
      BY <1>5, <2>3, <2>6, <3>1
  <2>7. CASE ~has_unit
    BY <1>4, <2>1, <2>5, <2>7
  <2> QED
    BY <2>6, <2>7
<1> QED
  BY <1>6, <1>7

\* The kinds of options.
LEMMA OptionKinds ==
    /\ \A k \in SizeOptions : k \notin IntOptions \cup FlagOptions
                              /\ k # "export-pack-edges=" /\ k # "OptionOther"
    /\ \A k \in IntOptions : k \notin SizeOptions \cup FlagOptions
                             /\ k # "export-pack-edges=" /\ k # "OptionOther"
    /\ \A k \in FlagOptions : k \notin SizeOptions \cup IntOptions
                              /\ k # "export-pack-edges=" /\ k # "OptionOther"
    /\ "export-pack-edges=" \notin SizeOptions \cup IntOptions \cup FlagOptions
    /\ "OptionOther" \notin SizeOptions \cup IntOptions \cup FlagOptions
    /\ "OptionOther" # "export-pack-edges="
BY DEF SizeOptions, IntOptions, FlagOptions

\* What is written of each kind of option.
LEMMA DumpedForms ==
    ASSUME NEW v
    PROVE  /\ v.kind \in SizeOptions => OptionText(v) = <<"git ", v.kind>> \o DumpFileSize(v)
           /\ v.kind \in IntOptions => OptionText(v) = <<"git ", v.kind>> \o Decimal[v.num]
           /\ v.kind \in FlagOptions => OptionText(v) = <<"git ", v.kind>> \o <<>>
           /\ v.kind = "export-pack-edges=" =>
                OptionText(v) = <<"git ", v.kind>> \o v.fields[1]
           /\ v.kind = "OptionOther" => OptionText(v) = v.fields[1]
<1>1. \A a, b : <<a, b>> \o <<>> = <<a, b>>
  <2> SUFFICES ASSUME NEW a, NEW b PROVE <<a, b>> \o <<>> = <<a, b>>
    OBVIOUS
  <2>1. <<a, b>> \in Seq({a, b})
    OBVIOUS
  <2> QED
    BY <2>1, ConcatEmptySeq
<1>2. v.kind \in SizeOptions => OptionText(v) = <<"git ", v.kind>> \o DumpFileSize(v)
  BY OptionKinds DEF OptionText
<1>3. v.kind \in IntOptions => OptionText(v) = <<"git ", v.kind>> \o Decimal[v.num]
  BY OptionKinds DEF OptionText
<1>4. v.kind \in FlagOptions => OptionText(v) = <<"git ", v.kind>>
  BY OptionKinds DEF OptionText
<1>5. v.kind = "export-pack-edges=" => OptionText(v) = <<"git ", v.kind>> \o v.fields[1]
  BY OptionKinds DEF OptionText
<1>6. v.kind = "OptionOther" => OptionText(v) = v.fields[1]
  BY OptionKinds DEF OptionText
<1> QED
  BY <1>1, <1>2, <1>3, <1>4, <1>5, <1>6, Zenon

\* An option that is accepted and dumped is parsed as itself.
LEMMA OptionRoundTrip ==
    ASSUME NEW s \in Seq(Bytes), ~Failing(OptionCommand(s))
    PROVE  OptionCommand(OptionText(OptionCommand(s))) = OptionCommand(s)
<1>1. \A k, n, f : Value(k, n, f).kind = k /\ Value(k, n, f).num = n
                   /\ Value(k, n, f).fields = f
  BY DEF Value
<1>2. ASSUME NEW n \in 0..U32_MAX, NEW key \in SizeOptions, NEW unit \in {"B", "K", "M", "G"}
      PROVE  OptionCommand(OptionText(Sized(key, n, unit))) = Sized(key, n, unit)
  <2>1. Sized(key, n, unit).kind = key
    BY DEF Sized, Value
  <2>2. OptionText(Sized(key, n, unit)) = <<"git ", key>> \o DumpFileSize(Sized(key, n, unit))
    BY <2>1, DumpedForms
  <2> DEFINE x == DumpFileSize(Sized(key, n, unit))
  <2>3. FileSize(key, x) = Sized(key, n, unit) /\ x \in Seq(DOMAIN Digits \cup DOMAIN Units)
    BY SizeReadsBack
  <2> HIDE DEF x
  <2>4. OptionCommand(<<"git ", key>> \o x) = FileSize(key, x)
    BY <2>3, DumpedOption
  <2> QED
    BY <2>2, <2>3, <2>4 DEF x
<1>3. ASSUME NEW n \in 0..U32_MAX, NEW key \in IntOptions, NEW v, v = Value(key, n, <<>>)
      PROVE  OptionCommand(OptionText(v)) = v
  <2>0. v.kind = key /\ v.num = n
    BY <1>1, <1>3
  <2>1. OptionText(v) = <<"git ", key>> \o Decimal[n]
    BY <2>0, DumpedForms
  <2>2. Decimal[n] \in Seq(DOMAIN Digits)
    BY DecimalReadsBack DEF IsDigits
  <2>3. key \notin SizeOptions
    BY OptionKinds
  <2>4. OptionCommand(<<"git ", key>> \o Decimal[n]) =
          Number(key, Decimal[n], U32_MAX, "InvalidOptionInt")
    BY <2>2, <2>3, DumpedOption
  <2> QED
    BY <1>3, <2>1, <2>4, DecimalParsed
<1>4. ASSUME NEW key \in FlagOptions, NEW v, v = Value(key, 0, <<>>)
      PROVE  OptionCommand(OptionText(v)) = v
  <2>1. v.kind = key
    BY <1>1, <1>4
  <2>2. OptionText(v) = <<"git ", key>> \o <<>>
    BY <2>1, DumpedForms
  <2>3. <<>> \in Seq(Bytes)
    BY EmptySeq
  <2> QED
    BY <1>4, <2>2, <2>3, OptionKinds, DumpedOption
<1>5. ASSUME NEW rest \in Seq(Bytes), NEW v, v = Value("export-pack-edges=", 0, <<rest>>)
      PROVE  OptionCommand(OptionText(v)) = v
  <2>1. v.kind = "export-pack-edges=" /\ v.fields[1] = rest
    BY <1>1, <1>5
  <2>2. OptionText(v) = <<"git ", "export-pack-edges=">> \o rest
    BY <2>1, DumpedForms
  <2>3. OptionCommand(<<"git ", "export-pack-edges=">> \o rest) = v
    BY <1>5, OptionKinds, DumpedOption
  <2> QED
    BY <2>2, <2>3
<1>6. CASE ~IsPrefix(<<"git ">>, s)
  <2>1. PICK v : v = OptionCommand(s) /\ v = Value("OptionOther", 0, <<s>>)
    BY <1>6, Zenon DEF OptionCommand
  <2>2. v.kind = "OptionOther" /\ v.fields[1] = s
    BY <1>1, <2>1
  <2>3. OptionText(v) = s
    BY <2>2, DumpedForms
  <2> QED
    BY <2>1, <2>3
<1>7. CASE IsPrefix(<<"git ">>, s)
  <2>1. Tail(s) \in Seq(Bytes) /\ OptionCommand(s) = OptionGit(Tail(s))
    BY <1>7, RestOfLine, Zenon DEF OptionCommand
  <2> SUFFICES ASSUME NEW key, key = Keyword(Tail(s)),
                      NEW rest \in Seq(Bytes), rest = After(Tail(s), 1)
               PROVE  OptionCommand(OptionText(OptionCommand(s))) = OptionCommand(s)
    BY <2>1, Slices
  <2>2. OptionGit(Tail(s)) =
          IF key \in SizeOptions THEN FileSize(key, rest)
          ELSE IF key \in IntOptions THEN Number(key, rest, U32_MAX, "InvalidOptionInt")
          ELSE IF key = "export-pack-edges=" THEN Value(key, 0, <<rest>>)
          ELSE IF key \in FlagOptions /\ rest = <<>> THEN Value(key, 0, <<>>)
          ELSE Err("UnrecognizedCommand")
    BY Zenon DEF OptionGit
  <2>3. CASE key \in SizeOptions
    <3>1. OptionCommand(s) = FileSize(key, rest)
      BY <2>1, <2>2, <2>3
    <3>2. PICK n \in 0..U32_MAX, unit \in {"B", "K", "M", "G"} :
            FileSize(key, rest) = Sized(key, n, unit)
      BY <2>3, <3>1, AcceptedNumbers
    <3> QED
      BY <1>2, <2>3, <3>1, <3>2
  <2>4. CASE key \in IntOptions
    <3>1. OptionCommand(s) = Number(key, rest, U32_MAX, "InvalidOptionInt")
      BY <2>1, <2>2, <2>4, OptionKinds
    <3>2. PICK n \in 0..U32_MAX :
            Number(key, rest, U32_MAX, "InvalidOptionInt") = Value(key, n, <<>>)
      BY <2>4, <3>1, AcceptedNumbers
    <3> QED
      BY <1>3, <2>4, <3>1, <3>2
  <2>5. CASE key = "export-pack-edges="
    <3>1. OptionCommand(s) = Value("export-pack-edges=", 0, <<rest>>)
      BY <2>1, <2>2, <2>5, OptionKinds
    <3> QED
      BY <1>5, <3>1
  <2>6. CASE key \in FlagOptions /\ rest = <<>>
    <3>1. OptionCommand(s) = Value(key, 0, <<>>)
      BY <2>1, <2>2, <2>6, OptionKinds
    <3> QED
      BY <1>4, <2>6, <3>1
  <2>7. CASE ~(\/ key \in SizeOptions \cup IntOptions \/ key = "export-pack-edges="
               \/ key \in FlagOptions /\ rest = <<>>)
    <3>1. OptionCommand(s) = Err("UnrecognizedCommand")
      BY <2>1, <2>2, <2>7
    <3>2. Failing(Err("UnrecognizedCommand"))
      BY DEF Failing, Err, Value, ArgErrors
    <3> QED
      BY <3>1, <3>2
  <2> QED
    BY <2>3, <2>4, <2>5, <2>6, <2>7
<1> QED
  BY <1>6, <1>7

\* The bytes of a line: those of the streams but LF, and those that are written.
NotLF == (Bytes \ {LF}) \cup {"option ", "git ", "export-pack-edges="}
         \cup DOMAIN Digits \cup DOMAIN Units \cup SizeOptions \cup IntOptions
         \cup FlagOptions

\* A line of such bytes holds no LF, and a line of a stream that holds none has such
\* bytes only.
LEMMA LinesWithoutLF ==
    /\ \A x \in Seq(NotLF) : ~Contains(x, LF)
    /\ \A s \in Seq(Bytes) : ~Contains(s, LF) => s \in Seq(NotLF)
<1>1. LF \notin NotLF
  BY KeywordAssumption DEF NotLF
<1>2. ASSUME NEW x \in Seq(NotLF) PROVE ~Contains(x, LF)
  BY <1>1, ElementOfSeq DEF Contains
<1>3. ASSUME NEW s \in Seq(Bytes), ~Contains(s, LF) PROVE s \in Seq(NotLF)
  <2>1. Len(s) \in Nat /\ s \in [1..Len(s) -> Bytes]
    BY LenProperties
  <2>2. \A i \in 1..Len(s) : s[i] \in NotLF
    BY <1>3, <2>1 DEF Contains, NotLF
  <2>3. s \in [1..Len(s) -> NotLF]
    BY <2>1, <2>2
  <2> QED
    BY <2>1, <2>3, IsASeq
<1> QED
  BY <1>2, <1>3

\* What is written of an option that was accepted without an LF has none.
LEMMA OptionTextWithoutLF ==
    ASSUME NEW s \in Seq(Bytes), ~Contains(s, LF), ~Failing(OptionCommand(s))
    PROVE  OptionText(OptionCommand(s)) \in Seq(NotLF)
<1>1. \A k, n, f : Value(k, n, f).kind = k /\ Value(k, n, f).num = n
                   /\ Value(k, n, f).fields = f
  BY DEF Value
<1>2. s \in Seq(NotLF)
  BY LinesWithoutLF
<1>3. ASSUME NEW x \in Seq(NotLF), NEW key \in NotLF
      PROVE  <<"git ", key>> \o x \in Seq(NotLF)
  <2>1. "git " \in NotLF
    BY DEF NotLF
  <2>2. \A S : \A a, b \in S : <<a, b>> \in Seq(S)
    OBVIOUS
  <2>3. <<"git ", key>> \in Seq(NotLF)
    BY <2>1, <2>2, Zenon
  <2> QED
    BY <2>3, ConcatProperties
<1>4. CASE ~IsPrefix(<<"git ">>, s)
  <2>1. PICK v : v = OptionCommand(s) /\ v = Value("OptionOther", 0, <<s>>)
    BY <1>4, Zenon DEF OptionCommand
  <2>2. v.kind = "OptionOther" /\ v.fields[1] = s
    BY <1>1, <2>1
  <2>3. OptionText(v) = s
    BY <2>2, DumpedForms
  <2> QED
    BY <1>2, <2>1, <2>3
<1>5. CASE IsPrefix(<<"git ">>, s)
  <2> DEFINE t == Tail(s)
  <2>1. t \in Seq(NotLF) /\ OptionCommand(s) = OptionGit(t)
    <3>1. Len(<<"git ">>) = 1 /\ Len(<<"git ">>) <= Len(s)
      BY <1>5 DEF IsPrefix
    <3>2. s # <<>>
      BY <3>1, EmptySeq
    <3>3. Tail(s) \in Seq(NotLF)
      BY <1>2, <3>2, HeadTailProperties
    <3> QED
      BY <1>5, <3>3, Zenon DEF OptionCommand
  <2> HIDE DEF t
  <2> SUFFICES ASSUME NEW key, key = Keyword(t), NEW rest, rest = After(t, 1)
               PROVE  OptionText(OptionCommand(s)) \in Seq(NotLF)
    OBVIOUS
  <2>2. OptionGit(t) =
          IF key \in SizeOptions THEN FileSize(key, rest)
          ELSE IF key \in IntOptions THEN Number(key, rest, U32_MAX, "InvalidOptionInt")
          ELSE IF key = "export-pack-edges=" THEN Value(key, 0, <<rest>>)
          ELSE IF key \in FlagOptions /\ rest = <<>> THEN Value(key, 0, <<>>)
          ELSE Err("UnrecognizedCommand")
    BY Zenon DEF OptionGit
  <2>3. /\ DOMAIN Digits \cup DOMAIN Units \subseteq NotLF
        /\ SizeOptions \cup IntOptions \cup FlagOptions \subseteq NotLF
        /\ "export-pack-edges=" \in NotLF
    BY DEF NotLF
  <2>4. CASE key \in SizeOptions
    <3>1. OptionCommand(s) = FileSize(key, rest)
      BY <2>1, <2>2, <2>4
    <3>2. PICK n \in 0..U32_MAX, unit \in {"B", "K", "M", "G"} :
            FileSize(key, rest) = Sized(key, n, unit)
      BY <2>4, <3>1, AcceptedNumbers
    <3>3. Sized(key, n, unit).kind = key
      BY DEF Sized, Value
    <3>4. DumpFileSize(Sized(key, n, unit)) \in Seq(DOMAIN Digits \cup DOMAIN Units)
      BY SizeReadsBack
    <3>5. DumpFileSize(Sized(key, n, unit)) \in Seq(NotLF)
      BY <2>3, <3>4
    <3>6. OptionText(Sized(key, n, unit)) =
            <<"git ", key>> \o DumpFileSize(Sized(key, n, unit))
      BY <2>4, <3>3, DumpedForms
    <3>7. key \in NotLF
      BY <2>3, <2>4
    <3> QED
      BY <1>3, <3>1, <3>2, <3>5, <3>6, <3>7
  <2>5. CASE key \in IntOptions
    <3>1. OptionCommand(s) = Number(key, rest, U32_MAX, "InvalidOptionInt")
      BY <2>1, <2>2, <2>5, OptionKinds
    <3>2. PICK n \in 0..U32_MAX :
            Number(key, rest, U32_MAX, "InvalidOptionInt") = Value(key, n, <<>>)
      BY <2>5, <3>1, AcceptedNumbers
    <3>3. OptionText(Value(key, n, <<>>)) = <<"git ", key>> \o Decimal[n]
      <4>1. PICK v : v = Value(key, n, <<>>)
        OBVIOUS
      <4>2. v.kind = key /\ v.num = n
        BY <1>1, <4>1
      <4> QED
        BY <2>5, <4>1, <4>2, DumpedForms
    <3>4. Decimal[n] \in Seq(DOMAIN Digits)
      BY DecimalReadsBack DEF IsDigits
    <3>5. Decimal[n] \in Seq(NotLF) /\ key \in NotLF
      BY <2>3, <2>5, <3>4
    <3> QED
      BY <1>3, <3>1, <3>2, <3>3, <3>5
  <2>6. CASE key = "export-pack-edges="
    <3>1. OptionCommand(s) = Value(key, 0, <<rest>>)
      BY <2>1, <2>2, <2>6, OptionKinds
    <3>2. t # <<>>
      BY <2>6, Zenon DEF Keyword
    <3>3. rest \in Seq(NotLF)
      BY <2>1, <3>2, HeadTailProperties, TailIsSubSeq DEF After
    <3>4. OptionText(Value(key, 0, <<rest>>)) = <<"git ", key>> \o rest
      <4>1. <<rest>>[1] = rest
        OBVIOUS
      <4>2. PICK v : v = Value(key, 0, <<rest>>)
        OBVIOUS
      <4>3. v.kind = key /\ v.fields[1] = rest
        BY <1>1, <4>1, <4>2
      <4> QED
        BY <2>6, <4>2, <4>3, DumpedForms
    <3> QED
      BY <1>3, <2>3, <2>6, <3>1, <3>3, <3>4
  <2>7. CASE key \in FlagOptions /\ rest = <<>>
    <3>1. OptionCommand(s) = Value(key, 0, <<>>)
      BY <2>1, <2>2, <2>7, OptionKinds
    <3>2. OptionText(Value(key, 0, <<>>)) = <<"git ", key>> \o <<>>
      <4>1. PICK v : v = Value(key, 0, <<>>)
        OBVIOUS
      <4>2. v.kind = key /\ v.num = 0
        BY <1>1, <4>1
      <4> QED
        BY <2>7, <4>1, <4>2, DumpedForms
    <3>3. <<>> \in Seq(NotLF) /\ key \in NotLF
      BY <2>3, <2>7
    <3> QED
      BY <1>3, <3>1, <3>2, <3>3
  <2>8. CASE ~(\/ key \in SizeOptions \cup IntOptions \/ key = "export-pack-edges="
               \/ key \in FlagOptions /\ rest = <<>>)
    <3>1. OptionCommand(s) = Err("UnrecognizedCommand")
      BY <2>1, <2>2, <2>8
    <3>2. Failing(Err("UnrecognizedCommand"))
      BY DEF Failing, Err, Value, ArgErrors
    <3> QED
      BY <3>1, <3>2
  <2> QED
    BY <2>4, <2>5, <2>6, <2>7, <2>8
<1> QED
  BY <1>4, <1>5

\* A text without an LF is written as one line, which is read as that text.
LEMMA DumpedLine ==
    ASSUME NEW x \in Seq(NotLF), NEW dumped, dumped = <<"option ">> \o x \o <<LF>>
    PROVE  /\ Last(dumped) = LF /\ ~Contains(Front(dumped), LF)
           /\ IsPrefix(<<"option ">>, Front(dumped)) /\ Tail(Front(dumped)) = x
<1>1. "option " \in NotLF
  BY DEF NotLF
<1> DEFINE l == <<"option ">> \o x
<1>2. l \in Seq(NotLF) /\ l # <<>> /\ IsPrefix(<<"option ">>, l) /\ Tail(l) = x
  BY <1>1, OneBefore, Zenon
<1>3. dumped = l \o <<LF>>
  OBVIOUS
<1> HIDE DEF l
<1>4. Last(dumped) = LF /\ Front(dumped) = l
  BY <1>2, <1>3, FrontOneMore
<1> QED
  BY <1>2, <1>4, LinesWithoutLF

\* An option that is accepted without an LF and dumped is read as one line and parsed
\* as itself again, whatever its numbers, its unit and its text.
THEOREM ChangesOptionReadsBack == ChangesSpec => []OptionReadsBack
<1>1. ParsedInv => OptionReadsBack
  <2> SUFFICES ASSUME ParsedInv, parsed.parse = "Option", ~Failing(parsed.value),
                      ~Contains(parsed.arg, LF)
               PROVE  IsReadBack(parsed.value, DumpOption(parsed.value))
    BY DEF OptionReadsBack
  <2>1. parsed.arg \in Seq(Bytes) /\ parsed.value = OptionCommand(parsed.arg)
    BY DEF ParsedInv, NotParsed, Parse
  <2>2. OptionCommand(OptionText(parsed.value)) = parsed.value
    BY <2>1, OptionRoundTrip
  <2>3. OptionText(parsed.value) \in Seq(NotLF)
    BY <2>1, OptionTextWithoutLF
  <2> SUFFICES ASSUME NEW x \in Seq(NotLF), x = OptionText(parsed.value),
                      NEW dumped, dumped = <<"option ">> \o x \o <<LF>>
               PROVE  IsReadBack(parsed.value, dumped)
    BY <2>3, Zenon DEF DumpOption
  <2>4. /\ Last(dumped) = LF /\ ~Contains(Front(dumped), LF)
        /\ IsPrefix(<<"option ">>, Front(dumped)) /\ Tail(Front(dumped)) = x
    BY DumpedLine
  <2>5. Parse("Option", x) = parsed.value
    BY <2>2 DEF Parse
  <2> QED
    BY <2>4, <2>5, Zenon DEF IsReadBack
<1> QED
  BY <1>1, ParsedInvariant, PTL
=============================================================================
