-------------------------------- MODULE Parser --------------------------------
(***************************************************************************)
(* Reading directives and commands: BufInput in                            *)
(* fast-export/src/parse/input.rs, and Parser::next with the command       *)
(* parsers in parser.rs.                                                   *)
(*                                                                         *)
(* A byte stands for a keyword (with its space, where an argument          *)
(* follows), for a byte of an argument, or for LF: the line                *)
(* <<"mark ", ":", "1">> is `mark :1`.  One action reads one line, takes   *)
(* one directive, or passes one data stream as Framing says, which         *)
(* DataReader is shown to implement.  How far a blob's has been read by a  *)
(* caller that does not finish is left out: next then refuses to parse.    *)
(*                                                                         *)
(* The reader may fail, wherever the parser reads; the caller may then     *)
(* call next again.                                                        *)
(***************************************************************************)
EXTENDS Input, Arguments

CONSTANTS
    CONTEXT_LINES_BEFORE,
    Faulty,            \* the streams whose reader may fail
    MaxFaults          \* how often it does

ASSUME ParserAssumption ==
    /\ CONTEXT_LINES_BEFORE \in Nat
    /\ MaxFaults \in Nat

\* LF is none of the bytes that an option is written with.
ASSUME KeywordAssumption ==
    LF \notin {"option ", "git ", "export-pack-edges="} \cup DOMAIN Digits
              \cup DOMAIN Units \cup SizeOptions \cup IntOptions \cup FlagOptions

VARIABLES
    \* BufInput
    lines,          \* BufPool's live lines, with their terminators
    unread,         \* the line at the back has not been taken by a command
    \* Parser: data_state (its len_read for counted data only) and data_opened
    header, finished, len_read, data_opened,
    \* the call in progress
    pc,             \* "idle", "panicked", or what it does next
    view,           \* what peek_directive has returned
    command,        \* the command being parsed
    step,           \* which of its directives comes next
    message,        \* the header of the message being read
    parsed,         \* the last argument that was parsed, and to what
    ret,            \* the result of the last call
    faults,         \* how often the reader has failed
    \* ghosts
    seen,           \* where the directives that were read begin
    taken,          \* where the directives that commands were given begin
    announced,      \* the header of the latest data stream
    start,          \* where that begins
    cut             \* a message could not be read to its end

bufVars    == <<lines, unread>>
dataVars   == <<header, finished, len_read, data_opened>>
callVars   == <<pc, view, command, step, message>>
lineGhosts == <<seen, taken>>
dataGhosts == <<announced, start, cut>>

vars == <<inputVars, bufVars, dataVars, callVars, parsed, ret, faults,
          lineGhosts, dataGhosts>>

Unseen     == [kind |-> "none", line |-> <<>>]
AtEof      == [kind |-> "eof", line |-> <<>>]
Directive(l) == [kind |-> "line", line |-> l]
NoData     == Delimited(<<>>)
NotParsed  == [parse |-> "none", arg |-> <<>>, value |-> Err("none")]

Init ==
    /\ InputInit
    /\ lines = <<>> /\ unread = FALSE
    /\ header = NoData /\ finished = TRUE /\ len_read = 0 /\ data_opened = FALSE
    /\ pc = "idle" /\ view = Unseen /\ command = "none" /\ step = 0
    /\ message = NoData
    /\ parsed = NotParsed /\ ret = "none" /\ faults = 0
    /\ seen = <<>> /\ taken = <<>>
    /\ announced = NoData /\ start = 0 /\ cut = FALSE

Return(res) ==
    /\ pc' = "idle" /\ view' = Unseen /\ command' = "none" /\ step' = 0
    /\ message' = NoData
    /\ ret' = res

\* A failed assertion, or another panic.
Panic(assertion) ==
    /\ pc' = "panicked" /\ ret' = assertion
    /\ UNCHANGED <<view, command, step, message>>

\* An operation of the reader fails, with an io::Error.
ReaderFails ==
    /\ stream \in Faulty /\ faults < MaxFaults
    /\ faults' = faults + 1

-----------------------------------------------------------------------------
(* The arguments of directives.                                              *)

Parse(parse, arg) ==
    CASE parse = "Branch"     -> Text("Branch", arg, "BranchContainsNul")
      [] parse = "TagName"    -> Text("TagName", arg, "TagContainsNul")
      [] parse = "Encoding"   -> Text("Encoding", arg, "EncodingContainsNul")
      [] parse = "Oid"        -> Value("Oid", 0, <<arg>>)
      [] parse = "Mark"       -> Mark(arg)
      [] parse = "Objectish"  -> Objectish(arg)
      [] parse = "Ident"      -> PersonIdent(arg)
      [] parse = "Header"     -> DataHeader(arg)
      [] parse = "Ls"         -> Ls(arg, FALSE)
      [] parse = "CommitLs"   -> Ls(arg, TRUE)
      [] parse = "Feature"    -> Feature(arg)
      [] parse = "Option"     -> OptionCommand(arg)
      [] parse = "FileModify" -> FileModify(arg)
      [] parse = "FileDelete" -> FileDelete(arg)
      [] parse = "FileRename" -> FileRenameCopy(arg)
      [] parse = "NoteModify" -> NoteModify(arg)

\* The argument has been parsed, to the value v, or with an error or a panic.
Parsed(parse, arg, v) == parsed' = [parse |-> parse, arg |-> arg, value |-> v]
Fail(v) == IF v.kind \in StringPanics THEN Panic(v.kind) ELSE Return(v.kind)

HeaderOf(v) ==
    IF v.kind = "Counted" THEN Counted(v.num) ELSE Delimited(v.fields[1])

-----------------------------------------------------------------------------
(* The directives of each command, in order.  A missing one is passed over,  *)
(* or is the error named; "many" is parse_directive_many.                    *)

Optional(prefix, parse)      == [prefix |-> prefix, parse |-> parse,
                                 missing |-> "Ok", many |-> FALSE]
Many(prefix, parse)          == [Optional(prefix, parse) EXCEPT !.many = TRUE]
Required(prefix, parse, err) == [Optional(prefix, parse) EXCEPT !.missing = err]

Steps ==
    [blob |->
        << Optional("mark ", "Mark"),
           Optional("original-oid ", "Oid"),
           Required("data ", "Header", "ExpectedBlobData") >>,
     commit |->
        << Optional("mark ", "Mark"),
           Optional("original-oid ", "Oid"),
           Optional("author ", "Ident"),
           Required("committer ", "Ident", "ExpectedCommitCommitter"),
           Optional("encoding ", "Encoding"),
           Required("data ", "Header", "ExpectedCommitMessage"),
           Optional("from ", "Objectish"),
           Many("merge ", "Objectish") >>,
     tag |->
        << Optional("mark ", "Mark"),
           Required("from ", "Objectish", "ExpectedTagFrom"),
           Optional("original-oid ", "Oid"),
           Optional("tagger ", "Ident"),
           Required("data ", "Header", "ExpectedTagMessage") >>,
     reset |->
        << Optional("from ", "Objectish") >>,
     alias |->
        << Required("mark ", "Mark", "ExpectedAliasMark"),
           Required("to ", "Objectish", "ExpectedAliasTo") >>]

-----------------------------------------------------------------------------
(* Reading lines.                                                            *)

\* Mutant: the unread line is not counted.
TruncateContextNoUnread ==
    LET drop == IF Len(lines) > CONTEXT_LINES_BEFORE
                THEN Len(lines) - CONTEXT_LINES_BEFORE ELSE 0
    IN  lines' = SubSeq(lines, drop + 1, Len(lines))

\* Mutant: the lines are dropped at the wrong end.
TruncateContextFront ==
    LET keep == CONTEXT_LINES_BEFORE + (IF unread THEN 1 ELSE 0)
    IN  lines' = SubSeq(lines, 1, IF Len(lines) > keep THEN keep ELSE Len(lines))

\* BufInput::truncate_context.
TruncateContext ==
    LET keep == CONTEXT_LINES_BEFORE + (IF unread THEN 1 ELSE 0)
        drop == IF Len(lines) > keep THEN Len(lines) - keep ELSE 0
    IN  lines' = SubSeq(lines, drop + 1, Len(lines))

Looking == pc \in {"command", "steps", "change"} /\ view = Unseen

\* What peek_directive returns, and the call goes on with.
Peeked(v) ==
    /\ view' = v
    /\ UNCHANGED <<pc, command, step, message, ret, faults>>

\* peek_directive of a line that was peeked before: BufPool::back.
PeekUnread ==
    /\ Looking /\ unread
    /\ IF lines = <<>>
       THEN Panic("unread line not in BufPool") /\ UNCHANGED faults
       ELSE Peeked(Directive(Last(lines)))
    /\ UNCHANGED <<inputVars, bufVars, dataVars, parsed, lineGhosts, dataGhosts>>

\* Mutant: the end is looked at before the unread line.
PeekAtEofFirst ==
    /\ Looking /\ eof
    /\ Peeked(AtEof)
    /\ UNCHANGED <<inputVars, bufVars, dataVars, parsed, lineGhosts, dataGhosts>>

PeekAtEof ==
    /\ Looking /\ ~unread /\ eof
    /\ Peeked(AtEof)
    /\ UNCHANGED <<inputVars, bufVars, dataVars, parsed, lineGhosts, dataGhosts>>

\* One iteration of read_directive.
PeekLine ==
    /\ Looking /\ ~unread /\ ~eof
    /\ \E n \in 0..(Len(stream) - pos) :
        /\ ReadLine(n)
        /\ pos' = LineEnd(pos, n)
        /\ lines' = Append(lines, Slice(pos, LineEnd(pos, n)))
        /\ IF pos = Len(stream)
           THEN Peeked(AtEof) /\ UNCHANGED <<unread, seen>>
           ELSE IF IsPrefix(<<"#">>, Slice(pos, pos + n))
           THEN Peeked(Unseen) /\ UNCHANGED <<unread, seen>>
           ELSE /\ Peeked(Directive(Slice(pos, pos + n)))
                /\ unread' = TRUE
                /\ seen' = Append(seen, pos)
    /\ UNCHANGED <<stream, dataVars, parsed, taken, dataGhosts>>

\* read_until fails, after it has read a part of the line or all but its LF.
PeekFails ==
    /\ Looking /\ ~unread /\ ~eof
    /\ ReaderFails
    /\ \E p \in pos..Len(stream) :
        /\ CountLF(pos, p) = 0
        /\ pos' = p
        /\ lines' = Append(lines, Slice(pos, p))
    /\ Return("Io")
    /\ UNCHANGED <<stream, eof, line, unread, dataVars, parsed, lineGhosts, dataGhosts>>

\* BufInput::bump_directive, whose assertion the actions below check.
MayBump == unread \/ eof
Bump ==
    /\ unread' = FALSE
    /\ taken' = IF view.kind = "line" THEN Append(taken, Last(seen)) ELSE taken

-----------------------------------------------------------------------------
(* Data streams.                                                             *)

\* What is left of the data stream of the last blob.
Left == [header EXCEPT !.len = @ - len_read]

\* Where the contents end: at most one position.
Ends(h, p) == {q \in p..Len(stream) : ContentsEnd(h, p, q)}

DataEnd(h, q) == IF h.is_counted THEN q ELSE LineEnd(q, Len(h.delim))

\* The input after a data stream whose contents end at q, but for pos.
Passed(h, q) ==
    /\ eof' = (eof \/ (~h.is_counted /\ q + Len(h.delim) = Len(stream)))
    /\ line' = line + CountLF(pos, q) + (IF h.is_counted THEN 0 ELSE 1)
    /\ UNCHANGED stream

\* Mutant: the optional LF is left to the directives.
PassDataNoLF(h, q) == Passed(h, q) /\ pos' = DataEnd(h, q) /\ UNCHANGED faults

PassData(h, q) ==
    /\ Passed(h, q)
    /\ pos' = SkipOptionalLF(DataEnd(h, q))
    /\ UNCHANGED faults

\* ... or the reader fails while the optional LF is looked for.
PassDataFails(h, q) ==
    /\ Passed(h, q)
    /\ pos' = DataEnd(h, q)
    /\ ReaderFails

\* The reader fails at p, in the middle of the data.
BreakData(h, p) ==
    /\ h.is_counted \/ ~eof
    /\ \A q \in Ends(h, pos) : p < q + (IF h.is_counted THEN 0 ELSE Len(h.delim) + 1)
    /\ pos' = p
    /\ ReaderFails
    /\ UNCHANGED <<stream, eof>>

\* The input after a data stream that is cut short, perhaps in a last line
\* without LF.
CutShort(h) ==
    /\ pos' = Len(stream)
    /\ line' = line + CountLF(pos, pos')
                    + (IF ~h.is_counted /\ pos < pos' /\ stream[pos'] # LF
                       THEN 1 ELSE 0)
    /\ UNCHANGED <<stream, faults>>

\* What cannot be read of it: its end, or its delimiter.
Missing(h) == IF h.is_counted THEN "DataUnexpectedEof" ELSE "UnterminatedData"

-----------------------------------------------------------------------------
(* The caller's side of a blob: DataReader.  The blob lives until next is    *)
(* called again.                                                             *)

BlobHeld == pc = "idle" /\ ~finished /\ ret = "Ok"

OpenData ==
    /\ BlobHeld
    /\ data_opened' = TRUE
    /\ UNCHANGED <<inputVars, bufVars, header, finished, len_read, callVars,
                   parsed, ret, faults, lineGhosts, dataGhosts>>

FinishData ==
    /\ BlobHeld /\ data_opened
    /\ \E q \in Ends(header, pos) : PassData(header, q)
    /\ finished' = TRUE
    /\ UNCHANGED <<bufVars, header, len_read, data_opened, callVars,
                   parsed, ret, lineGhosts, dataGhosts>>

FailData ==
    /\ BlobHeld /\ data_opened
    /\ Ends(header, pos) = {}
    /\ CutShort(header)
    /\ eof' \in IF header.is_counted THEN {eof, TRUE} ELSE {TRUE}
    /\ UNCHANGED <<bufVars, dataVars, callVars, parsed, ret, lineGhosts, dataGhosts>>

-----------------------------------------------------------------------------
(* Parser::next.                                                             *)

NextUnfinished ==
    /\ pc = "idle" /\ ~finished /\ data_opened
    /\ Return("Unfinished")
    /\ UNCHANGED <<inputVars, bufVars, dataVars, parsed, faults, lineGhosts, dataGhosts>>

\* skip_data fails at the end of the stream.
NextCutShort ==
    /\ pc = "idle" /\ ~finished /\ ~data_opened
    /\ Ends(Left, pos) = {}
    /\ CutShort(header) /\ eof' = TRUE
    /\ len_read' = IF header.is_counted THEN len_read + (pos' - pos) ELSE 0
    /\ Return(Missing(header))
    /\ UNCHANGED <<bufVars, header, finished, data_opened, parsed, lineGhosts, dataGhosts>>

\* Mutant: what was skipped before the reader failed is skipped again.
NextSkipForgets ==
    /\ pc = "idle" /\ ~finished /\ ~data_opened
    /\ \E p \in pos..Len(stream) :
        BreakData(Left, p) /\ line' = line + CountLF(pos, p)
    /\ Return("Io")
    /\ UNCHANGED <<bufVars, dataVars, parsed, lineGhosts, dataGhosts>>

\* skip_data fails because the reader does.
NextSkipFails ==
    /\ pc = "idle" /\ ~finished /\ ~data_opened
    /\ \/ \E p \in pos..Len(stream) :
             BreakData(Left, p) /\ line' = line + CountLF(pos, p)
          /\ UNCHANGED finished
       \/ \E q \in Ends(Left, pos) : PassDataFails(Left, q)
          /\ finished' = TRUE
    /\ len_read' = IF header.is_counted THEN len_read + (pos' - pos) ELSE 0
    /\ Return("Io")
    /\ UNCHANGED <<bufVars, header, data_opened, parsed, lineGhosts, dataGhosts>>

\* Mutant: data that nobody opened is not skipped.
DataNotSkipped ==
    (finished \/ ~data_opened) /\ UNCHANGED <<inputVars, finished, faults>>

\* The data of the last blob has been passed, or skip_data passes it.
DataPassed ==
    \/ finished /\ UNCHANGED <<inputVars, finished, faults>>
    \/ /\ ~finished /\ ~data_opened
       /\ \E q \in Ends(Left, pos) : PassData(Left, q)
       /\ finished' = TRUE

\* Mutant: a call begins with a fresh line.
NextBeginAfresh ==
    /\ pc = "idle"
    /\ DataPassed
    /\ TruncateContext
    /\ pc' = "command" /\ view' = Unseen /\ parsed' = NotParsed
    /\ unread' = FALSE
    /\ UNCHANGED <<header, len_read, data_opened, command, step, message, ret,
                   lineGhosts, dataGhosts>>

NextBegin ==
    /\ pc = "idle"
    /\ DataPassed
    /\ TruncateContext
    /\ pc' = "command" /\ view' = Unseen /\ parsed' = NotParsed
    /\ UNCHANGED <<unread, header, len_read, data_opened, command, step, message, ret,
                   lineGhosts, dataGhosts>>

\* The command begins with these directives.
Begin(kind) ==
    /\ pc' = "steps" /\ command' = kind /\ step' = 1 /\ view' = Unseen
    /\ UNCHANGED <<message, ret>>

\* skip_optional_lf is called, and then the command kind begins, or "none".
SkipLFThen(kind) ==
    /\ pc' = "skip" /\ command' = kind /\ view' = Unseen
    /\ step' = IF kind = "none" THEN 0 ELSE 1
    /\ UNCHANGED <<message, ret, parsed>>

\* The commands whose line has an argument, and how that is parsed.
ArgumentOf ==
    [s \in {"commit ", "tag ", "reset ", "ls ", "cat-blob ", "get-mark ",
            "feature ", "option "} |->
        CASE s \in {"commit ", "reset "} -> "Branch"
          [] s = "tag "      -> "TagName"   [] s = "ls "       -> "Ls"
          [] s = "cat-blob " -> "Objectish" [] s = "get-mark " -> "Mark"
          [] s = "feature "  -> "Feature"   [] s = "option "   -> "Option"]
Names ==
    [s \in {"commit ", "tag ", "reset "} |->
        CASE s = "commit " -> "commit" [] s = "tag " -> "tag" [] s = "reset " -> "reset"]

\* The command s has an argument, which is parsed to v.
TakeArgument(s, arg, v) ==
    /\ Parsed(ArgumentOf[s], arg, v)
    /\ IF Failing(v) THEN Fail(v)
       ELSE IF s \in DOMAIN Names THEN Begin(Names[s])
       ELSE IF s = "ls " /\ Len(v.fields) = 1 THEN Panic("unwrap on None")
       ELSE Return("Ok")

\* What next does with its first line.
Dispatch(l) ==
    LET Is(s) == l = <<s>>
        Has(s) == IsPrefix(<<s>>, l)
    IN  \/ Is("blob") /\ Begin("blob") /\ UNCHANGED parsed
        \/ \E s \in DOMAIN ArgumentOf :
            Has(s) /\ TakeArgument(s, Tail(l), Parse(ArgumentOf[s], Tail(l)))
        \/ Is("done") /\ Return("Done") /\ UNCHANGED parsed
        \/ (Is("checkpoint") \/ Has("progress ")) /\ SkipLFThen("none")
        \/ Is("alias") /\ SkipLFThen("alias")
        \/ /\ ~\E s \in {"blob", "done", "checkpoint", "alias"} : Is(s)
           /\ ~\E s \in DOMAIN ArgumentOf \cup {"progress "} : Has(s)
           /\ Return(IF l = <<>> THEN "UnexpectedBlank" ELSE "UnrecognizedCommand")
           /\ UNCHANGED parsed

NextCommand ==
    /\ pc = "command" /\ view # Unseen
    /\ IF ~MayBump
       THEN /\ Panic("bump_directive not preceded by peek_directive")
            /\ UNCHANGED <<unread, taken, parsed>>
       ELSE /\ Bump
            /\ \/ view.kind = "eof" /\ Return("Eof") /\ UNCHANGED parsed
               \/ view.kind = "line" /\ Dispatch(view.line)
    /\ UNCHANGED <<inputVars, lines, dataVars, faults, seen, dataGhosts>>

\* BufInput::skip_optional_lf.
SkipLF ==
    /\ pc = "skip"
    /\ \/ /\ unread
          /\ Panic("skipping optional LF with unread line")
          /\ UNCHANGED <<pos, lines, faults>>
       \/ ~unread /\ ReaderFails /\ Return("Io") /\ UNCHANGED <<pos, lines>>
       \/ /\ ~unread
          /\ pos' = SkipOptionalLF(pos)
          /\ lines' = IF pos' > pos THEN Append(lines, <<>>) ELSE lines
          /\ IF command = "none" THEN Return("Ok") ELSE Begin(command)
          /\ UNCHANGED faults
    /\ UNCHANGED <<stream, eof, line, unread, dataVars, parsed, lineGhosts, dataGhosts>>

-----------------------------------------------------------------------------
(* The directives of a command.                                              *)

Current == Steps[command][step]

Matches == view.kind = "line" /\ IsPrefix(<<Current.prefix>>, view.line)

Continue(n) ==
    /\ pc' = "steps" /\ step' = n /\ view' = Unseen /\ message' = NoData
    /\ UNCHANGED <<command, ret>>

\* Mutant: one directive too many.
AdvancePast ==
    IF step > Len(Steps[command]) THEN Return("Ok") ELSE Continue(step + 1)

\* On to the next directive, or the command is complete.
Advance ==
    IF step = Len(Steps[command]) THEN Return("Ok") ELSE Continue(step + 1)

\* What the header of a data stream does: DataState::init, or the message is
\* read.
Announce(h) ==
    /\ announced' = h /\ start' = pos /\ UNCHANGED cut
    /\ IF command = "blob"
       THEN /\ header' = h
            /\ finished' = FALSE /\ len_read' = 0 /\ data_opened' = FALSE
            /\ Advance
       ELSE /\ pc' = "message" /\ message' = h /\ view' = Unseen
            /\ UNCHANGED <<command, step, ret, dataVars>>

\* The argument of the directive is parsed to v.
UseArgument(arg, v) ==
    /\ Parsed(Current.parse, arg, v)
    /\ IF Failing(v)
       THEN Fail(v) /\ UNCHANGED <<dataVars, dataGhosts>>
       ELSE IF Current.parse = "Header"
       THEN Announce(HeaderOf(v))
       ELSE /\ IF Current.many THEN Continue(step) ELSE Advance
            /\ UNCHANGED <<dataVars, dataGhosts>>

\* The directive is there: parse_directive bumps it, then parses its argument.
TakeDirective ==
    /\ pc = "steps" /\ view # Unseen /\ Matches
    /\ IF ~MayBump
       THEN /\ Panic("bump_directive not preceded by peek_directive")
            /\ UNCHANGED <<unread, taken, parsed, dataVars, dataGhosts>>
       ELSE /\ Bump
            /\ UseArgument(Tail(view.line), Parse(Current.parse, Tail(view.line)))
    /\ UNCHANGED <<inputVars, lines, faults, seen>>

\* Mutant: the directive that is there instead is consumed.
PassDirectiveBumped ==
    /\ pc = "steps" /\ view # Unseen /\ ~Matches
    /\ Bump
    /\ IF Current.missing = "Ok" THEN Advance ELSE Return(Current.missing)
    /\ UNCHANGED <<inputVars, lines, dataVars, parsed, faults, seen, dataGhosts>>

\* Mutant: parse_directive_many looks for its directive again.
PassDirectiveAgain ==
    /\ pc = "steps" /\ view # Unseen /\ ~Matches
    /\ IF Current.many THEN Continue(step)
       ELSE IF Current.missing = "Ok" THEN Advance ELSE Return(Current.missing)
    /\ UNCHANGED <<inputVars, bufVars, dataVars, parsed, faults, lineGhosts, dataGhosts>>

\* The directive is not there.
PassDirective ==
    /\ pc = "steps" /\ view # Unseen /\ ~Matches
    /\ IF Current.missing = "Ok" THEN Advance ELSE Return(Current.missing)
    /\ UNCHANGED <<inputVars, bufVars, dataVars, parsed, faults, lineGhosts, dataGhosts>>

\* Input::read_data_to_end.  The last line of a delimited stream, when it has
\* no LF, is followed by a read_line at EOF, which is a failed assertion.
ReadMessage ==
    /\ pc = "message"
    /\ \E q \in Ends(message, pos) : PassData(message, q)
    /\ Advance
    /\ UNCHANGED <<bufVars, dataVars, parsed, lineGhosts, dataGhosts>>

MessageFails ==
    /\ pc = "message"
    /\ \/ \E p \in pos..Len(stream) :
             /\ BreakData(message, p)
             /\ line' = line + (IF message.is_counted THEN 0 ELSE CountLF(pos, p))
       \/ \E q \in Ends(message, pos) : PassDataFails(message, q)
    /\ Return("Io")
    /\ cut' = TRUE
    /\ UNCHANGED <<bufVars, dataVars, parsed, lineGhosts, announced, start>>

MessageCutShort ==
    /\ pc = "message"
    /\ Ends(message, pos) = {}
    /\ CutShort(message)
    /\ eof' = (eof \/ ~message.is_counted)
    /\ IF ~message.is_counted /\ (eof \/ (pos < Len(stream) /\ stream[Len(stream)] # LF))
       THEN Panic("already at EOF")
       ELSE Return(Missing(message))
    /\ cut' = TRUE
    /\ UNCHANGED <<bufVars, dataVars, parsed, lineGhosts, announced, start>>

ParserStep ==
    \/ PeekUnread \/ PeekAtEof \/ PeekLine \/ PeekFails
    \/ NextCommand \/ SkipLF \/ TakeDirective \/ PassDirective
    \/ ReadMessage \/ MessageFails \/ MessageCutShort

NextCall == NextUnfinished \/ NextCutShort \/ NextSkipFails \/ NextBegin

CallerStep == OpenData \/ FinishData \/ FailData

Next == ParserStep \/ NextCall \/ CallerStep

\* A running call is not suspended for ever, and the caller keeps calling next.
Fairness == WF_vars(ParserStep) /\ WF_vars(NextCall)

Spec == Init /\ [][Next]_vars /\ Fairness

-----------------------------------------------------------------------------
Missings == {"ExpectedBlobData", "ExpectedCommitCommitter", "ExpectedCommitMessage",
             "ExpectedTagFrom", "ExpectedTagMessage", "ExpectedAliasMark",
             "ExpectedAliasTo"}
Assertions == {"unread line not in BufPool", "already at EOF",
               "bump_directive not preceded by peek_directive",
               "unread_directive not preceded by bump_directive",
               "skipping optional LF with unread line", "unwrap on None"}
Errors == Missings \cup ArgErrors
          \cup {"UnexpectedBlank", "UnrecognizedCommand",
                "DataUnexpectedEof", "UnterminatedData"}
Results == {"none", "Ok", "Done", "Eof", "Some", "None", "Unfinished", "Io"}

\* The types of the parser's state.
TypeOK ==
    /\ InputTypeOK
    /\ lines \in Seq(Seq(Bytes)) /\ unread \in BOOLEAN
    /\ header \in HeaderType /\ len_read \in 0..header.len
    /\ finished \in BOOLEAN /\ data_opened \in BOOLEAN
    /\ pc \in {"idle", "command", "skip", "steps", "message", "change", "panicked"}
    /\ view \in [kind: {"none", "eof", "line"}, line: Seq(Bytes)]
    /\ command \in DOMAIN Steps \cup {"none"}
    /\ IF command = "none" THEN step = 0 ELSE step \in 1..Len(Steps[command])
    /\ message \in HeaderType
    /\ parsed.arg \in Seq(Bytes) /\ parsed.value.fields \in Seq(Seq(Bytes))
    /\ ret \in Results \cup Errors \cup Assertions \cup StringPanics
    /\ faults \in 0..MaxFaults
    /\ seen \in Seq(Nat) /\ taken \in Seq(Nat)
    /\ announced \in HeaderType /\ start \in 0..Len(stream) /\ cut \in BOOLEAN

\* The line that begins at p, with its terminator.
LineAt(p) ==
    Slice(p, LineEnd(p, CHOOSE n \in 0..(Len(stream) - p) : IsLine(p, n)))

\* The line that was peeked and not consumed is still the last one in the
\* BufPool, however many lines truncate_context has dropped and skip_optional_lf
\* and a failing reader have added: the next command gets that line, and not
\* another.
UnreadIsBack ==
    unread => lines # <<>> /\ seen # <<>> /\ Last(lines) = LineAt(Last(seen))

\* Every directive that is read is consumed exactly once, in order: an error, of
\* the command or of the reader, or an optional directive that is not there
\* neither drops a line nor takes it twice.
ConsumedOnce ==
    seen = IF unread THEN Append(taken, Last(seen)) ELSE taken

\* The assertions of BufInput, and the one of next that the root of an `ls`
\* outside of a commit is there, hold whatever the commands in the stream.  Two
\* are excepted, which code breaks: read_line's own, after a message without
\* its delimiter, and unread_directive's, after a last line without LF.
AssertionsHold ==
    ret \notin Assertions \ {"already at EOF",
                             "unread_directive not preceded by bump_directive"}

\* When a data stream is to be read, no line has been read ahead: its bytes are
\* all still in the input.
NoLookaheadIntoData ==
    /\ ~finished => ~unread /\ pc \in {"idle", "panicked"}
    /\ pc = "message" => ~unread

\* A command that lacks a required directive leaves the line that is there
\* instead to the next command.
ErrorKeepsLine == ret \in Missings /\ pc = "idle" => unread \/ eof

\* next returns Done::Eof only when all of the stream has been read and no
\* directive or data stream in it is left.
EofMeansAll == ret = "Eof" => pos = Len(stream) /\ seen = taken /\ finished

\* Once next has returned Done::Eof, it always does.
EofIsFinal == [][ret = "Eof" => ret' = "Eof"]_vars

\* Counted data is passed exactly, with at most an LF after it, however often
\* the reader has failed in the middle and next has been called again.
CountedDataPassed ==
    [][~finished /\ finished' /\ header.is_counted =>
        LET end == start + header.len
        IN  pos' \in {end, SkipOptionalLF(end)}]_vars

\* A caller that keeps calling next gets to the end of the stream, unless it
\* leaves a data stream half read, or the data stream of a blob is cut short,
\* or an assertion has failed.
EndIsReached ==
    <>[](\/ ret = "Eof"
         \/ pc = "panicked"
         \/ ~finished /\ (data_opened \/ Ends(Left, pos) = {}))

\* The parser, with its read-ahead and all its commands, reads the stream as
\* Framing says: a line that was read ahead counts as read when a command takes
\* it, and data until it has been passed.  Until the reader fails.
InData == ~finished \/ pc = "message" \/ cut
F == INSTANCE Framing
         WITH at <- IF InData THEN start ELSE IF unread THEN Last(seen) ELSE pos,
              header <- announced, in_data <- InData, Headers <- HeaderType
ImplementsFraming == [][F!Next \/ faults' > 0]_F!framingVars

-----------------------------------------------------------------------------
(* Arguments.                                                                *)

\* The splits of an identity by docs/fast-import_grammar.bnf:40-43, but that a
\* date is any bytes but NUL: (name " ")? "<" email "> " date.
Splits(s) ==
    LET NoAngle(t) == ~\E b \in {"<", ">", "NUL"} : Contains(t, b)
    IN  {f \in [lt: DOMAIN s, gt: DOMAIN s] :
            /\ s[f.lt] = "<" /\ NoAngle(SubSeq(s, 1, f.lt - 1))
            /\ f.lt > 1 => s[f.lt - 1] = " "
            /\ s[f.gt] = ">" /\ NoAngle(SubSeq(s, f.lt + 1, f.gt - 1))
            /\ f.lt < f.gt /\ f.gt < Len(s) /\ s[f.gt + 1] = " "
            /\ NulFree(s)}

\* What PersonIdent::parse refuses is what the grammar does not have.
IdentAsGrammar ==
    parsed.parse = "Ident" =>
        (parsed.value.kind \in ArgErrors <=> Splits(parsed.arg) = {})

\* The line an option is written back as, dump.rs.
DumpOption(v) == <<"option ">> \o OptionText(v) \o <<LF>>

\* What is dumped of v is one line, of an option that is parsed as v.
IsReadBack(v, dumped) ==
    LET l == Front(dumped)
    IN  /\ Last(dumped) = LF /\ ~Contains(l, LF)
        /\ IsPrefix(<<"option ">>, l) /\ Parse("Option", Tail(l)) = v

\* An option that is accepted and dumped is read as one line and parsed as itself
\* again, unit of a size and all (the test of that in dump.rs:168-169 is empty).
\* Unless it was accepted with an LF in it: a line that was peeked before comes with
\* its LF (PeekUnread, input.rs:318), and its dump is two lines.
OptionReadsBack ==
    parsed.parse = "Option" /\ ~Failing(parsed.value) /\ ~Contains(parsed.arg, LF) =>
        IsReadBack(parsed.value, DumpOption(parsed.value))

-----------------------------------------------------------------------------
(* What the documents say, and the code does not do.                         *)

\* The streams of the grammar (docs/fast-import_grammar.bnf:19-23) are parsed
\* without an error: a blob may lack its mark and its original-oid.
GrammarAccepted == ret \notin Errors

\* The name and the email of an identity are those of the grammar.
IdentFields ==
    parsed.parse = "Ident" =>
        \A f \in Splits(parsed.arg) :
            parsed.value = Value("Ident", 0,
                <<SubSeq(parsed.arg, 1, f.lt - 2),
                  SubSeq(parsed.arg, f.lt + 1, f.gt - 1),
                  After(parsed.arg, f.gt + 1)>>)
=============================================================================
