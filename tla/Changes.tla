------------------------------- MODULE Changes -------------------------------
(***************************************************************************)
(* The changes of a commit: ChangeIter in fast-export/src/parse/commit.rs, *)
(* over the same BufInput as the parser.                                   *)
(*                                                                         *)
(* The code does not construct a ChangeIter yet.  This module takes it to  *)
(* be what its comment says, "a borrow of Parser::input": the caller may   *)
(* iterate after next has returned a commit, until it calls next again.    *)
(***************************************************************************)
EXTENDS Parser

VARIABLE in_commit      \* the caller has the changes of a commit to iterate

changesVars == <<vars, in_commit>>

ChangesInit == Init /\ in_commit = FALSE

\* ChangeIter::next is called.  It does not truncate the context.
ChangeBegin ==
    /\ pc = "idle" /\ in_commit
    /\ pc' = "change" /\ parsed' = NotParsed
    /\ UNCHANGED <<inputVars, bufVars, dataVars, view, command, step, message,
                   ret, faults, lineGhosts, dataGhosts, in_commit>>

\* The changes whose line has an argument, and how that is parsed.
ChangeArgumentOf ==
    [s \in {"M ", "D ", "R ", "C ", "N ", "ls ", "cat-blob "} |->
        CASE s = "M " -> "FileModify"  [] s = "D " -> "FileDelete"
          [] s \in {"R ", "C "} -> "FileRename"
          [] s = "N " -> "NoteModify"  [] s = "ls " -> "CommitLs"
          [] s = "cat-blob " -> "Objectish"]

IsChange(l) ==
    l = <<"deleteall">> \/ \E s \in DOMAIN ChangeArgumentOf : IsPrefix(<<s>>, l)

\* The argument of a change is parsed to v.
UseChange(parse, arg, v) ==
    /\ Parsed(parse, arg, v)
    /\ IF Failing(v) THEN Fail(v) ELSE Return("Some")

TakeChange(l) ==
    /\ Bump
    /\ \/ l = <<"deleteall">> /\ Return("Some") /\ UNCHANGED parsed
       \/ \E s \in DOMAIN ChangeArgumentOf :
            LET parse == ChangeArgumentOf[s]
            IN  IsPrefix(<<s>>, l) /\ UseChange(parse, Tail(l), Parse(parse, Tail(l)))

\* Mutant: the line that is no change is not put back.
LeaveLineBumped ==
    /\ Bump
    /\ Return("None")
    /\ UNCHANGED parsed

\* The line is consumed and then marked as unread again, which asserts that
\* the stream has not ended.
LeaveLine ==
    /\ IF eof
       THEN Bump /\ Panic("unread_directive not preceded by bump_directive")
       ELSE Return("None") /\ UNCHANGED <<unread, taken>>
    /\ UNCHANGED parsed

\* The rest of ChangeIter::next, once a line has been peeked.
ChangeEnd ==
    /\ pc = "change" /\ view # Unseen
    /\ IF ~MayBump
       THEN /\ Panic("bump_directive not preceded by peek_directive")
            /\ UNCHANGED <<unread, taken, parsed>>
       ELSE \/ view.kind = "eof" /\ Bump /\ Return("None") /\ UNCHANGED parsed
            \/ view.kind = "line" /\ IsChange(view.line) /\ TakeChange(view.line)
            \/ view.kind = "line" /\ ~IsChange(view.line) /\ LeaveLine
    /\ in_commit' = (ret' # "None")
    /\ UNCHANGED <<inputVars, lines, dataVars, faults, seen, dataGhosts>>

\* A step of a call of either next.  The commit is returned with its changes.
\* A caller may go on iterating after an error; after None it does not.
CallStep ==
    \/ ChangeEnd
    \/ /\ ParserStep
       /\ in_commit' = \/ pc = "change"
                       \/ command = "commit" /\ pc' = "idle" /\ ret' = "Ok"

ChangesNext ==
    \/ ChangeBegin
    \/ CallStep
    \/ NextCall /\ in_commit' = FALSE
    \/ CallerStep /\ UNCHANGED in_commit

ChangesFairness ==
    WF_changesVars(CallStep) /\ WF_changesVars(NextCall /\ in_commit' = FALSE)

ChangesSpec == ChangesInit /\ [][ChangesNext]_changesVars /\ ChangesFairness

-----------------------------------------------------------------------------
\* When the changes have ended, the line that ended them is the next command's,
\* or there is none: nothing between the last change and the next command is
\* lost.
NoneKeepsLine ==
    ret = "None" /\ pc = "idle" => unread \/ (eof /\ pos = Len(stream))

\* The modes of a file change are the canonical ones, "with the exception that
\* files can be shortened to just their permission bits" (commit.rs:232-235):
\* Mode::parse refuses all others, and what it returns is a mode of
\* Mode::canonicalize, with the permission bits of a short one.
ModesAreCanonical ==
    parsed.parse = "FileModify" /\ HasSpace(parsed.arg) =>
        LET mode    == BeforeSpace(parsed.arg)
            n       == ParseRadix(IF IsPrefix(<<"+">>, mode) THEN Tail(mode) ELSE mode,
                                  8, U16_MAX)
            v       == parsed.value
            refused == v.kind \in {"InvalidModeInt", "InvalidMode"}
        IN  /\ refused <=> n = -1 \/ ~(IsCanon(n) \/ n \in ShortModes)
            /\ ~Failing(v) =>
                 IsCanon(v.num) /\ (v.num = n \/ (n \in ShortModes /\ v.num % 4096 = n))

-----------------------------------------------------------------------------
\* A path that is not a quoted string is the literal path
\* (docs/fast-import_grammar.bnf:68-73), and a quoted one is unquoted.
PathsTaken == ret \notin StringPanics
=============================================================================
