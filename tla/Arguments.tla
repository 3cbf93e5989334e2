------------------------------ MODULE Arguments ------------------------------
(***************************************************************************)
(* What the arguments of directives and changes are parsed to: the parse   *)
(* functions in fast-export/src/parse/parser.rs and commit.rs, as          *)
(* operators on sequences of bytes.                                        *)
(*                                                                         *)
(* A byte may stand for a keyword of an option or a feature, up to its "=" *)
(* if it has one.  What a function returns is one record: the kind of the  *)
(* value, of the error, or of the panic, with a number and slices.         *)
(***************************************************************************)
EXTENDS Quote

CONSTANTS U32_MAX, U64_MAX

ASSUME ArgumentsAssumption ==
    U32_MAX \in Nat /\ U64_MAX \in Nat /\ U32_MAX <= U64_MAX

Value(kind, num, fields) ==
    [kind |-> kind, num |-> num, unit |-> "B", fields |-> fields]
Err(error) == Value(error, 0, <<>>)

NulErrors == {"BranchContainsNul", "TagContainsNul", "IdentContainsNul",
              "EncodingContainsNul", "DataDelimContainsNul", "PathContainsNul",
              "RewriteSubmodulesContainsNul"}
IdentErrors == {"IdentNoLtOrGt", "IdentNoLtBeforeGt", "IdentNoSpaceBeforeLt",
                "IdentNoGtAfterLt", "IdentNoSpaceAfterGt"}
ChangeErrors == {"NoSpaceAfterMode", "InvalidModeInt", "InvalidMode",
                 "NoSpaceAfterDataRef", "JunkAfterFileModifyPath",
                 "JunkAfterFileDeletePath", "NoSpaceAfterSource", "MissingDest",
                 "JunkAfterDest"}
ArgErrors ==
    NulErrors \cup IdentErrors \cup ParseStringErrors \cup ChangeErrors \cup
    {"MarkMissingColon", "InvalidMark", "ZeroMark",
     "EmptyDelim", "InvalidDataLength",
     "MissingLsPath", "MissingLsRoot", "JunkAfterLsPath",
     "InvalidDateFormat", "RewriteSubmodulesNoColon",
     "InvalidOptionFileSize", "InvalidOptionInt", "UnrecognizedCommand"}

NulFree(s) == ~Contains(s, "NUL")
Find(s, bytes) == SelectInSeq(s, LAMBDA b : b \in bytes)     \* 0 if there is none
After(s, n) == SubSeq(s, n + 1, Len(s))

\* A field of one name, which may not contain NUL.
Text(kind, s, error) ==
    IF NulFree(s) THEN Value(kind, 0, <<s>>) ELSE Err(error)

-----------------------------------------------------------------------------
Digits == [d \in {"0", "1", "2", "3", "4", "5", "6", "7", "8", "9"} |->
            CASE d = "0" -> 0 [] d = "1" -> 1 [] d = "2" -> 2 [] d = "3" -> 3
              [] d = "4" -> 4 [] d = "5" -> 5 [] d = "6" -> 6 [] d = "7" -> 7
              [] d = "8" -> 8 [] d = "9" -> 9]

\* What the digits of s stand for, up to each of them.
Accumulated(s, radix) ==
    LET number[k \in 0..Len(s)] ==
            IF k = 0 THEN 0 ELSE radix * number[k - 1] + Digits[s[k]]
    IN  number

\* from_str_radix of an unsigned integer up to max, or -1 if it fails.
ParseRadix(s, radix, max) ==
    LET n == Accumulated(s, radix)[Len(s)]
    IN  IF /\ s # <<>>
           /\ \A k \in DOMAIN s : s[k] \in DOMAIN Digits /\ Digits[s[k]] < radix
           /\ n \in 0..max
        THEN n ELSE -1

\* parse_int: from_str accepts a "+", which parse_int does not.
ParseInt(s, max) == ParseRadix(s, 10, max)

Number(kind, s, max, error) ==
    LET n == ParseInt(s, max) IN IF n = -1 THEN Err(error) ELSE Value(kind, n, <<>>)

Mark(s) ==
    IF s = <<>> \/ Head(s) # ":" THEN Err("MarkMissingColon")
    ELSE LET mark == Number("Mark", Tail(s), U64_MAX, "InvalidMark")
         IN  IF mark = Value("Mark", 0, <<>>) THEN Err("ZeroMark") ELSE mark

\* Objectish, Commitish, Blobish and Treeish.
Objectish(s) == IF IsPrefix(<<":">>, s) THEN Mark(s) ELSE Value("Name", 0, <<s>>)

\* Mutant: the byte before the < is not looked at.
NothingBefore(s, lt) == TRUE

SpaceBefore(s, lt) == lt > 1 => s[lt - 1] = " "

\* lt and gt are one more than in the code, which counts from 0.
PersonIdent(s) ==
    LET lt == Find(s, {"<", ">"})
        gt == lt + Find(After(s, lt), {"<", ">"})
    IN  IF ~NulFree(s) THEN Err("IdentContainsNul")
        ELSE IF lt = 0 THEN Err("IdentNoLtOrGt")
        ELSE IF s[lt] # "<" THEN Err("IdentNoLtBeforeGt")
        ELSE IF ~SpaceBefore(s, lt) THEN Err("IdentNoSpaceBeforeLt")
        ELSE IF gt = lt \/ s[gt] # ">" THEN Err("IdentNoGtAfterLt")
        ELSE IF gt = Len(s) \/ s[gt + 1] # " " THEN Err("IdentNoSpaceAfterGt")
        ELSE IF gt = lt + 1 THEN Err("slice out of range")
        ELSE Value("Ident", 0, <<SubSeq(s, 1, lt - 3), SubSeq(s, lt + 1, gt - 2),
                                 After(s, gt + 1)>>)

DataHeader(s) ==
    IF IsPrefix(<<"<", "<">>, s)
    THEN IF Len(s) = 2 THEN Err("EmptyDelim")
         ELSE Text("Delimited", After(s, 2), "DataDelimContainsNul")
    ELSE Number("Counted", s, U64_MAX, "InvalidDataLength")

\* parse_ls, of a path after a root, or after none.
LsString(root, str) ==
    IF str.kind # "String" THEN Err(str.kind)
    ELSE IF str.rest # <<>> THEN Err("JunkAfterLsPath")
    ELSE Value("Ls", 0, Append(root, str.text))
LsPath(root, path) ==
    IF Head(path) = DoubleQuote THEN LsString(root, Unquote(path))
    ELSE Value("Ls", 0, Append(root, path))

\* split_at leaves the space to the path.
Ls(s, in_commit) ==
    LET sp   == Find(s, {" "})
        root == SubSeq(s, 1, sp - 1)
    IN  IF s = <<>> THEN Err("MissingLsPath")
        ELSE IF Head(s) = DoubleQuote
        THEN IF in_commit THEN LsPath(<<>>, s) ELSE Err("MissingLsRoot")
        ELSE IF sp = 0 THEN Err("MissingLsPath")
        ELSE IF Objectish(root).kind \in ArgErrors THEN Objectish(root)
        ELSE LsPath(<<root>>, After(s, sp - 1))

-----------------------------------------------------------------------------
\* split_at leaves the colon to the path.
RewriteSubmodules(kind, s) ==
    LET colon == Find(s, {":"})
    IN  IF ~NulFree(s) THEN Err("RewriteSubmodulesContainsNul")
        ELSE IF colon = 0 THEN Err("RewriteSubmodulesNoColon")
        ELSE Value(kind, 0, <<SubSeq(s, 1, colon - 1), After(s, colon - 1)>>)

DateFormats  == {"raw", "raw-permissive", "rfc2822", "now"}
PathFeatures == {"import-marks=", "import-marks-if-exists=", "export-marks="}
RewriteFeatures == {"rewrite-submodules-to=", "rewrite-submodules-from="}
Features == {"alias", "get-mark", "cat-blob", "relative-marks",
             "no-relative-marks", "done", "force", "notes", "ls"}

\* What s begins with.
Keyword(s) == IF s = <<>> THEN "" ELSE Head(s)

Feature(s) ==
    LET key == Keyword(s)
        rest == After(s, 1)
    IN  IF key = "date-format="
        THEN IF \E f \in DateFormats : rest = <<f>>
             THEN Value(key, 0, <<rest>>) ELSE Err("InvalidDateFormat")
        ELSE IF key \in PathFeatures THEN Text(key, rest, "PathContainsNul")
        ELSE IF key \in RewriteFeatures THEN RewriteSubmodules(key, rest)
        ELSE IF key \in Features /\ rest = <<>> THEN Value(key, 0, <<>>)
        ELSE Value("FeatureOther", 0, <<s>>)

Units == [k |-> "K", K |-> "K", m |-> "M", M |-> "M", g |-> "G", G |-> "G"]

FileSize(kind, s) ==
    LET has_unit == s # <<>> /\ Last(s) \in DOMAIN Units
        size == Number(kind, IF has_unit THEN Front(s) ELSE s, U32_MAX,
                       "InvalidOptionFileSize")
    IN  IF has_unit /\ size.kind = kind
        THEN [size EXCEPT !.unit = Units[Last(s)]] ELSE size

SizeOptions == {"max-pack-size=", "big-file-threshold="}
IntOptions  == {"depth=", "active-branches="}
FlagOptions == {"quiet", "stats", "allow-unsafe-features"}

OptionGit(s) ==
    LET key == Keyword(s)
        rest == After(s, 1)
    IN  IF key \in SizeOptions THEN FileSize(key, rest)
        ELSE IF key \in IntOptions THEN Number(key, rest, U32_MAX, "InvalidOptionInt")
        ELSE IF key = "export-pack-edges=" THEN Value(key, 0, <<rest>>)
        ELSE IF key \in FlagOptions /\ rest = <<>> THEN Value(key, 0, <<>>)
        ELSE Err("UnrecognizedCommand")

\* The argument of `option`.
OptionCommand(s) ==
    IF IsPrefix(<<"git ">>, s) THEN OptionGit(Tail(s))
    ELSE Value("OptionOther", 0, <<s>>)

-----------------------------------------------------------------------------
(* The arguments of changes, commit.rs.                                      *)

Failing(v) == v.kind \in ArgErrors \cup StringPanics

\* What is left of the first space of s, and what is right of it.
HasSpace(s)    == Contains(s, " ")
BeforeSpace(s) == SubSeq(s, 1, Find(s, {" "}) - 1)
AfterSpace(s)  == After(s, Find(s, {" "}))

U16_MAX == 65535

\* The modes, octal 100644, 100755, 120000, 160000 and 040000, and how a mode
\* that is read from a tree is made one of them.
Modes == [File |-> 33188, Exe |-> 33261, SymLink |-> 40960, GitLink |-> 57344,
          Dir |-> 16384]
Canonicalize(mode) ==
    CASE mode \div 4096 = 8 -> IF (mode \div 64) % 2 = 1 THEN "Exe" ELSE "File"
      [] mode \div 4096 = 10 -> "SymLink"
      [] mode \div 4096 = 4 -> "Dir"
      [] OTHER -> "GitLink"
IsCanon(mode) == Modes[Canonicalize(mode)] = mode

\* Files without their type, octal 644 and 755.
ShortModes == {420, 493}

\* Mutant: octal 100664 is a file, as it was in early versions of git.
ModeArmsGroup == [File |-> {33188, 33204, 420}, Exe |-> {33261, 493}, SymLink |-> {40960},
                  GitLink |-> {57344}, Dir |-> {16384}]

\* Mode::parse, with the numbers of each arm of its match.  from_str_radix accepts
\* a "+".
ModeArms == [File |-> {33188, 420}, Exe |-> {33261, 493}, SymLink |-> {40960},
             GitLink |-> {57344}, Dir |-> {16384}]
ModeOf(s) ==
    LET n    == ParseRadix(IF IsPrefix(<<"+">>, s) THEN Tail(s) ELSE s, 8, U16_MAX)
        arms == {m \in DOMAIN ModeArms : n \in ModeArms[m]}
    IN  IF n = -1 THEN Err("InvalidModeInt")
        ELSE IF arms = {} THEN Err("InvalidMode")
        ELSE LET m == CHOOSE m \in arms : TRUE IN Value(m, Modes[m], <<>>)

DataRef(s) == IF s = <<"inline">> THEN Value("Inline", 0, <<>>) ELSE Objectish(s)

\* unquote_eol: str is what s is unquoted to.
PathEol(s, str, junk) ==
    IF str.kind \in StringPanics THEN Err(str.kind)
    ELSE IF str.kind # "String" THEN Value("Path", 0, <<s>>)
    ELSE IF str.rest # <<>> THEN Err(junk)
    ELSE Value("Path", 0, <<str.text>>)
UnquoteEol(s, junk) == PathEol(s, Unquote(s), junk)

\* unquote_space: the source, and what follows it.
PathSpace(s, str) ==
    IF str.kind \in StringPanics THEN Err(str.kind)
    ELSE IF str.kind = "String"
    THEN IF IsPrefix(<<" ">>, str.rest)
         THEN Value("Path", 0, <<str.text, Tail(str.rest)>>)
         ELSE Err("NoSpaceAfterSource")
    ELSE IF ~HasSpace(s) THEN Err("NoSpaceAfterSource")
    ELSE Value("Path", 0, <<BeforeSpace(s), AfterSpace(s)>>)
UnquoteSpace(s) == PathSpace(s, Unquote(s))

\* A file change of this mode, with the rest of the line.
Modified(mode, rest, ref, path) ==
    IF Failing(mode) THEN mode
    ELSE IF ~HasSpace(rest) THEN Err("NoSpaceAfterDataRef")
    ELSE IF Failing(ref) THEN ref
    ELSE IF Failing(path) THEN path
    ELSE Value("FileModify", mode.num, path.fields)
FileModify(s) ==
    LET rest == AfterSpace(s)
    IN  IF ~HasSpace(s) THEN Err("NoSpaceAfterMode")
        ELSE Modified(ModeOf(BeforeSpace(s)), rest, DataRef(BeforeSpace(rest)),
                      UnquoteEol(AfterSpace(rest), "JunkAfterFileModifyPath"))

FileDelete(s) == UnquoteEol(s, "JunkAfterFileDeletePath")

\* parse_file_rename_copy
RenamedTo(source, dest) ==
    IF Failing(dest) THEN dest
    ELSE Value("FileRenameCopy", 0, <<source, dest.fields[1]>>)
RenamedFrom(source) ==
    IF Failing(source) THEN source
    ELSE IF source.fields[2] = <<>> THEN Err("MissingDest")
    ELSE RenamedTo(source.fields[1], UnquoteEol(source.fields[2], "JunkAfterDest"))
FileRenameCopy(s) == RenamedFrom(UnquoteSpace(s))

NoteModify(s) ==
    LET ref    == DataRef(BeforeSpace(s))
        commit == Objectish(AfterSpace(s))
    IN  IF ~HasSpace(s) THEN Err("NoSpaceAfterDataRef")
        ELSE IF Failing(ref) THEN ref
        ELSE commit

-----------------------------------------------------------------------------
(* An option that is written back, dump.rs.                                  *)

\* A number of an option is a u32.
Decimal[n \in 0..U32_MAX] ==
    LET digit == <<CHOOSE d \in DOMAIN Digits : Digits[d] = n % 10>>
    IN  IF n < 10 THEN digit ELSE Decimal[n \div 10] \o digit

\* Mutant: a size is written without its unit.
DumpFileSizeBare(size) == Decimal[size.num]

DumpFileSize(size) ==
    Decimal[size.num] \o
    (CASE size.unit = "B" -> <<>> [] size.unit = "K" -> <<"k">>
       [] size.unit = "M" -> <<"m">> [] size.unit = "G" -> <<"g">>)

\* The argument of the `option` that is dumped, without the line it is put in.
OptionText(v) ==
    CASE v.kind \in SizeOptions -> <<"git ", v.kind>> \o DumpFileSize(v)
      [] v.kind \in IntOptions  -> <<"git ", v.kind>> \o Decimal[v.num]
      [] v.kind \in FlagOptions -> <<"git ", v.kind>>
      [] v.kind = "export-pack-edges=" -> <<"git ", v.kind>> \o v.fields[1]
      [] v.kind = "OptionOther" -> v.fields[1]
=============================================================================
