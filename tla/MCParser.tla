------------------------------- MODULE MCParser -------------------------------
(***************************************************************************)
(* Instances of Parser and Changes for TLC: streams made of a few lines,   *)
(* with or without the last LF.                                            *)
(***************************************************************************)
EXTENDS Changes

CONSTANT MaxLines

\* Up to n lines of a set, and perhaps a last one without its LF.
RECURSIVE Of(_, _)
Of(ls, n) ==
    IF n = 0 THEN {<<>>}
    ELSE {<<>>} \cup {Append(l, LF) \o rest : l \in ls, rest \in Of(ls, n - 1)}
StreamsOf(ls, n) == Of(ls, n) \cup {s \o l : s \in Of(ls, n - 1), l \in ls}

\* The line of a directive with every argument of up to n bytes, after a head.
Lines(head, bytes, n) == {head \o s \o <<LF>> : s \in SeqOf(bytes, n)}

MCLF == "\n"
MCBytes == {"\n", "#", "NUL", ":", "0", "1", "2", "4", "5", "6", "7", "8", "+", "<", ">",
            " ", "\"", "\\", "n", "A", "EOD", "x", "k", "inline", "raw",
            "blob", "commit ", "tag ", "reset ", "alias", "checkpoint", "done",
            "progress ", "ls ", "feature ", "option ", "git ", "cat-blob ",
            "get-mark ", "mark ", "original-oid ", "author ", "committer ",
            "encoding ", "data ", "from ", "merge ", "tagger ", "to ",
            "M ", "D ", "R ", "C ", "N ", "deleteall"}
           \cup SizeOptions \cup IntOptions \cup FlagOptions \cup {"export-pack-edges="}
           \cup Features \cup PathFeatures \cup RewriteFeatures \cup {"date-format="}

MarkLine == <<"mark ", ":", "1">>
OidLine  == <<"original-oid ", "x">>
FromLine == <<"from ", "x">>
Data2    == <<"data ", "2">>
DataEod  == <<"data ", "<", "<", "EOD">>
Ident    == <<"A", " ", "<", "A", ">", " ", "x">>

BlobHead == <<"blob", LF>> \o MarkLine \o <<LF>> \o OidLine \o <<LF>>
CommitHead == <<"commit ", "x", LF>> \o MarkLine \o <<LF>> \o OidLine \o <<LF>>

\* Blobs, and what their data may look like.
MCBlobs ==
    {h \o s : h \in {<<>>, BlobHead},
              s \in StreamsOf({<<"blob">>, MarkLine, OidLine, Data2, DataEod,
                               <<"EOD">>, <<>>, <<"#", "x">>}, MaxLines)}

\* Commands of one line, and those that end in an optional LF or a directive.
MCCommands == StreamsOf({<<"reset ", "x">>, FromLine, <<"alias">>, MarkLine,
                         <<"to ", ":", "1">>, <<"checkpoint">>, <<"progress ", "x">>,
                         <<"done">>, <<>>, <<"#">>, <<"x">>},
                        MaxLines)

\* A commit and a tag, up to the directive before their message or less.
Heads == {<<"commit ", "x", LF, "committer ">> \o Ident \o <<LF>>,
          CommitHead \o <<"author ">> \o Ident \o <<LF, "committer ">> \o Ident
            \o <<LF, "encoding ", "x", LF>>,
          <<"commit ", "NUL", LF>>,
          <<"tag ", "x", LF, "from ", "x", LF>>,
          <<"tag ", "x", LF, "from ", "x", LF, "tagger ">> \o Ident \o <<LF>>}
MCMessages ==
    {h \o s : h \in Heads,
              s \in StreamsOf({Data2, DataEod, <<"encoding ", "x">>, FromLine,
                               <<"merge ", "x">>, <<"EOD">>, <<>>}, MaxLines)}

\* Arguments.
MCIdents == Lines(CommitHead \o <<"author ">>, {"A", " ", "<", ">"}, 5)
            \cup Lines(CommitHead \o <<"author ", "<">>, {"<", ">", " ", "NUL"}, 3)
            \cup {CommitHead \o <<"author ">> \o Ident \o <<LF>>}
MCOptions ==
    UNION {Lines(<<"option ", "git ", k>>, {"0", "1", "2", "k", "+"}, 3) :
              k \in {"max-pack-size=", "depth="}}
    \cup UNION {Lines(<<"option ", "git ", k>>, {"1", "x"}, 1) :
              k \in FlagOptions \cup {"big-file-threshold=", "active-branches=",
                                      "export-pack-edges=", "x"}}
    \cup Lines(<<"option ">>, {"x", "git "}, 2)

\* Options on the line that `reset` has looked at.
MCUnread ==
    UNION {Lines(<<"reset ", "x", LF, "option ">> \o h, {"x", "1"}, 1) :
              h \in {<<>>} \cup {<<"git ", k>> : k \in {"max-pack-size=", "depth=",
                                                       "quiet", "export-pack-edges="}}}
MCFeatures ==
    UNION {Lines(<<"feature ", k>>, {"x", ":", "NUL", "raw"}, 2) :
              k \in PathFeatures \cup RewriteFeatures \cup {"date-format="}}
    \cup UNION {Lines(<<"feature ", k>>, {"x"}, 1) : k \in Features}
MCOthers ==
    Lines(<<"get-mark ">>, {":", "0", "1", "2", "+"}, 3)
    \cup Lines(<<"cat-blob ">>, {":", "1", "x"}, 2)
    \cup Lines(<<"ls ">>, {":", "1", " ", "\""}, 4)
    \cup Lines(BlobHead \o <<"data ">>, {"<", "0", "2", "x", "NUL", "+"}, 3)
MCArguments == MCIdents \cup MCOptions \cup MCUnread \cup MCFeatures \cup MCOthers

\* A commit, and changes and what is none.
CommitDone ==
    <<"commit ", "x", LF, "committer ">> \o Ident
        \o <<LF, "encoding ", "x", LF, "data ", "0", LF>>
Literal == <<"\"", "x">>        \* a string that does not end
ModeOctal(s) == <<"M ">> \o s \o <<" ", "x", " ">> \o Literal
File == <<"6", "4", "4">>
MCChangeLines ==
    {<<"M ">> \o File, <<"M ">> \o File \o <<" ", "x">>, ModeOctal(File),
     ModeOctal(<<"+">> \o File), ModeOctal(<<"0">> \o File),
     ModeOctal(<<"8">>), ModeOctal(<<"7">>), ModeOctal(<<"+">>), ModeOctal(<<>>),
     <<"M ">> \o File \o <<" ", ":", "0", " ", "x">>,
     <<"M ">> \o File \o <<" ", "inline", " ", "x">>,
     <<"D ">>, <<"D ", "x">>, <<"D ">> \o Literal, <<"D ", "\"", "x", "\"">>,
     <<"D ", "\"", "\"">>, <<"D ", "\"", "\\", "n", "\"">>,
     <<"R ">> \o Literal, <<"R ">> \o Literal \o <<" ">>,
     <<"R ">> \o Literal \o <<" ", "x">>, <<"C ">> \o Literal \o <<" ">> \o Literal,
     <<"deleteall">>, <<"N ", "x">>, <<"N ", ":", "1", " ", "x">>,
     <<"N ", "inline", " ", ":", "0">>,
     <<"ls ", ":", "1", " ", "x">>, <<"ls ">> \o Literal, <<"ls ", "\"", "x", "\"">>,
     <<"cat-blob ", "x">>, <<"cat-blob ", ":">>, <<"merge ", "x">>,
     <<"done">>, <<>>, <<"#">>}
Octals == {"0", "1", "2", "4", "5", "6"}
MCModes ==
    {ModeOctal(<<"1">> \o t \o <<"0">> \o f) :
        t \in [1..1 -> Octals], f \in {File, <<"7", "5", "5">>, <<"6", "6", "4">>,
                                      <<"0", "0", "0">>}}
    \cup {ModeOctal(t \o <<"0", "0", "0", "0">>) :
        t \in {<<"0", "4">>, <<"4">>, <<"2", "0">>}}
    \cup {ModeOctal(<<"7", "5", "5">>)}
MCChanges ==
    {CommitDone \o <<"N ", "x", " ", "x", LF>> \o m \o <<LF>> : m \in MCModes} \cup
    {CommitDone \o h \o s : h \in {<<>>, <<"N ", "x", " ", "x", LF>>},
                            s \in StreamsOf(MCChangeLines, 1)}
    \cup {CommitDone \o s : s \in StreamsOf({<<"deleteall">>, <<"N ", "x", " ", "x">>,
                                            <<"D ">> \o Literal, <<"done">>, <<"#">>,
                                            <<>>}, 3)}

\* Streams whose reader may fail.
MCFaulty ==
    {BlobHead \o s : s \in StreamsOf({Data2, DataEod, <<"EOD">>, <<>>}, 3)}
    \cup {CommitDone \o s : s \in StreamsOf({<<"deleteall">>, <<"done">>, <<>>}, 2)}
    \cup {<<"commit ", "x", LF, "committer ">> \o Ident \o <<LF, "encoding ", "x", LF>> \o s :
            s \in StreamsOf({Data2, DataEod, <<"EOD">>}, 3)}
    \cup StreamsOf({<<"checkpoint">>, <<"alias">>, MarkLine, <<>>, <<"#">>}, 3)

MCStreams == MCBlobs \cup MCCommands \cup MCMessages \cup MCArguments
             \cup MCChanges \cup MCFaulty

\* Blobs of the grammar.
MCGrammar ==
    {<<"blob", LF>> \o m \o o \o <<"data ", "0", LF, "done", LF>> :
        m \in {<<>>, Append(MarkLine, LF)}, o \in {<<>>, Append(OidLine, LF)}}
=============================================================================
