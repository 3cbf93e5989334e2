-------------------------------- MODULE MCDump --------------------------------
(***************************************************************************)
(* Instances of Dump for TLC: short data, with LFs and delimiters in it,   *)
(* delimiters of every kind, and lines with an LF and without.             *)
(***************************************************************************)
EXTENDS Dump

MCLF == "\n"
MCBytes == {"\n", "NUL", "data ", "<<", "E", "0", "1", "2", "3", "4",
            "mark :1", "original-oid ", "option "}
MCDecimal == [n \in 0..4 |-> <<"0", "1", "2", "3", "4">>[n + 1]]

MCData ==
    UNION {[1..k -> {"\n", "E"}] : k \in 0..3} \cup {<<"E", "E", "\n", "\n">>}
MCDelims == {None, <<>>, <<"E">>, <<"E", "E">>, <<"E", "NUL">>, <<"E", "\n">>}
MCDataBufs == [data : MCData, delim : MCDelims]
MCTexts == {<<"mark :1">>, <<"original-oid ", "E">>, <<"original-oid ", "E", "\n">>,
            <<"option ", "\n", "mark :1">>}
=============================================================================
