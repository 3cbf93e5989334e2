------------------------------- MODULE MCBuilder -------------------------------
(***************************************************************************)
(* Instances of Builder for TLC: sources that run, that do not, that       *)
(* cannot be opened, and that fail after some of their lines.              *)
(***************************************************************************)
EXTENDS Builder

MCTextLines == {"return", "bad"}
MCFunctions == {"f"}
MCNames == {"blob", "commit"}

MCSources ==
    {[kind |-> "function", lines |-> <<"f">>, fails |-> "no"]} \cup
    [kind : {"text"}, lines : {<<>>, <<"return">>, <<"return", "bad">>},
     fails : {"no", "open", "read"}]

\* A `def` without a body is not Python.
MCRuns(body) == body # <<>> /\ \A i \in 1..Len(body) : body[i] # "bad"
=============================================================================
