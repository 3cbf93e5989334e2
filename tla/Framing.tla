------------------------------- MODULE Framing -------------------------------
(***************************************************************************)
(* What a fast-export stream is to its reader: lines of directives, and    *)
(* data streams that the directives announce and that are passed over as a *)
(* whole.  No caller, no buffer and no way of reading the data appears     *)
(* here: DataReader is shown to implement this specification, so none of   *)
(* them can change where the next directive is read from.                  *)
(***************************************************************************)
EXTENDS Lines

CONSTANT Headers

VARIABLES
    at,       \* where the parser is in the directives
    header,   \* the header of the latest data stream
    in_data   \* the data stream at position at has not been passed yet

framingVars == <<stream, at, header, in_data>>

Init ==
    /\ stream \in Streams
    /\ at = 0
    /\ header = Delimited(<<>>)
    /\ in_data = FALSE

\* A directive, which may announce a data stream right after its line.
Directive ==
    /\ ~in_data
    /\ \E n \in 0..(Len(stream) - at) :
           IsLine(at, n) /\ at' = LineEnd(at, n)
    /\ \/ in_data' = FALSE /\ UNCHANGED header
       \/ in_data' = TRUE /\ header' \in Headers
    /\ UNCHANGED stream

\* The data stream is passed, to the position its header says.
Data ==
    /\ in_data
    /\ in_data' = FALSE
    /\ ResumesAt(header, at, at')
    /\ UNCHANGED <<stream, header>>

Next == Directive \/ Data

Spec == Init /\ [][Next]_framingVars
=============================================================================
