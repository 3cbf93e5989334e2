------------------------------ MODULE MCBufPool ------------------------------
(***************************************************************************)
(* Instances of BufPool for TLC: five or six allocations, an empty, a     *)
(* short and an oversized line, and the truncations of a parser that keeps *)
(* no line, one line, or two.                                              *)
(***************************************************************************)
EXTENDS BufPool, TLC

CONSTANTS b1, b2, b3, b4, b5, b6, empty, short, long

MCBuffers5 == {b1, b2, b3, b4, b5}
MCBuffers6 == {b1, b2, b3, b4, b5, b6}
MCTexts == {empty, short, long}
MCShort == {empty, short}
MCLarge == {long}
MCNone == {}
MCLens == {0, 1, 2}

\* The allocations are interchangeable.
Sym5 == Permutations(MCBuffers5)
Sym6 == Permutations(MCBuffers6)
=============================================================================
