------------------------------- MODULE MCRefname -------------------------------
(***************************************************************************)
(* Instances of Refname for TLC: every refname of up to four bytes over    *)
(* the bytes with a rule, and a longer one over those with a memory.       *)
(***************************************************************************)
EXTENDS Refname

MCChars == {".", "/", "*", "@", "{", "lock", "x", "\t", " ", ":", "?", "[",
            "\\", "^", "~"}

UpTo(n, chars) == UNION {[1..k -> chars] : k \in 0..n}

MCRefnames ==
    UpTo(2, MCChars) \cup UpTo(4, {".", "/", "*", "@", "{", "lock", " "})
        \cup UpTo(5, {".", "/", "*", "lock"})
=============================================================================
