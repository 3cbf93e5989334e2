-------------------------------- MODULE Quote --------------------------------
(***************************************************************************)
(* unquote_c_style_string in fast-export/src/parse/quote.rs.               *)
(*                                                                         *)
(* An index is the code's, from 0.  A byte stands for itself, but for      *)
(* those that escapes make: an octal escape makes the byte that is named   *)
(* by its three digits.                                                    *)
(***************************************************************************)
EXTENDS Integers, SequencesExt

ParseStringErrors ==
    {"Unterminated", "InvalidEscape", "InvalidOctalDigit", "OctalOverflow"}
StringPanics ==
    {"index out of bounds", "not a string", "slice out of range", "unreachable"}

DoubleQuote == "\""
Backslash   == "\\"

Failed(kind) == [kind |-> kind, text |-> <<>>, rest |-> <<>>]

EscapeNames == [a |-> "BEL", b |-> "BS", f |-> "FF", n |-> "\n", r |-> "CR",
                t |-> "TAB", v |-> "VT"]
Escaped(c) == IF c \in DOMAIN EscapeNames THEN EscapeNames[c] ELSE c
OctalDigits == {"0", "1", "2", "3", "4", "5", "6", "7"}

\* memchr2(b'"', b'\\', &s[i..]): an offset into s[i..], or -1.
Memchr2(s, i) ==
    SelectInSeq(SubSeq(s, i + 1, Len(s)), LAMBDA b : b \in {DoubleQuote, Backslash}) - 1

\* The escape at j, in the iteration of the loop that begins at i; Loop is what
\* the iterations after it return.
Escape(s, Loop, i, j) ==
    LET at(k) == s[k + 1]
        Push(ch, next) ==
            [Loop[next] EXCEPT !.text = SubSeq(s, i + 1, j) \o <<ch>> \o @]
    IN  IF j + 1 >= Len(s) THEN Failed("Unterminated")
        ELSE IF at(j + 1) \in DOMAIN EscapeNames \cup {Backslash, DoubleQuote}
        THEN Push(Escaped(at(j + 1)), j + 2)
        ELSE IF at(j + 1) \in {"0", "1", "2", "3"}
        THEN IF j + 3 >= Len(s) THEN Failed("Unterminated")
             ELSE IF {at(j + 2), at(j + 3)} \subseteq OctalDigits
             THEN Push(at(j + 1) \o at(j + 2) \o at(j + 3), j + 4)
             ELSE Failed("InvalidOctalDigit")
        ELSE IF at(j + 1) \in OctalDigits THEN Failed("OctalOverflow")
        ELSE Failed("InvalidEscape")

\* ... which has found j.
Iteration(s, Loop, i, j) ==
    IF j = -1 THEN Failed("Unterminated")
    ELSE IF j < i THEN Failed("slice out of range")
    ELSE IF s[j + 1] = DoubleQuote
    THEN [kind |-> "String", text |-> SubSeq(s, i + 1, j),
          rest |-> SubSeq(s, j + 2, Len(s))]
    ELSE IF s[j + 1] # Backslash THEN Failed("unreachable")
    ELSE Escape(s, Loop, i, j)

UnquoteFrom(s) ==
    LET Loop[i \in 1..Len(s)] == Iteration(s, Loop, i, Memchr2(s, i))
    IN  Loop[1]

\* The string at the beginning of s, without its escapes, and what follows it.
Unquote(s) ==
    IF s = <<>> THEN Failed("index out of bounds")
    ELSE IF s[1] # DoubleQuote THEN Failed("not a string")
    ELSE UnquoteFrom(s)
=============================================================================
