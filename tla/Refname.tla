-------------------------------- MODULE Refname --------------------------------
(***************************************************************************)
(* Refname::check_format and check_refname_component in                    *)
(* fast-export/src/refs.rs: one action per iteration of their loops, and   *)
(* what they are to find, stated of the whole refname.                     *)
(*                                                                         *)
(* A refname is a sequence of bytes; "lock" stands for four of them, and   *)
(* "x" for any byte without a rule.                                        *)
(***************************************************************************)
EXTENDS Integers, Sequences

CONSTANTS
    Chars,
    Refnames       \* the refnames to check

\* What last is before the first byte of a component.
NoByte == ""

\* The forbidden characters, and the error of each.
Forbidden == {"\t", " ", ":", "?", "[", "\\", "^", "~"}
ForbiddenError(c) ==
    CASE c = "\t" -> "ControlChar"   [] c = " "  -> "Space"
      [] c = ":"  -> "Colon"         [] c = "?"  -> "Question"
      [] c = "["  -> "OpenBracket"   [] c = "\\" -> "Backslash"
      [] c = "^"  -> "Caret"         [] c = "~"  -> "Tilde"

ASSUME RefnameAssumption ==
    /\ Chars \subseteq STRING
    /\ Refnames \subseteq Seq(Chars)

Flags == [AllowOneLevel : BOOLEAN, RefspecPattern : BOOLEAN]

VARIABLES
    refname, flags,        \* the arguments
    start,                 \* rest begins after this many bytes
    i,                     \* where in rest the loop over a component is
    last,                  \* the byte before, if there is one
    allow_asterisk, component_count,
    result                 \* "none" until the check returns

argVars == <<refname, flags>>
vars == <<argVars, start, i, last, allow_asterisk, component_count, result>>

Rest == Len(refname) - start
Byte == refname[start + i + 1]
Component(len) == SubSeq(refname, start + 1, start + len)

Init ==
    /\ refname \in Refnames
    /\ flags \in Flags
    /\ start = 0 /\ i = 0 /\ last = NoByte
    /\ allow_asterisk = flags.RefspecPattern
    /\ component_count = 0
    /\ result = IF refname = <<"@">> THEN "IsAt" ELSE "none"

Fail(err) ==
    /\ result' = err
    /\ UNCHANGED <<argVars, start, i, last, allow_asterisk, component_count>>

Checking == result = "none"

\* The end of the component is not reached yet.
InComponent == Checking /\ i < Rest /\ Byte # "/"

-----------------------------------------------------------------------------
\* A byte that is not allowed, or not after the one before it.
RejectByte ==
    /\ InComponent
    /\ \/ Byte \in Forbidden /\ Fail(ForbiddenError(Byte))
       \/ /\ Byte = "*" /\ ~allow_asterisk
          /\ Fail(IF flags.RefspecPattern THEN "MultipleAsterisks" ELSE "Asterisk")
       \/ Byte = "." /\ last = "." /\ Fail("DotDot")
       \/ Byte = "{" /\ last = "@" /\ Fail("AtBrace")

ByteOk ==
    /\ Byte \notin Forbidden
    /\ Byte = "*" => allow_asterisk
    /\ ~(Byte = "." /\ last = ".")
    /\ ~(Byte = "{" /\ last = "@")

\* Mutant: the pattern may have any number of asterisks.
PassByteAsterisks ==
    /\ InComponent /\ ByteOk
    /\ last' = Byte
    /\ i' = i + 1
    /\ UNCHANGED <<argVars, start, allow_asterisk, component_count, result>>

\* Mutant: the loop goes on behind the byte it has not looked at.
PassByteTwice ==
    /\ InComponent /\ ByteOk
    /\ allow_asterisk' = (allow_asterisk /\ Byte # "*")
    /\ last' = Byte
    /\ i' = i + 2
    /\ UNCHANGED <<argVars, start, component_count, result>>

PassByte ==
    /\ InComponent /\ ByteOk
    /\ allow_asterisk' = (allow_asterisk /\ Byte # "*")
    /\ last' = Byte
    /\ i' = i + 1
    /\ UNCHANGED <<argVars, start, component_count, result>>

\* The bytes of the component have been looked at, and there are i of them.
ComponentRead == Checking /\ (i < Rest => Byte = "/")

EmptyComponent ==
    /\ ComponentRead /\ i = 0
    /\ Fail(CASE refname = <<>>       -> "Empty"
              [] refname # <<>> /\ component_count = 0 -> "StartsWithSlash"
              [] component_count # 0 /\ Rest = 0 -> "EndsWithSlash"
              [] component_count # 0 /\ Rest # 0 -> "SlashSlash")

EndsWith(s, suffix) ==
    /\ Len(s) >= Len(suffix)
    /\ SubSeq(s, Len(s) - Len(suffix) + 1, Len(s)) = suffix

RejectComponent ==
    /\ ComponentRead /\ i # 0
    /\ \/ /\ Component(i)[1] = "."
          /\ Fail(IF i = 1 THEN "ComponentIsDot" ELSE "ComponentStartsWithDot")
       \/ /\ Component(i)[1] # "." /\ EndsWith(Component(i), <<".", "lock">>)
          /\ Fail("ComponentEndsWithDotLock")

ComponentOk ==
    /\ Component(i)[1] # "."
    /\ ~EndsWith(Component(i), <<".", "lock">>)

\* Mutant: the next component begins at the slash.
NextComponentAtSlash ==
    /\ ComponentRead /\ i # 0 /\ ComponentOk /\ i < Rest
    /\ start' = start + i
    /\ i' = 0 /\ last' = NoByte
    /\ component_count' = component_count + 1
    /\ UNCHANGED <<argVars, allow_asterisk, result>>

NextComponent ==
    /\ ComponentRead /\ i # 0 /\ ComponentOk /\ i < Rest
    /\ start' = start + i + 1
    /\ i' = 0 /\ last' = NoByte
    /\ component_count' = component_count + 1
    /\ UNCHANGED <<argVars, allow_asterisk, result>>

\* The checks after the last component.
Finish ==
    /\ ComponentRead /\ i # 0 /\ ComponentOk /\ i = Rest
    /\ component_count' = component_count + 1
    /\ result' = IF EndsWith(refname, <<".">>) THEN "EndsWithDot"
                 ELSE IF ~flags.AllowOneLevel /\ component_count + 1 < 2
                 THEN "OnlyOneLevel"
                 ELSE "Ok"
    /\ UNCHANGED <<argVars, start, i, last, allow_asterisk>>

\* The check has returned.  It gets nowhere else without an action.
Returned == ~Checking /\ UNCHANGED vars

Next ==
    \/ RejectByte \/ PassByte
    \/ EmptyComponent \/ RejectComponent \/ NextComponent \/ Finish
    \/ Returned

Spec == Init /\ [][Next]_vars

-----------------------------------------------------------------------------
(* What the errors say of a refname (refs.rs:43-91).                         *)

Has(s) == \E p \in 0..(Len(refname) - Len(s)) : SubSeq(refname, p + 1, p + Len(s)) = s

Asterisks == {p \in 1..Len(refname) : refname[p] = "*"}

\* The bytes after p, up to q, are a component.
IsComponent(p, q) ==
    /\ p <= q
    /\ p = 0 \/ refname[p] = "/"
    /\ q = Len(refname) \/ refname[q + 1] = "/"
    /\ \A k \in (p + 1)..q : refname[k] # "/"
SomeComponent(Test(_)) ==
    \E p, q \in 0..Len(refname) :
        IsComponent(p, q) /\ Test(SubSeq(refname, p + 1, q))

IsDot(s)          == s = <<".">>
StartsWithDot(s)  == Len(s) > 1 /\ s[1] = "."
EndsWithDotLock(s) == EndsWith(s, <<".", "lock">>)

Holds(err) ==
    CASE err = "Empty"           -> refname = <<>>
      [] err = "StartsWithSlash" -> refname # <<>> /\ refname[1] = "/"
      [] err = "EndsWithSlash"   -> EndsWith(refname, <<"/">>)
      [] err = "SlashSlash"      -> Has(<<"/", "/">>)
      [] err = "OnlyOneLevel"    -> ~flags.AllowOneLevel /\ ~Has(<<"/">>)
      [] err = "ComponentIsDot"  -> SomeComponent(IsDot)
      [] err = "ComponentStartsWithDot" -> SomeComponent(StartsWithDot)
      [] err = "EndsWithDot"     -> EndsWith(refname, <<".">>)
      [] err = "DotDot"          -> Has(<<".", ".">>)
      [] err = "Asterisk"        -> ~flags.RefspecPattern /\ Asterisks # {}
      [] err = "MultipleAsterisks" ->
            flags.RefspecPattern /\ \E p, q \in Asterisks : p # q
      [] err = "IsAt"            -> refname = <<"@">>
      [] err = "AtBrace"         -> Has(<<"@", "{">>)
      [] err = "ComponentEndsWithDotLock" -> SomeComponent(EndsWithDotLock)
      [] OTHER -> \E c \in Forbidden : err = ForbiddenError(c) /\ Has(<<c>>)

Errors ==
    {"Empty", "StartsWithSlash", "EndsWithSlash", "SlashSlash", "OnlyOneLevel",
     "ComponentIsDot", "ComponentStartsWithDot", "EndsWithDot", "DotDot",
     "Asterisk", "MultipleAsterisks", "IsAt", "AtBrace",
     "ComponentEndsWithDotLock"} \cup {ForbiddenError(c) : c \in Forbidden}

TypeOK ==
    /\ refname \in Refnames /\ flags \in Flags
    /\ start \in 0..Len(refname) /\ i \in 0..Rest
    /\ last \in Chars \cup {NoByte}
    /\ allow_asterisk \in BOOLEAN
    /\ component_count \in 0..(Len(refname) + 1)
    /\ result \in Errors \cup {"none", "Ok"}

\* refs.rs:118-122: a refname is accepted if none of the errors holds of it,
\* whichever component, and whichever combination of flags, it is about.
AcceptedIsValid == result = "Ok" => \A err \in Errors : ~Holds(err)

\* The error that is returned holds of the refname, also where several do and
\* where what is found in one component depends on the ones before it.
ErrorHolds == result \in Errors => Holds(result)
=============================================================================
