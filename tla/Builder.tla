-------------------------------- MODULE Builder --------------------------------
(***************************************************************************)
(* The builder of a RepoFilter, with its Python callbacks:                 *)
(* transform-repo/src/builder.rs.  build moves the callbacks into the      *)
(* filter field by field (From<Builder> in filter.rs), which is data       *)
(* without control and not modelled: here it ends the builder.             *)
(*                                                                         *)
(* A callback is set from a function, or from a source of lines that is    *)
(* wrapped in a `def` and run.  The code is put together in code_buf, one  *)
(* buffer for all callbacks of a builder, and any step of it can fail.  A  *)
(* builder holds a token of the interpreter, so that all builders are used *)
(* by one thread: one call runs at a time.                                 *)
(***************************************************************************)
EXTENDS Integers, Sequences

CONSTANTS
    Builders,
    Names,         \* the callbacks: "filename", "message", ...
    TextLines,     \* lines of code
    Functions,     \* functions that have been parsed already
    Sources,       \* what callbacks are set from
    Runs(_),       \* Python can run a `def` with this body
    None

Source == [kind : {"function", "text"},
           lines : Seq(TextLines \cup Functions),
           fails : {"no", "open", "read"}]

ASSUME BuilderAssumption ==
    /\ "end" \notin Names \cup TextLines
    /\ \A s \in Sources :
        /\ DOMAIN s = {"kind", "lines", "fails"}
        /\ s.kind = "function" => Len(s.lines) = 1 /\ s.lines[1] \in Functions
        /\ s.kind = "text" => s.lines \in Seq(TextLines)
    /\ Sources \subseteq Source /\ None \notin Sources
    /\ \A body \in {s.lines : s \in Sources} : Runs(body) \in BOOLEAN
    /\ None \notin Seq(Names \cup TextLines \cup Functions \cup {"end"})

VARIABLES
    status,      \* of a builder: "none", "alive", or "built" (moved away)
    callbacks,   \* of each builder, by name: a function or None
    code_buf,    \* of each builder
    call,        \* the call of a setter in progress
    ret,         \* the result of the last call
    given        \* ghost: the source that each callback was set from

vars == <<status, callbacks, code_buf, call, ret, given>>

NoCallbacks == [n \in Names |-> None]
Setting(b, n, s) == [builder |-> b, name |-> n, source |-> s, read |-> 0]

\* A function is the code that it was made from.
Code(n, lines) == <<n>> \o lines \o <<"end">>
FunctionOf(n, s) == IF s.kind = "function" THEN s.lines ELSE Code(n, s.lines)

Init ==
    /\ status = [b \in Builders |-> "none"]
    /\ callbacks = [b \in Builders |-> NoCallbacks]
    /\ code_buf = [b \in Builders |-> <<>>]
    /\ call = None
    /\ ret = "Ok"
    /\ given = [b \in Builders |-> NoCallbacks]

-----------------------------------------------------------------------------
\* Builder::new
New(b) ==
    /\ call = None /\ status[b] = "none"
    /\ status' = [status EXCEPT ![b] = "alive"]
    /\ callbacks' = [callbacks EXCEPT ![b] = NoCallbacks]
    /\ code_buf' = [code_buf EXCEPT ![b] = <<>>]
    /\ UNCHANGED <<call, ret, given>>

\* The clone c has the callbacks of b, and a buffer of its own.
Clone(b, c) ==
    /\ call = None /\ status[b] = "alive" /\ status[c] = "none"
    /\ status' = [status EXCEPT ![c] = "alive"]
    /\ callbacks' = [callbacks EXCEPT ![c] = callbacks[b]]
    /\ code_buf' = [code_buf EXCEPT ![c] = <<>>]
    /\ given' = [given EXCEPT ![c] = given[b]]
    /\ UNCHANGED <<call, ret>>

\* Builder::build
Build(b) ==
    /\ call = None /\ status[b] = "alive"
    /\ status' = [status EXCEPT ![b] = "built"]
    /\ UNCHANGED <<callbacks, code_buf, call, ret, given>>

-----------------------------------------------------------------------------
\* What a setter does with a function.
Assign(b, n, s, f) ==
    /\ callbacks' = [callbacks EXCEPT ![b][n] = f]
    /\ given' = [given EXCEPT ![b][n] = s]
    /\ ret' = "Ok"

Redefined(b, n) ==
    /\ call = None /\ status[b] = "alive"
    /\ callbacks[b][n] # None
    /\ ret' = "redefined"
    /\ UNCHANGED <<status, callbacks, code_buf, call, given>>

SetFunction(b, n, s) ==
    /\ call = None /\ status[b] = "alive"
    /\ callbacks[b][n] = None
    /\ s.kind = "function"
    /\ code_buf' = [code_buf EXCEPT ![b] = <<>>]
    /\ Assign(b, n, s, s.lines)
    /\ UNCHANGED <<status, call>>

\* Mutant: what the last call has left stays in the buffer.
SetTextUncleared(b, n, s) ==
    /\ call = None /\ status[b] = "alive"
    /\ callbacks[b][n] = None
    /\ s.kind = "text"
    /\ code_buf' = [code_buf EXCEPT ![b] = Append(@, n)]
    /\ call' = Setting(b, n, s)
    /\ UNCHANGED <<status, callbacks, ret, given>>

\* Mutant: no look at whether the callback has been set.
SetTextAgain(b, n, s) ==
    /\ call = None /\ status[b] = "alive"
    /\ s.kind = "text"
    /\ code_buf' = [code_buf EXCEPT ![b] = <<n>>]
    /\ call' = Setting(b, n, s)
    /\ UNCHANGED <<status, callbacks, ret, given>>

\* A source that is a path may fail to open; else parse_callback begins.
SetText(b, n, s) ==
    /\ call = None /\ status[b] = "alive"
    /\ callbacks[b][n] = None
    /\ s.kind = "text"
    /\ \/ /\ s.fails = "open"
          /\ code_buf' = [code_buf EXCEPT ![b] = <<>>]
          /\ ret' = "error"
          /\ UNCHANGED call
       \/ /\ s.fails # "open"
          /\ code_buf' = [code_buf EXCEPT ![b] = <<n>>]
          /\ call' = Setting(b, n, s)
          /\ UNCHANGED ret
    /\ UNCHANGED <<status, callbacks, given>>

\* Mutant: a line is passed over.
PushLineSkip ==
    /\ call # None /\ call.read < Len(call.source.lines)
    /\ code_buf' = [code_buf EXCEPT ![call.builder] =
                        Append(@, call.source.lines[call.read + 1])]
    /\ call' = [call EXCEPT !.read = @ + 2]
    /\ UNCHANGED <<status, callbacks, ret, given>>

\* One iteration of the loop over the lines of the source.
PushLine ==
    /\ call # None /\ call.read < Len(call.source.lines)
    /\ code_buf' = [code_buf EXCEPT ![call.builder] =
                        Append(@, call.source.lines[call.read + 1])]
    /\ call' = [call EXCEPT !.read = @ + 1]
    /\ UNCHANGED <<status, callbacks, ret, given>>

AllRead == call # None /\ call.read = Len(call.source.lines)

\* The source fails after some lines.
LineFails ==
    /\ AllRead /\ call.source.fails = "read"
    /\ call' = None
    /\ ret' = "error"
    /\ UNCHANGED <<status, callbacks, code_buf, given>>

\* A module cannot be imported, or Python cannot run the code.
RunFails ==
    /\ AllRead /\ call.source.fails # "read"
    /\ code_buf' = [code_buf EXCEPT ![call.builder] = Append(@, "end")]
    /\ call' = None
    /\ ret' = "error"
    /\ UNCHANGED <<status, callbacks, given>>

RunCode ==
    LET b == call.builder
        code == Append(code_buf[b], "end")
    IN  /\ AllRead /\ call.source.fails # "read"
        /\ Runs(call.source.lines)
        /\ code_buf' = [code_buf EXCEPT ![b] = code]
        /\ Assign(b, call.name, call.source, code)
        /\ call' = None
        /\ UNCHANGED status

Next ==
    \/ \E b \in Builders :
        \/ New(b)
        \/ \E c \in Builders : Clone(b, c)
        \/ Build(b)
        \/ \E n \in Names :
            \/ Redefined(b, n)
            \/ \E s \in Sources : SetFunction(b, n, s) \/ SetText(b, n, s)
    \/ PushLine \/ LineFails \/ RunFails \/ RunCode

Spec == Init /\ [][Next]_vars

-----------------------------------------------------------------------------
FunctionType == Seq(Names \cup TextLines \cup Functions \cup {"end"})
CallbackType == [Builders -> [Names -> FunctionType \cup {None}]]

CallOK ==
    \/ call = None
    \/ /\ call \in [builder : Builders, name : Names,
                   source : Sources, read : Nat]
       /\ call.read <= Len(call.source.lines)
       /\ status[call.builder] = "alive"

TypeOK ==
    /\ status \in [Builders -> {"none", "alive", "built"}]
    /\ callbacks \in CallbackType
    /\ code_buf \in [Builders -> FunctionType]
    /\ given \in [Builders -> [Names -> Sources \cup {None}]]
    /\ ret \in {"Ok", "error", "redefined"}
    /\ CallOK

Expected(b, n) ==
    IF given[b][n] = None THEN None ELSE FunctionOf(n, given[b][n])

\* builder.rs:42-44: a callback is the function that was given, or the code of
\* its own source, all of it and nothing of another one's; a setter that has
\* failed has set nothing, and a clone starts with what its original had.
CallbacksAsGiven ==
    \A b \in Builders, n \in Names : callbacks[b][n] = Expected(b, n)

\* builder.rs:47: a callback is set once, in the builder as in its clones; no
\* call on another builder, and no failure, takes it back or changes it.
SetOnce ==
    [][\A b \in Builders, n \in Names :
           status[b] # "none" /\ callbacks[b][n] # None =>
               callbacks'[b][n] = callbacks[b][n]]_vars
=============================================================================
