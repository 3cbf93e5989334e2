------------------------------- MODULE BufPool -------------------------------
(***************************************************************************)
(* The pool of line buffers of the parser: BufPool in                      *)
(* fast-export/src/parse/pool.rs.                                          *)
(*                                                                         *)
(* Every line of the stream is read into a buffer of its own, which the    *)
(* pool owns; slices of it are handed to the caller and stay valid until   *)
(* the next truncate_back.  A buffer (a Vec<u8> and its heap allocation)   *)
(* is a member of Buffers; what has been written into it is a member of    *)
(* Texts.  truncate_back takes &mut self, so nothing runs between its      *)
(* steps; its loop is still one action per iteration, so that the order of *)
(* the loop's tests is the code's.                                         *)
(***************************************************************************)
EXTENDS Integers, Sequences, SequencesExt

CONSTANTS
    Buffers,             \* the allocations that exist
    NotLent,             \* no slice of the buffer has been handed out
    Texts,               \* what may be written into a buffer
    Empty,               \* the contents of a cleared buffer
    Large,               \* the texts longer than MAX_BUF_CAPACITY
    INIT_FREE_CAPACITY,
    MAX_FREE_CAPACITY,
    Lens,                \* the arguments of truncate_back
    MaxPushes            \* bound: the number of lines ever pushed

ASSUME BufPoolAssumption ==
    /\ NotLent \notin Texts
    /\ Empty \in Texts \ Large
    /\ INIT_FREE_CAPACITY \in Nat
    /\ MAX_FREE_CAPACITY \in Nat
    /\ Lens \subseteq Nat
    /\ MaxPushes \in Nat

VARIABLES
    live,        \* the buffers of the latest lines, oldest first
    aux,         \* the buffers of derived data
    free,        \* a stack of buffers to reuse
    capacity,    \* free.capacity()
    text,        \* what each buffer holds
    draining,    \* what the loop of truncate_back has still to visit
    panicked,    \* an arithmetic check of the debug build has failed
    history,     \* ghost: every text ever pushed onto live
    lent         \* ghost: buffer |-> the text seen by the slices handed out
                 \*        since the last truncate_back

vars == <<live, aux, free, capacity, text, draining, panicked, history, lent>>

Running == draining = <<>> /\ ~panicked

\* The buffer is in no list: its allocation does not exist, or no more.
Unallocated(b) == \A s \in {live, aux, free, draining} : b \notin ToSet(s)

Init ==
    /\ live = <<>>
    /\ aux = <<>>
    /\ free = <<>>
    /\ capacity = INIT_FREE_CAPACITY
    /\ text = [b \in Buffers |-> Empty]
    /\ draining = <<>>
    /\ panicked = FALSE
    /\ history = <<>>
    /\ lent = [b \in Buffers |-> NotLent]

\* pool.free.pop().unwrap_or_default(): the buffer on top of the free stack,
\* or a new allocation, which may reuse the address of a dropped buffer.
TakeBuffer(b) ==
    IF free = <<>>
    THEN Unallocated(b) /\ UNCHANGED free
    ELSE b = Last(free) /\ free' = Front(free)

\* Mutant: a ring of two lines, as git's is of 100.
PushBackInRing(b, t) ==
    /\ Running
    /\ Len(history) < MaxPushes
    /\ TakeBuffer(b)
    /\ live' = Append(IF Len(live) < 2 THEN live ELSE Tail(live), b)
    /\ text' = [text EXCEPT ![b] = t]
    /\ lent' = [lent EXCEPT ![b] = t]
    /\ history' = Append(history, t)
    /\ UNCHANGED <<aux, capacity, draining, panicked>>

\* push_back, and the caller that fills the buffer through the returned &mut
\* before it calls the pool again.
PushBack(b, t) ==
    /\ Running
    /\ Len(history) < MaxPushes
    /\ TakeBuffer(b)
    /\ live' = Append(live, b)
    /\ text' = [text EXCEPT ![b] = t]
    /\ lent' = [lent EXCEPT ![b] = t]
    /\ history' = Append(history, t)
    /\ UNCHANGED <<aux, capacity, draining, panicked>>

\* Mutant: the buffer is not cleared.
NewAuxBufferUncleared(b, t) ==
    /\ Running
    /\ TakeBuffer(b)
    /\ aux' = Append(aux, b)
    /\ text' = [text EXCEPT ![b] = <<text[b], t>>]
    /\ lent' = [lent EXCEPT ![b] = t]
    /\ UNCHANGED <<live, capacity, draining, panicked, history>>

\* Mutant: the buffer goes to the lines.
NewAuxBufferInLive(b, t) ==
    /\ Running
    /\ TakeBuffer(b)
    /\ live' = Append(live, b)
    /\ text' = [text EXCEPT ![b] = t]
    /\ lent' = [lent EXCEPT ![b] = t]
    /\ UNCHANGED <<aux, capacity, draining, panicked, history>>

\* new_aux_buffer, and the caller that fills the buffer.
NewAuxBuffer(b, t) ==
    /\ Running
    /\ TakeBuffer(b)
    /\ aux' = Append(aux, b)
    /\ text' = [text EXCEPT ![b] = t]
    /\ lent' = [lent EXCEPT ![b] = t]
    /\ UNCHANGED <<live, capacity, draining, panicked, history>>

\* Vec::reserve: nothing when the spare capacity is enough, otherwise the
\* amortised growth of the standard library (doubling, and at least 4).
AtLeast(m, n) == IF m >= n THEN m ELSE n
Reserve(additional) ==
    IF capacity - Len(free) >= additional
    THEN capacity
    ELSE AtLeast(AtLeast(2 * capacity, Len(free) + additional), 4)

\* live.len().saturating_sub(len)
LiveRemove(len) == IF Len(live) > len THEN Len(live) - len ELSE 0

Additional(len) ==
    LET wanted == LiveRemove(len) + Len(aux)
        room   == MAX_FREE_CAPACITY - Len(free)
    IN  IF wanted <= room THEN wanted ELSE room

\* truncate_back up to its loop.  MAX_FREE_CAPACITY - free.len() is checked by
\* the debug build.
TruncateBack(len) ==
    /\ Running
    /\ lent' = [b \in Buffers |-> NotLent]
    /\ IF Len(free) > MAX_FREE_CAPACITY
       THEN /\ panicked' = TRUE
            /\ UNCHANGED <<live, aux, capacity, draining>>
       ELSE /\ capacity' = Reserve(Additional(len))
            /\ draining' = SubSeq(live, 1, LiveRemove(len)) \o aux
            /\ live' = SubSeq(live, LiveRemove(len) + 1, Len(live))
            /\ aux' = <<>>
            /\ UNCHANGED panicked
    /\ UNCHANGED <<free, text, history>>

\* One iteration of the loop.  Leaving it early drops what the two Drain
\* iterators still hold.
RecycleStop ==
    /\ draining # <<>>
    /\ Len(free) >= capacity
    /\ draining' = <<>>
    /\ UNCHANGED <<live, aux, free, capacity, text, panicked, history, lent>>

\* Its test (pool.rs:111) is on the length of what a buffer holds.  The capacity
\* of the buffer, which clear keeps, is read by nothing in the pool and left out.
Recycle ==
    /\ draining # <<>>
    /\ Len(free) < capacity
    /\ draining' = Tail(draining)
    /\ free' = IF text[Head(draining)] \in Large
               THEN free
               ELSE Append(free, Head(draining))
    /\ UNCHANGED <<live, aux, capacity, text, panicked, history, lent>>

Next ==
    \/ \E b \in Buffers, t \in Texts : PushBack(b, t)
    \/ \E b \in Buffers, t \in Texts : NewAuxBuffer(b, t)
    \/ \E len \in Lens : TruncateBack(len)
    \/ RecycleStop
    \/ Recycle

Spec == Init /\ [][Next]_vars

-----------------------------------------------------------------------------
\* Every list holds buffers, and the ghosts hold texts.
TypeOK ==
    /\ live \in Seq(Buffers)
    /\ aux \in Seq(Buffers)
    /\ free \in Seq(Buffers)
    /\ draining \in Seq(Buffers)
    /\ capacity \in Nat
    /\ text \in [Buffers -> Texts]
    /\ panicked \in BOOLEAN
    /\ history \in Seq(Texts)
    /\ lent \in [Buffers -> Texts \cup {NotLent}]

\* "Slices returned from it are stable and may be retained until truncate_back
\* is called" (pool.rs:21-22): a buffer a slice points into is still owned by
\* live or aux, and holds what it held when the slice was taken.
SlicesStable ==
    \A b \in Buffers : lent[b] # NotLent =>
        /\ b \in ToSet(live) \cup ToSet(aux)
        /\ text[b] = lent[b]

\* The live buffers hold the latest lines, in the order they were read: the
\* lines of a crash dump are never those of another command, whatever has been
\* freed and reused between.
LiveIsRecentHistory ==
    /\ Len(live) <= Len(history)
    /\ \A i \in 1..Len(live) :
           text[live[i]] = history[Len(history) - Len(live) + i]

\* "The maximum number of free buffers to retain" (pool.rs:55-57).
FreeWithinMax == Len(free) <= MAX_FREE_CAPACITY
=============================================================================
