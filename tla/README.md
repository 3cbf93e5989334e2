# Specifications of git-transform-repo

TLA+ modules of the fast-export parser and writer in `src/fast-export` and of the
builder in `src/transform-repo` (the parts of the repository that have behaviour
to get wrong), with model-checked instances and machine-checked proofs. Every definition is translated from the Rust source;
`PROJECT.json` maps each one to its lines.

## The system

git-transform-repo is to be a successor of git-filter-repo. It has two crates.

`fast-export` parses a stream in the format of `git fast-export`:

| Component | Source | State | Operations |
|---|---|---|---|
| Line buffer pool | `parse/pool.rs` | `live`, `aux`, `free` lists of buffers | `push_back`, `back`, `new_aux_buffer`, `truncate_back`, iteration |
| Input | `parse/input.rs` (`Input`) | reader, `eof`, `line` | `read_line`, `read_data`, `skip_data`, `read_data_to_end`, `skip_optional_lf` |
| Buffered input | `parse/input.rs` (`BufInput`) | the pool, `unread` | `read_directive`, `peek_`/`bump_`/`next_directive`, `parse_directive(_many)`, `truncate_context` |
| Data reader | `parse/data.rs` | `DataState` | `open`, `read_next`, `read_to_end`, `skip_rest`, `close` |
| Parser | `parse/parser.rs` | input, `data_opened`, `data_state` | `next` and a parser for each command and argument |
| Changes | `parse/commit.rs` | the parser's buffered input | `ChangeIter::next` (nothing constructs one yet) |
| Quoted strings | `parse/quote.rs` | - | `unquote_c_style_string` |
| Commands | `command.rs`, `bytes.rs` | - | the types, `MapBytes` |
| Dump | `dump.rs`, `DataBuf` in `command.rs` | - | `dump`, `validate_delim`: writes commands back |
| Refnames | `refs.rs` | - | `check_format` |

`transform-repo` holds `Builder` (`builder.rs`: Python callbacks, set once
each, and one buffer in which their code is put together), and the skeletons of `RepoFilter` (`filter.rs`) and `FastExportParser`
(`parser.rs`), which have fields and constructors and no operations yet.

How they interact. `Parser::next` takes `&mut self`: it finishes the data
stream of the last blob, truncates the pool to the lines of context, reads
lines into the pool, and returns a command made of slices of those lines. A
`Blob` only has the header of its data; the caller opens a `DataReader`, from
any thread, which moves the same input under the parser's feet through
`UnsafeCell`s. `data_opened` is the one atomic that keeps two readers apart, and
that tells `next` whether the data has been touched. A line is read ahead when
an optional directive is looked for, and is `unread` until some command takes it.

What is hard about it: the position of the input is shared by three parties
(directives, data readers, the skip in `next`) that must agree to the byte on
where data ends, optional LF included; `line_buf` and `line_offset` are a second
position that only some of them know of; `eof` is set by a line that is still
delivered, so every loop has its own test; the peeked line outlives the command
that peeked it; slices outlive the calls that made them; and callers use the
operations in orders nobody wrote a test for: reads after an error, `next` after
a partial read, `read_to_end` after `read`, changes left half iterated. The reader can
fail at every read, with any part of a line or of data consumed, and the caller may try
again.

What makes each component correct:

* the pool: slices stable until `truncate_back`, the live lines are the latest
  ones, the number of buffers kept for reuse is bounded;
* the data reader: one at a time; it delivers the contents and nothing else; the
  parser resumes at the byte the data's header says, however it was read;
* the parser: every line is consumed once and in order, data is never parsed as
  directives, an error costs no line, data is passed exactly even when the reader
  fails on the way, the end is reported after everything and always reached;
* arguments: what is refused is what the grammar does not have, an option survives
  being dumped as a line and parsed again, the lists of file modes agree;
* the changes of a commit: the line that ends them goes to the next command;
* the dump: what is written is read back as it was, and ends where the next value
  begins, whatever the data looks like and however the writer takes it;
* the builder: a callback is the code of its own source and no other, is set once,
  is not set by a call that fails;
* refnames: one is accepted only if none of the documented faults is in it, and the
  error names a fault it has.

`PROJECT.json` lists the hazards, each at its line and with the properties
that are about it.

## Modules

| Module | What it is |
|---|---|
| `BufPool` | `BufPool` of `pool.rs` |
| `Lines` | streams as bytes: lines, data headers, where contents end |
| `Input` | `Input`: `pos` (bytes consumed), `eof`, `line`, `read_line` |
| `Framing` | the abstract specification: directives, and data passed as a whole |
| `DataReader` | data streams and their readers; implements `Framing` |
| `ReaderFaults` | `DataReader` over a reader that may fail; implements `Framing` but where a failure cuts |
| `Quote` | `unquote_c_style_string`, as a function |
| `Arguments` | what the arguments of directives, changes and options are parsed to |
| `Parser` | `BufInput` and `Parser::next`, over a reader that may fail; implements `Framing` |
| `Changes` | `ChangeIter::next`, composed with `Parser` over one `BufInput` |
| `Dump` | `DataBuf::dump`, the other dumps, and `validate_delim` |
| `Builder` | `Builder`, from `new` to `build` |
| `Refname` | `check_format` and its loop over a component |
| `MCBufPool`, `MCDataReader`, `MCParser`, `MCDump`, `MCBuilder`, `MCRefname` | instances for TLC |
| `BufPoolProofs`, `LinesProofs`, `DataReaderProofs`, `ReaderFaultsProofs`, `ChangesProofs`, `DumpProofs`, `BuilderProofs`, `RefnameProofs` | theorems |

`DataReader` and `Parser` both extend `Input`, which extends `Lines`.
`DataReader` has every way of reading data and one line for all directives;
`Parser` has every directive and one step for all ways of reading data. They
meet in `Framing`, which both implement (`ImplementsFraming` of
each, as a theorem; with failures `FaultsImplementFraming`, by TLC and as a theorem): what one takes
for a step of the other is the abstract step that the other is shown to take. `ReaderFaults` extends
`DataReader` with the failing outcomes of its calls, and the run of `DataReader` is one of it. `Changes` extends
`Parser` with the second user of its lines, and its specification is the one the parser
runs check. `Parser` extends `Arguments`, which extends `Quote`: pure operators, applied
where the code calls the parse function. `Dump`
extends `Lines` as well: that dumped data is read back is stated with the same
`ContentsEnd` and `ResumesAt` that the readers are checked against.

### BufPool

`live`, `aux` and `free` are sequences of buffers; a buffer is an allocation,
`text` is what it holds. `PushBack` and `NewAuxBuffer` include the caller that
fills the buffer through the returned `&mut`. `truncate_back` is `TruncateBack`
(up to the loop) and `Recycle` / `RecycleStop` (an iteration). `Reserve` is
`Vec::reserve`, by the growth rule of the standard library. The capacity of a buffer is
left out, since nothing in the pool reads it: `Large` is about the length of a text, as the test in the
loop is. `history` and `lent`
are ghosts: all lines ever pushed, and what the outstanding slices show.
`MaxPushes` bounds `history`.

### DataReader

The fields of `DataState` are variables of the same names. `call` is the call in
progress: calls without a loop are one action, `skip_data` and the delimited
`read_data_to_end` are one action per iteration. `Threads` race to `Open`; the
holder reads with buffers of `BufSizes`, and may do so after errors and after the
end. A failed debug assertion or an overflow is `call = "panicked"`. `OneRead`
is an assumption on callers: `read_to_end` is used only on a fresh reader. The
run `datareader_reread` shows what happens without it: `read_to_end` on a finished stream
moves the input. That no other operation does, in whatever order readers are used, needs no such
assumption (`OnlyReadToEndPassesData`, a theorem). `MaxLenRead` bounds the
retries of a failing skip, each of which adds to `len_read`.

The data buffer of a `read` is abstracted to its size; the directives to one
line, which is the header of a blob or not.

### ReaderFaults

An io::Error of the reader is one more outcome of each call, an action beside the one in
`DataReader`: `ReadCountedFails`, `ReadLineFails`, `SkipCountedFails`, `SkipLineFails`,
`ReadToEndCountedFails` and `SlurpLineFails`. Each leaves what the code's `?` leaves: `read_line` with a
part of a line in the buffer (`BreakLine`), or everything done but the look for the optional LF
(`PassDelimiter`). The caller may go on, retry, close, or call `next`. That directives fail is
in `Parser`, not here.

A failure costs a caller its place when it splits a line, or comes in a `read_to_end`, which
records nothing of what it has consumed: the ghost `cut`. The properties of position and
contents are stated of the other failures, after which the code does keep its promises: a retried
skip of counted data goes on where it was, and a failure at the optional LF
(`lf_missed`) leaves at most this LF behind. After a `cut` they fail, as they must for this
code: the rest of a split line is taken for a line, and may equal the delimiter. Even so the data
streams and directives after it are framed as ever (`FaultsImplementFraming`). When the last bytes
of counted data come with a failure at the LF, they are in the caller's buffer and not announced;
they count as `skipped`.

### Quote and Arguments

One operator per parse function, on sequences of bytes, with the errors in the order of
the code. A keyword is one byte, with its "=" if it has one. The result is a record of a kind (of the
value, the error or the panic), a number, a unit and slices. Integers are bounded by
`U32_MAX` and `U64_MAX`, small in the runs so that digits overflow them; those of modes by 65535. `Quote`
counts from 0 as the code does: the panics of its indexing are results.

`Unquote` panics on every terminated string, since `memchr2` returns an offset into
`s[i..]` that the code uses as one into `s` (quote.rs:30-31, 80). So the escapes, which
are modelled, are never reached, by any string (the lemma `UnquoteFails`).
`Escape` is the arm of the backslash and `Iteration` the loop's body;
the loop itself is a function of the index at which an iteration begins.

### Parser

`pc` is where the call of `next` is: `idle`, before its first line (`command`), at the
optional LF of a checkpoint, an alias or a progress (`skip`), among the directives of a
command (`steps`, with `command` and `step`), at the contents of a message (`message`), or
in `ChangeIter::next` (`change`). `view` is what `peek_directive` returned. `Steps` is
the table of the directives of each command, in the order of `parse_blob` to
`parse_alias`. `TakeDirective` and `PassDirective` are the two outcomes of
`parse_directive`; the argument is parsed in the same step and kept in `parsed`, with its
value. A failed assertion or another panic is `pc = "panicked"`.

`ReaderFails` is an io::Error, which may come wherever the reader is called: in the middle of a
line (`PeekFails`: what was read of it stays in the pool), in the middle of data or at the
LF after it (`NextSkipFails`, `MessageFails`), and at an optional LF (`SkipLF`). `len_read` is
what a retried skip goes on from. `faults` counts the failures, up to
`MaxFaults`, on the streams in `Faulty`.

`seen` and `taken` are ghosts: where the lines begin that were read, and that commands were
given. So are `announced` and `start` (the latest data stream) and `cut` (a message was given up
in the middle; the code then parses what is left of it as directives). With them `Parser`
implements `Framing`: a line read ahead counts as read when it is taken, and a data
stream until it has been passed. After a failure of the reader this is not claimed: a directive may
then begin in the middle of a line.

`PeekUnread` returns the line as the pool has it, with its LF, as the code
does. So most commands that lack an optional directive are errors in this model, as they
are in the program; `MCParser` has streams with all of them as well. Where the argument may
be any text, as of an `option` after a `reset`, the command is accepted with the LF
as the last byte of its text.

`DumpOption` is the line that an option is written back as, its LF included. `OptionReadsBack` says
that it is one line, which is parsed as the option, and is stated of arguments without an LF: of the
others the first line is another option, and the rest no directive.

### Changes

No code constructs a `ChangeIter`. `Changes` takes it for what its comment says, "a
borrow of `Parser::input`": after `next` has returned a commit, the caller may iterate
(`ChangeBegin`), until it calls `next` again, and it may go on after an error.
`ChangeEnd` takes a change (`TakeChange`), or puts the line back (`LeaveLine`), which
asserts that the stream has not ended. The contents of an inline change are a TODO of the code.

### Dump

A dump puts what it is to write in `rest`, and the writer takes it in any parts
(`Write`) or fails (`WriteFails`); `stream` is what has been written, and `items`,
a ghost, what was dumped where. The writer is `write_all` of an `io::Write`,
external. A byte stands for a keyword, a numeral (`Decimal`, a different one for
each length) or a byte of an argument or of data. The parts of `validate_delim`
are an operator each, and `DumpData` chooses the style by them. `IsHeader` is the header
parsing of `DataHeader::parse`, by which `ReadBack` reads.

The fields of a command are public and dump.rs writes them as they are, so a text may hold
an LF, and those that the parser yields sometimes do (see Parser). Of these only what the code does is
claimed: a line is read back as its text if, and only if, that has no LF, and what follows
begins on a line of its own whatever the text (`LinesReadBack`).

A delimiter that contains an LF passes `validate_delim` (command.rs:389-406), and
what is dumped is then read back as other data, against the comment at dump.rs:68.
`DataReadsBack` excludes such delimiters (`DelimIsText`); TLC finds the property
violated by one dump when that condition is dropped.

### Builder

A builder is `alive` from `new` or `clone` until `build` moves it. A setter is one
action for a function and several for a text: `SetText` begins it, `PushLine`
is an iteration over the source's lines, and `LineFails`, `RunFails` and `RunCode`
end it. A source can fail to open or, after its lines, to be read; an
interpreter may fail on any code (`RunFails`), and runs only that of which `Runs`
holds. A function is the code it was compiled from, so that what has got into
the buffer is seen in it. `given` is a ghost: what each callback was set from.
A builder holds a token of the interpreter and is used by one thread, so that one
call runs at a time. `Build` ends a builder: that `From<Builder>` (filter.rs:139-181) then gives each
callback to the field of its name is a list of fields, and not modelled.

### Refname

One action per iteration of the loop over the bytes of a component, and of the loop
over components. `"lock"` is a byte that stands for the four, `"x"` for any byte without a
rule, and `"\t"` for all control characters. `Holds` says of each error what it is about, in
terms of the whole refname.

## Runs

| Run | Expect | Shows |
|---|---|---|
| `bufpool` | pass | type, stability of slices, recency of the live lines |
| `bufpool_maxfree` | violation of `FreeWithinMax` | `reserve` takes `free` past its maximum |
| `datareader` | pass | delivery, position, exclusivity, refinement of `Framing`, also when the reader fails; every call returns |
| `datareader_reread` | violation of `FinishedIsFinal` | `read_to_end` on a used reader eats directives |
| `datareader_zero` | violation of `ZeroMeansFinished` | truncated counted data reads as a proper end |
| `parser` | pass | lines, lookahead, assertions, errors, failures of the reader, refinement of `Framing`, arguments, changes, the end is reached |
| `parser_grammar` | violation of `GrammarAccepted` | a peeked line comes back with its LF |
| `parser_ident` | violation of `IdentFields` | name and email lose their last byte, and `<>` panics |
| `changes_paths` | violation of `PathsTaken` | a literal path of a change panics |
| `dump` | pass | data is read back as it was, and lines without LF are, from a writer that splits or fails |
| `builder` | pass | callbacks are their own source, and set once |
| `refname` | pass | what is accepted has no fault; what is reported is a fault it has |

These disagreements have no run; the models have them all, but for the first:

* `truncate_back` retains a buffer by the length of what it holds (pool.rs:111), where
  `MAX_BUF_CAPACITY` is "The maximum capacity of a buffer." (pool.rs:52): one that has grown, by a
  long line before, the doubling of `Vec` or the reservation of input.rs:119, is kept if its text is
  short;
* a line that was peeked before comes with its LF (input.rs:318; run `parser_grammar`), against
  "(including NUL), except for LF." (input.rs:290): after `reset x` the line `option x` is accepted as
  an option `x` with an LF, which is dumped as two lines, and so is an original-oid after a blob
  without a mark;
* a delimiter with an LF (see Dump above);
* the optional LF after data is consumed without being counted in `line` (input.rs:22,
  249-259);
* `skip_data` clears `line_buf` and leaves `line_offset` beyond it, though it is "The offset
  into `line_buf`, at which reading begins." (data.rs:46): a second `skip_rest` of a truncated
  stream, or one after a failure of the reader in the first, subtracts with overflow (input.rs:229),
  or counts a line in `len_read` again;
* a delimited stream whose last line is no delimiter and has no LF makes
  `read_delimited_data_to_end` call `read_line` at the end, a failed assertion (input.rs:97,
  138-142), and so does a message that follows such a line; `AssertionsHold` excepts it;
* changes that end in a last line without LF fail the assertion of `unread_directive`
  (commit.rs:93, input.rs:352-355); `AssertionsHold` excepts it;
* the space after the root of an `ls` is left to the path, so that a quoted path is not
  unquoted (parser.rs:729), and so is the colon of a rewrite-submodules feature
  (parser.rs:756, against the `name:filename` of parser.rs:182);
* the mode `+644` is accepted (commit.rs:240, against fast-import_grammar.bnf:67), where
  `parse_int` refuses a sign;
* an unknown `option git` is an UnrecognizedCommand (parser.rs:788), UnsupportedGitOption
  is never returned.

Each property of a passing run has a mutant: an operator next to the definition
it replaces (marked "Mutant") that is a plausible bug of that code, and under
which TLC finds the property violated.

### Bounds

* `bufpool`: five allocations and capacities 2 and 3, so that the free list
  grows by doubling past its maximum, fills up, and has buffers left over when it
  does; three lines (and any number of auxiliary buffers), since a buffer can then be
  pushed, freed, and pushed again beside one that was kept.
* `datareader`: all streams of up to seven bytes over LF, a header and a
  delimiter byte. Seven is a header line, two bytes of data with a delimiter
  line and an LF, and what follows; data can hold what looks like a directive or a delimiter, be
  empty, be truncated anywhere, and lack the last LF. Buffers of 0, 1 and 2
  bytes split lines and data. Two threads are enough for a race. The reader may fail, any number
  of times, on the streams of up to five bytes (`Faulty`): a header, and a line or data that is
  split with the delimiter or an LF after it.
* `parser`: up to three lines of each kind after a head, with and without the last LF.
  The heads take a command to the directive before its data, or a commit to its changes;
  arguments are all those of a few bytes that have a rule, and modes differ from the
  canonical ones in one place. Options come alone and after a `reset` that has looked at them. `CONTEXT_LINES_BEFORE` is 0, where the unread line is the only one
  kept; the code's 20 would hide an error in streams this short. One failure of the
  reader, at every place it can come: a second would find the state of the first.

* `dump`: two values, so that one ends where another begins and the second may fail;
  data of up to three bytes over LF and the byte of the delimiters, and one of four
  that holds a doubled delimiter byte, so that it contains a delimiter as a line, as
  a part of a line, or not, and ends a line or not; delimiters that are absent,
  empty, with a NUL, with an LF, of one byte and of two; lines without an LF, with one at the
  end, and with one inside.
* `builder`: two builders, for a clone or a race of two histories; two names; sources
  of up to two lines that run, do not run, cannot be opened and cannot be read.
* `refname`: all refnames of up to two bytes over every byte with a rule, of four
  over those with a memory or a place, of five over the bytes that make
  components, all with every combination of flags.

### Fairness

`DataReader` assumes weak fairness of the iterations of a call that is running
(`LoopStep`): a call is not suspended for ever. In `ReaderFaults` the same is assumed of the
iterations in which the reader does not fail; it may fail at any of them, which ends the call. Callers may stop at any time,
so nothing is assumed of them. `Parser` assumes this of `ParserStep`, and weak
fairness of `NextCall`: `EndIsReached` is about a caller that keeps calling
`next`; nothing is assumed of what it does with blobs and changes. That the reader fails a
bounded number of times is the bound `MaxFaults`: a reader that always fails ends
nothing. `BufPool`, `Dump`,
`Builder` and `Refname` have no liveness property and no fairness.

## Proofs

`BufPoolProofs`, for any buffers, texts, capacities and lengths. The inductive
invariant is the type invariant with: the lists together are injective (a
buffer taken from `free` or newly allocated is in none), what is lent is owned
and unchanged, and the live texts are a suffix of the history while those that
are drained are not lent. From it: `TypeCorrect`,
`SlicesStayStable`, `LiveStaysRecentHistory`.

`LinesProofs` has what the rest needs of lines: where a line ends, that an
optional LF moves by at most one, that contents end at one position.

`DataReaderProofs`, for any streams, headers, threads and buffer sizes:

* `TypeCorrect`; `OneReaderAtATime` from the parts `Ownership` (a reader implies
  a borrowed blob and `data_opened`, and there is one); `OnlyUnopenedSkipped`
  from `Control` (what `call` implies about the flags).
* Under `OneRead`: `ResumesAfterTheData`, `ConsumedIsAccountedFor`,
  `FinishedStaysPut` (`FinishedIsFinal`) and `DataReaderImplementsFraming`. The invariant `IInv` adds
  `Progress`: while data is being read, `pos` is `start` plus what is accounted
  for by `len_read`, `line_buf` and the loop's own counters, and no delimiter
  line lies between; and `Buffered`: what is in `line_buf` is the last line read.
  It is needed because the properties of finished data alone say nothing of a stream read in
  part. The refinement maps the position to `start` until the data is finished,
  so that every read is a stutter and the one that finishes it is `Data`.

`ReaderFaultsProofs` repeats these for `FaultsSpec`, for any `Faulty` streams and any number of
failures: `FaultsTypeCorrect`, `FaultsOneReader`, `FaultsOnlyUnopenedSkipped`,
`FaultsResumeAfterTheData`, `FaultsAccountedFor` and
`ReaderFaultsImplementFraming`, and adds `FaultsDeliverContents`. `OnlyReadToEndEverPassesData`
is without `OneRead`: a stream that is finished is not being skipped (`NotSkipped`, which the guards of
the calls keep up), and a read of it returns at once. A step of `DataReader` is taken from its own proofs: types, `Ownership`
and `Control` hold whatever fails, and the rest of `IInv` is preserved as long as `cut` is
not set, a `read_to_end` in progress included (`Slurping`); `cut` is cleared by the header of the next
data stream, which establishes `Progress` anew. That is `FaultsInv`. What is new is that every
failing step preserves it (`FaultStep`), so that a retried call begins in a state that
`IInv` allows, and that the one that finishes the data has passed all of it but the optional LF
(`ResumesAfterStep`).

That the contents are delivered (`DeliversUnlessCut`) is not inductive either, and needs `DeliverInv`
beside `FaultsInv`: what the caller has is the stream from `start` on (`Given`), as much of it as
`len_read` says while the data is not finished; what is left of the buffered line is what comes
next in the stream, and no delimiter line begins in it or before it (`LineAhead`); and a reader that
nobody has used has nothing buffered (`Fresh`), without which `read_to_end` would begin in the middle.
Every way of reading extends `Given` by what it copies, and the one that finishes has come to
where the contents end.

`ChangesProofs`, for any streams, any `CONTEXT_LINES_BEFORE`, any bounds of the numbers, and any
failures of the reader: about `ChangesSpec`, that is `Parser` with the caller who iterates
changes. The inductive invariant has four parts, each preserved on its own from those
before it:

* `StreamInv`: `eof` is set only at the end of the stream.
* `BufferInv`: the lines that were read are those taken, in order, with the unread one
  (`ConsumedOnce`), which is the last of the pool (`UnreadIsBack`).
* `ControlInv`: a line that was peeked is unread, or the stream has ended (`ViewInv`); where
  a call stands implies which data is finished and that nothing is unread (`CallInv`); what was
  returned implies what is left (`ResultInv`, with `AssertionsHold`). None of the
  properties is inductive without it: that the line of a missing directive is left, say,
  needs that the line was peeked in this call and not bumped since.
* `DataInv`: counted data is `len_read` bytes behind its `start`, whatever has
  failed, and the line that was peeked begins where `seen` says and ends at `pos`.

From the first three, with the invariant that is their conjunction (`IInv`): `ChangesConsumedOnce`,
`ChangesUnreadIsBack`, `ChangesAssertionsHold`, `ChangesNoLookaheadIntoData`,
`ChangesErrorKeepsLine`, `ChangesNoneKeepsLine`, `ChangesEofMeansAll` and
`ChangesEofIsFinal`. With `DataInv`: `ChangesCountedDataPassed`, and
`ChangesImplementsFraming`. Its refinement maps an unread line to the position before it and data to
its start, so that reading ahead and every retry are stutters. It promises nothing after a failure of
the reader, as the definition of `ImplementsFraming` says. Here the results of
arguments matter only by their kind (`Kinds`): no error of an argument is one of the results
these properties are about.

What arguments are parsed to has an invariant of its own, `ParsedInv`: the value that is kept is what
`Parse` makes of the argument that is kept, which is a sequence of bytes. So each
property of `parsed` becomes one of the pure operators, for arguments of any length:

* `ChangesIdentAsGrammar`: a split by the grammar can only be at the first `<` or `>` and
  at the next one (`SplitIsThere`), which are the positions that `PersonIdent::parse`
  looks at (`LtGtOf`), so that its refusals are those of the grammar (`IdentGrammar`).
* `ChangesModesAreCanonical`: of the 65536 modes, `IsCanon` leaves the five of `Mode`
  (`CanonicalModes`), which `Mode::parse` accepts with the two short ones (`ModesCanonical`), and no
  other part of a file change fails with the errors of a mode (`RefsAndPaths`).
* `ChangesOptionReadsBack`: the decimal digits of a number stand for that number
  (`DecimalReadsBack`), digits and a unit come apart again where they were put together
  (`SizeWithUnit`, `SizeReadsBack`), what is written of each option has the keyword it
  is read by (`DumpedForms`, `OptionRoundTrip`), and it has no LF if what was parsed had none
  (`OptionTextWithoutLF`), so that the line that is read is the one that was written
  (`DumpedLine`).
* `ChangesTypeOK`: `TypeOK` with `ParsedInv` and the other parts of the invariant; its own
  parts are `CountType`, `DataType` and `CallType`. That the fields of a value are sequences of
  bytes (`TypedParse`) rests on where each parser splits its argument, and for paths on
  `UnquoteFails`: after the opening quote, the offset that `memchr2` returns is taken for an index,
  and the byte it then names is never a quote or a backslash, or lies before the slice (`IterationFails`).

Some of these are inductions over data: along a list of digits, or over the numbers that are
written. They are proved from the existence of a least counterexample (`LeastNumber`, by the
well-foundedness of the natural numbers), which needs no theorem with an operator parameter. In the
same way the recursive functions (`Accumulated`, `Decimal`) are shown to exist on every
0..n, and so to satisfy their equations (`AccumulatedFacts`, `DecimalFacts`).

`DumpProofs`, for any data, delimiters, lines and numerals. The inductive invariant
says that between two items' places is the whole text of the first, that the
last item's text is in the stream as far as it goes, and that `rest` is what is missing
(or the writer has failed). `DumpedWhole` concludes that the text of a dumped item is in the
stream byte by byte, and the rest is about that text: `CountedReadsBack`, and
`DelimitedReadsBack` by `DelimiterInData`: a delimiter line found in data that ends
in an LF is a line of the data, which `validate_delim` has excluded. For lines, of any text: one
without an LF is the line that begins there, one with an LF makes a shorter line of it, and the last
LF that is written ends a line in both cases. From these:
`TypeCorrect`, `DataAlwaysReadsBack`, `LinesAlwaysReadBack`.

`BuilderProofs`, for any builders, names and sources. The invariant adds to
the three properties that the buffer holds the name and the lines read so far of the
call in progress, and that its callback is not set. From it: `TypeCorrect`,
`CallbacksStayAsGiven`, `CallbacksSetOnce`.

`RefnameProofs`, for refnames of any length over any bytes, and all flags. The invariant
says what the two loops know: where they are (`Place`); that no byte up to there is forbidden, nor
any two in a row (`BytesPassed`); what `allow_asterisk` remembers of the asterisks before
(`AsterisksPassed`); that no component before the current one begins with a dot or ends with `.lock`
(`ComponentsPassed`); and that a component has been counted if and only if the current one is not the
first (`Counted`). At the end the loops have passed all of the refname, which
leaves no error to hold: `AcceptedAlwaysValid`. Each way of rejecting names a byte, a pair or a
component that makes its error hold: `ErrorAlwaysHolds`. Neither is inductive alone, for
`result` says nothing until it is set. And `TypeCorrect`.

Assumptions are the named `ASSUME`s of the modules, which TLC evaluates in every
run, and `OneRead` where it is stated.

Model-checked only: the liveness properties `CallsReturn` and `EndIsReached`, since liveness under
fairness and ENABLED are beyond the prover. Every other property of the passing runs is also a
theorem; `FinishedIsFinal`, which assumes `OneRead`, is one where the reader does not fail
(`FinishedStaysPut`), and checked where it does. The disagreements of the runs that expect a violation are
counterexamples, and need no proof.

## Not modelled

* Allocation failures, such as that of the reservation of a whole counted stream (input.rs:119).
* The move of the builder's fields into the filter (filter.rs:139-181).
* The data of inline changes, and who constructs a `ChangeIter`: not in the code yet.
* `unquote_c_style_string`'s buffer: it is an auxiliary buffer of `BufPool`.
* `MapBytes`, the structs of commands, `py_bytes.rs`, `RepoFilter` and
  `FastExportParser`: data without behaviour, or the Python interpreter's.

## Plan

1. Done: all modules above, their runs, and the proofs above, which leave no invariant
   of a run to TLC alone.
2. `BufPool` under `Parser`: the lines of `Parser` are those of a pool.
