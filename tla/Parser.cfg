\* Streams of up to three lines after a head, and every argument of a few bytes.
CONSTANTS
    Bytes <- MCBytes
    LF <- MCLF
    Streams <- MCStreams
    CONTEXT_LINES_BEFORE = 0
    U32_MAX = 11
    U64_MAX = 20
    Faulty <- MCFaulty
    MaxFaults = 1
    MaxLines = 3
SPECIFICATION ChangesSpec
INVARIANTS
    TypeOK
    UnreadIsBack
    ConsumedOnce
    AssertionsHold
    NoLookaheadIntoData
    ErrorKeepsLine
    EofMeansAll
    IdentAsGrammar
    OptionReadsBack
    NoneKeepsLine
    ModesAreCanonical
PROPERTIES
    EofIsFinal
    CountedDataPassed
    ImplementsFraming
    EndIsReached
\* A failed assertion stops the program.
CHECK_DEADLOCK FALSE
