\* Changes of a commit.
CONSTANTS
    Bytes <- MCBytes
    LF <- MCLF
    Streams <- MCChanges
    CONTEXT_LINES_BEFORE = 0
    U32_MAX = 11
    U64_MAX = 20
    Faulty = {}
    MaxFaults = 0
    MaxLines = 3
SPECIFICATION ChangesSpec
INVARIANT PathsTaken
\* A failed assertion stops the program.
CHECK_DEADLOCK FALSE
