\* Identities of up to five bytes and one of seven.
CONSTANTS
    Bytes <- MCBytes
    LF <- MCLF
    Streams <- MCIdents
    CONTEXT_LINES_BEFORE = 0
    U32_MAX = 11
    U64_MAX = 20
    Faulty = {}
    MaxFaults = 0
    MaxLines = 3
SPECIFICATION ChangesSpec
INVARIANT IdentFields
\* A failed assertion stops the program.
CHECK_DEADLOCK FALSE
