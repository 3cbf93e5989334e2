\* Two values, data of up to four bytes.
CONSTANTS
    Bytes <- MCBytes
    LF <- MCLF
    Streams = {}
    None = None
    DataBufs <- MCDataBufs
    Texts <- MCTexts
    Decimal <- MCDecimal
    MaxDumps = 2
SPECIFICATION Spec
INVARIANTS
    TypeOK
    DataReadsBack
    LinesReadBack
\* The values are all dumped, or the writer has failed.
CHECK_DEADLOCK FALSE
