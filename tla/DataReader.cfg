\* Every stream of up to seven bytes, callers that use read_to_end only on a fresh reader.
CONSTANTS
    t1 = t1
    t2 = t2
    lf = lf
    cmd = cmd
    eod = eod
    Threads <- MCThreads
    Bytes <- MCBytes
    LF <- lf
    BlobHeader <- cmd
    Streams <- MCStreams7
    Headers <- MCHeaders
    Faulty <- MCStreams5
    BufSizes <- MCBufSizes
    OneRead = TRUE
    MaxLenRead = 6
SPECIFICATION FaultsSpec
INVARIANTS
    TypeOK
    ExclusiveReader
    ResumesAfterFaults
    AccountedUnlessCut
    DeliversUnlessCut
    NextSkipsOnlyUnopened
PROPERTIES
    FinishedIsFinal
    FaultsImplementFraming
    CallsReturn
\* A failed debug assertion stops the program.
CHECK_DEADLOCK FALSE
