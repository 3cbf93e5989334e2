\* read_to_end on a reader that has been used.
CONSTANTS
    t1 = t1
    t2 = t2
    lf = lf
    cmd = cmd
    eod = eod
    Threads <- MCOneThread
    Bytes <- MCBytes
    LF <- lf
    BlobHeader <- cmd
    Streams <- MCStreams4
    Headers <- MCHeaders
    Faulty <- MCNoStreams
    BufSizes <- MCBufSizes
    OneRead = FALSE
    MaxLenRead = 6
SPECIFICATION FaultsSpec
PROPERTY FinishedIsFinal
\* A failed debug assertion stops the program.
CHECK_DEADLOCK FALSE
