\* A counted data stream cut short.
CONSTANTS
    t1 = t1
    t2 = t2
    lf = lf
    cmd = cmd
    eod = eod
    Threads <- MCOneThread
    Bytes <- MCBytes
    LF <- lf
    BlobHeader <- cmd
    Streams <- MCStreams4
    Headers <- MCHeaders
    Faulty <- MCNoStreams
    BufSizes <- MCBufSizes
    OneRead = TRUE
    MaxLenRead = 6
SPECIFICATION FaultsSpec
INVARIANT ZeroMeansFinished
\* A failed debug assertion stops the program.
CHECK_DEADLOCK FALSE
