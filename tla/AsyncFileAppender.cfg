\* Buffers of two messages, nine messages, a disk fast enough for the sleep before
\* abort().
CONSTANTS
    BufferSize = 2
    MaxLog = 9
    FastDisk = TRUE
    Null = Null
SPECIFICATION FairSpec
CHECK_DEADLOCK FALSE
INVARIANTS
    TypeOK
    NoNullBuffer
    LogConserved
    StopFlushesLog
    FatalIsOnDisk
PROPERTIES
    AppendedIsWritten
    StopReturns
