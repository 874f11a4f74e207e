SPECIFICATION FairSpec
CONSTANTS
    t1 = t1
    t2 = t2
    Nil = Nil
    Threads <- MCThreads
    Chunks <- MCChunks
    MaxWrites = 3
    LoggerMayPanic = TRUE
INVARIANTS
    TypeOK
    LinesConserved
    CaughtUp
    RestReadable
    SeverityKept
PROPERTY EveryWriteReturns
