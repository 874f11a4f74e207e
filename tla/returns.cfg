SPECIFICATION ProcessFairSpec
CONSTANTS
    t1 = t1
    t2 = t2
    c1 = c1
    d1 = d1
    silent = silent
    errors = errors
    Nil = Nil
    UserArg = UserArg
    Threads <- MCThreads
    Compilers <- MCCompilers
    Docs <- MCDocs
    Filters <- MCFilters
    EmptyFilter = silent
    MaxContexts = 2
    MonotonicIds = TRUE
    MaxChunks = 1
    MaxCalls = 4
    LoggingMayFail = TRUE
    Chunks <- MCLines
    MaxWrites = 2
    LoggerMayPanic = TRUE
PROPERTY EveryCallReturns
