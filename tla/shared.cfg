SPECIFICATION Spec
CONSTANTS
    t1 = t1
    t2 = t2
    c1 = c1
    c2 = c2
    d1 = d1
    d2 = d2
    silent = silent
    errors = errors
    Nil = Nil
    UserArg = UserArg
    Threads <- MCThreads
    Compilers <- MCOneCompiler
    Docs <- MCDocs
    Filters <- MCFilters
    EmptyFilter = silent
    MaxContexts = 1
    MonotonicIds = TRUE
    MaxChunks = 1
    MaxCalls = 3
    LoggingMayFail = FALSE
INVARIANT SingleUser
