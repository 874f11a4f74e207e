SPECIFICATION Spec
CONSTANTS
    t1 = t1
    t2 = t2
    c1 = c1
    c2 = c2
    d1 = d1
    d2 = d2
    silent = silent
    errors = errors
    Nil = Nil
    UserArg = UserArg
    Threads <- MCThreads
    Compilers <- MCTwoCompilers
    Docs <- MCTwoDocs
    Filters <- MCFilters
    EmptyFilter = silent
    MaxContexts = 3
    MonotonicIds = TRUE
    MaxChunks = 2
    MaxCalls = 5
    LoggingMayFail = TRUE
SYMMETRY Symmetry
INVARIANTS
    TypeOK
    LibraryExclusive
    HandlesIntact
    NoOrphanContext
    CompileUsesRecorded
    OutputWhole
    WriterInstalled
    ExplicitFilterSurvives
PROPERTIES
    LibraryFrozenInCompile
    ImplementsService
