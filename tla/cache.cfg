SPECIFICATION FairSpec
CONSTANTS
    p1 = p1
    p2 = p2
    lib = lib
    header = header
    version = version
    Builds <- MCOneBuild
    Files <- MCFiles
    Lib = lib
    MaxRuns = 5
    MaxEvictions = 2
INVARIANTS
    TypeOK
    PublishedIsWhole
    LinkedIsWhole
    LeftoversHeal
PROPERTY EveryRunEnds
