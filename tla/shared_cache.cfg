SPECIFICATION Spec
CONSTANTS
    p1 = p1
    p2 = p2
    lib = lib
    header = header
    version = version
    Builds <- MCTwoBuilds
    Files <- MCFiles
    Lib = lib
    MaxRuns = 2
    MaxEvictions = 0
INVARIANT PublishedIsWhole
