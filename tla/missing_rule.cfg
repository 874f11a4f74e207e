SPECIFICATION Spec
SYMMETRY MCSymmetry
CONSTANTS
    ninja = ninja
    make = make
    release = release
    debug = debug
    s1 = s1
    Nil = Nil
    Generators <- MCGenerators
    Configs <- MCConfigs
    Sources <- MCSources
    MaxBuilds = 3
    MaxEdits = 1
    MaxEvictions = 1
INVARIANT BuiltIsLinked
