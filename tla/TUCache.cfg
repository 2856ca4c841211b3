SPECIFICATION Spec
CONSTANTS
    t1 = t1
    t2 = t2
    a = a
    none = none
    debug = debug
    release = release
    std = std
    Threads = {t1, t2}
    Files = {a}
    Builds = {debug, release}
    NoBuild = none
    Flags = {std}
    Keys <- ThreeKeys
    Capacity = 2
    MaxVersion = 2
    MaxLookups = 3
SYMMETRY ThreadSymmetry
INVARIANTS
    TypeOK
    SizeBound
    LRUOrder
    StatsLedger
PROPERTIES
    FreshHits
    IsLRU
