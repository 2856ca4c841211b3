SPECIFICATION Spec
CONSTANTS
    c1 = c1
    c2 = c2
    c3 = c3
    a = a
    b = b
    none = none
    std = std
    Calls = {c1, c2, c3}
    Worker = worker
    Requests <- AllTools
    Nobody = nobody
    Files = {a, b}
    Builds = {}
    NoBuild = none
    Flags = {std}
    Keys <- BothFiles
    Capacity = 1
    MaxVersion = 1
    MaxLookups = 6
SYMMETRY CallSymmetry
INVARIANTS
    TypeOK
    WaitingHasJob
    ClosedIsEmpty
    ParseIsNeeded
