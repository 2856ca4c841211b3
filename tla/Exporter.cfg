SPECIFICATION Spec
CONSTANTS
    h = h
    ext = ext
    int = int
    ptr = ptr
    Size = 3
    Units <- SmallUnits
    Symbols <- MCSymbols
    Headers = {h}
    Types = {int, ptr}
    Pointee <- MCPointee
    NoType = notype
    None = none
CHECK_DEADLOCK FALSE
INVARIANTS
    OneRecordPerUsr
    SourcesInBatch
    WalkIsComplete
    TypeChainsClosed
