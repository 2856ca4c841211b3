SPECIFICATION Spec
CONSTANTS
    r1 = r1
    r2 = r2
    fa = fa
    fb = fb
    a1 = a1
    a2 = a2
    b1 = b1
    Runs = {r1, r2}
    Files = {fa, fb}
    Nodes = {a1, a2, b1}
    NodesOf <- MCNodesOf
    EdgesOf <- MCEdgesOf
    Inputs <- Both
    Nobody = nobody
SYMMETRY RunSymmetry
CHECK_DEADLOCK FALSE
INVARIANTS
    TypeOK
    ProcessedIsStored
    EveryFileAccounted
    CountsAreInserts
    RepeatAddsOnlyForwardEdges
    LinksToKnownFiles
PROPERTY
    GrowsAsPromised
