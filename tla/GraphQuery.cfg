SPECIFICATION Spec
CONSTANTS
    f = f
    g = g
    Vertices = {f, g}
    TypeOf <- SmallTypes
    Edges <- SmallEdges
    Queries <- SmallQueries
CHECK_DEADLOCK FALSE
INVARIANTS
    RowsAnswerQuery
PROPERTY
    ListedWritesNeverRun
