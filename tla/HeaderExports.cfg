SPECIFICATION Spec
CONSTANTS
    NoLine = none
    Trees <- SmallTrees
    Asks <- SomeAsks
    MaxLines = 1
    Files <- SmallFiles
    Edits <- ShiftByOne
    Programs <- Saves
    Headers <- HeaderText
    Main = "main.cpp"
    NoFile = ""
    NoUsr = ""
    Limit = 1
    Queries <- SomeQueries
CHECK_DEADLOCK FALSE
INVARIANT
    ExportsTopLevel
