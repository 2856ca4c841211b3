SPECIFICATION FairSpec
CONSTANTS
    Calls = {c1}
    f1 = f1
    f2 = f2
    Files = {f1, f2}
    Includes <- SomeIncludes
CHECK_DEADLOCK FALSE
INVARIANTS
    NothingLeftBehind
    CountsAreFresh
    StampedGivesNoNote
PROPERTIES
    EveryCallAnswered
