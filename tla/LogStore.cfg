\* Two runs and one reader, two file names, any of them may die.
SPECIFICATION Spec
CONSTANTS
    Writers = {w1, w2}
    Readers = {r}
    MaxTime = 1
    Crashes = TRUE
SYMMETRY Symmetry
INVARIANTS
    EntryKept
    OneHome
    IndexComplete
PROPERTIES
    IndexStumbles
    KeepsLog
CHECK_DEADLOCK FALSE
