\* Names of up to five characters of two kinds, patterns with up to two stars.
SPECIFICATION Spec
CONSTANTS
    Chars = {"a", "b"}
    NameLen = 5
    Pieces = 3
    Values <- Names
    Patterns <- Splits
INVARIANTS
    Sound
    MissNeedsRepeat
CHECK_DEADLOCK FALSE
