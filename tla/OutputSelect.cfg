\* Up to three filters of the user, of four patterns, and all ignore files.
SPECIFICATION Spec
CONSTANTS
    Paths <- Tree
    WorkDir <- Work
    Patterns <- Globs
    Hits <- Matches
    IgnoreFile = ".cincanignore"
    MaxFilters = 3
INVARIANTS
    AsAsked
    WantedArrives
    IgnoredStays
CHECK_DEADLOCK FALSE
