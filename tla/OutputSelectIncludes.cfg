\* Two including filters in a row.
SPECIFICATION Spec
CONSTANTS
    Paths <- Tree
    WorkDir <- Work
    Patterns <- Globs
    Hits <- Matches
    IgnoreFile = ".cincanignore"
    MaxFilters = 2
INVARIANT IncludesApplied
CHECK_DEADLOCK FALSE
