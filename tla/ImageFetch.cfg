SPECIFICATION FairSpec
CONSTANTS
    Spaces <- MCSpaces
    Home = "quay"
    Tags <- MCTags
    StableTag = "stable"
    DevTag = "dev"
    MaxBreaks = 2
    MaxRemovals = 1
INVARIANTS
    RightImage
    FoundIfThere
    RepeatHasCause
PROPERTY
    FetchEnds
CHECK_DEADLOCK FALSE
