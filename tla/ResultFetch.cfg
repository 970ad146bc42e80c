\* One file, two seconds, two Ctrl-C.
SPECIFICATION FairSpec
CONSTANTS
    Paths = {a}
    Data = {"x", "y", "long"}
    Size <- Length
    MaxTime = 3
    MaxPresses = 2
INVARIANTS
    ResultsArrive
    EditKept
    NeverGone
PROPERTY DownloadEnds
CHECK_DEADLOCK FALSE
