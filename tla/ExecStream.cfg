\* Four units of input, read one or two at a time; the channels hold four
\* units together with the tool, so that `send` blocks but never for good.
SPECIFICATION FairSpec
CONSTANTS
    Input = 4
    ReadMax = 2
    UpCap = 2
    DownCap = 1
    Cuts = TRUE
INVARIANTS
    StreamsFaithful
    LoopComplete
    FailureNeedsCause
    NeverWedged
PROPERTY LoopEnds
CHECK_DEADLOCK FALSE
