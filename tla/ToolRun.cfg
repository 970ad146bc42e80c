\* Every option, every fault, two probe candidates, two Ctrl-C.
SPECIFICATION FairSpec
CONSTANTS
    NumShells = 2
    MaxPresses = 2
    Faults <- AllFaults
INVARIANTS
    LeakNeedsCause
    SuccessMeansDelivered
    ZeroIsEarned
    EntryComplete
    RawNeedsCause
    BuiltImageRemoved
PROPERTIES
    FetchedAtRest
    KeepsContract
    AlwaysEnds
    InterruptEnds
CHECK_DEADLOCK FALSE
