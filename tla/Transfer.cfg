SPECIFICATION Spec
CONSTANTS
    Name <- MCName
    Letter <- MCLetter
    Spelling <- MCSpelling
    Cwd <- MCCwd
    WorkDir <- MCWorkDir
    TempName <- MCTempName
    Hosts <- MCHosts
    Arguments <- MCArguments
    MaxParts = 2
    OutDirs <- MCOutDirs
    Filters <- MCFilters
    Explicit <- MCExplicit
    TarName <- MCTarName
    ToolNames <- MCToolNames
    Quote <- MCQuote
INVARIANTS
    UploadsAsked
    ArgumentsMean
    PlacesMade
    HostKept
    ResultsPlaced
CHECK_DEADLOCK FALSE
