\* -d is for a directory without contents.
SPECIFICATION Spec
CONSTANTS
    Name <- MCName
    Letter <- MCLetter
    Spelling <- MCSpelling
    Cwd <- MCCwd
    WorkDir <- MCWorkDir
    TempName <- MCTempName
    Hosts <- MCHosts
    Arguments <- MCArguments
    MaxParts = 2
    OutDirs <- MCOutDirs
    Filters <- MCFilters
    Explicit <- MCExplicit
    TarName <- MCTarName
    ToolNames <- MCToolNames
    Quote <- MCQuote
INVARIANT MkdirEmpty
CHECK_DEADLOCK FALSE
