\* The smallest instance with one failing attach.
SPECIFICATION Spec
CONSTANTS
    NumShells = 0
    MaxPresses = 0
    Faults <- AttachFault
INVARIANT TerminalRestored
CHECK_DEADLOCK FALSE
