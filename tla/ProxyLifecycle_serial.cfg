SPECIFICATION Spec
CONSTANTS
    Callers = {page, tray}
    MaxRuntimes = 3
    Overlap = FALSE
CHECK_DEADLOCK FALSE
INVARIANTS
    NoOrphan
    StopFreesPort
PROPERTIES
    CallsReturn
