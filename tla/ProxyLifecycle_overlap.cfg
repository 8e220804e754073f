SPECIFICATION Spec
CONSTANTS
    Callers = {page, tray}
    MaxRuntimes = 3
    Overlap = TRUE
CHECK_DEADLOCK FALSE
INVARIANT NoOrphan
