SPECIFICATION MCSpec
CONSTANTS
    Exes = {winws2}
    NoExe = noExe
    Pids = {p1}
    NoPid = noPid
    Presets = {a, b}
    NoPreset = none
    Kinds = {"start", "stop", "restart", "force", "select", "death"}
    MaxEvents = 3
    MaxAutoRestarts = 1
    StopMayFail = TRUE
    PrepareMayFail = TRUE
CHECK_DEADLOCK FALSE
INVARIANTS
    TypeOK
    TransitionUnderLock
    TransitionHasWorker
PROPERTIES
    BusyHasWorker
    RequestsKept
    NoWorkerReplaced
    NeverRestartsServed
    SuccessIsCurrent
    RestartsLatest
    SwitchesLatest
    RequestsEnd
