SPECIFICATION Spec
CONSTANTS
    Exes = {winws2}
    NoExe = noExe
    Pids = {p1}
    NoPid = noPid
    Presets = {a}
    NoPreset = none
    Kinds = {"death"}
    MaxEvents = 1
    MaxAutoRestarts = 1
    StopMayFail = FALSE
    PrepareMayFail = FALSE
CHECK_DEADLOCK FALSE
INVARIANTS
    DeathIsNoticed
