SPECIFICATION MCSpec
CONSTANTS
    Exes = {winws2}
    NoExe = noExe
    Pids = {p1}
    NoPid = noPid
    Presets = {a}
    NoPreset = none
    Kinds = {"restart"}
    MaxEvents = 2
    MaxAutoRestarts = 1
    StopMayFail = FALSE
    PrepareMayFail = FALSE
CHECK_DEADLOCK FALSE
PROPERTY RestartsServed
