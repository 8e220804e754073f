SPECIFICATION Spec
CONSTANTS
    a = a
    b = b
    c = c
    Endpoints = {a, b}
    NoEndpoint = none
    Configs <- ServerConfigs
    FailLimit = 2
    ZeroLimit = 2
    MaxGeneration = 5
    Tasks = {t1, t2, t3}
    ConnectLimit = 1
    MaxQueued = 1
    CancelCanBeLost = TRUE
SYMMETRY Interchangeable
INVARIANTS
    TypeOK
    ProbeHasOwner
    ActiveIsUsable
    RelaysUseActive
    SlotsAccounted
PROPERTY SwitchNeedsEvidence
