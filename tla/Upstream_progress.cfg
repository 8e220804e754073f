SPECIFICATION Spec
CONSTANTS
    a = a
    b = b
    c = c
    Endpoints = {a, b, c}
    NoEndpoint = none
    Configs <- FallbackConfigs
    FailLimit = 2
    ZeroLimit = 2
    MaxGeneration = 4
    Tasks = {t1, t2}
    ConnectLimit = 1
    MaxQueued = 1
    CancelCanBeLost = FALSE
PROPERTIES
    HandshakeEnds
    NotRefusedForever
