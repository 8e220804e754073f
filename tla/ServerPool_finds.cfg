SPECIFICATION Spec
CONSTANTS
    NumServers = 2
    Priority <- TwoInReverse
    Known = {1, 2}
    Healthy = {1}
    Lacking = {2}
    Paces = {3}
    Limit = 3
    Filled = {"full"}
    Tasks = {t1, t2}
    Outlasting = TRUE
INVARIANT TypeOK
PROPERTIES
    KeepsFinding
