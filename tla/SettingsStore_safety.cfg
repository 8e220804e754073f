SPECIFICATION Spec
CONSTANTS
    c1 = c1
    c2 = c2
    Clients = {c1, c2}
    Free = free
    NoCache = noCache
    Outside <- MCOutside
    MaxStamp = 4
INVARIANTS
    TypeOK
    MaterializedCacheIsFile
    LockedEditsSurvive
PROPERTY OperationsReturn
