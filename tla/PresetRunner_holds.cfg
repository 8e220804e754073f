SPECIFICATION FairSpec
CONSTANTS
    Callers = {c1, c2}
    Nobody = Nobody
    Procs = {p1, p2, p3}
    NoProc = NoProc
INVARIANTS
    TypeOK
    NoneLost
    RestsConsistent
    RunningDeathReported
PROPERTIES
    ReplacedFirst
    LockReleased
