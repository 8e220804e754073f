SPECIFICATION Spec
CONSTANTS
    Requests <- MCRequests
    NoRequest = "none"
    Runtimes <- MCRuntimes
    UserRuntimes = {"create", "update", "delete"}
    RuntimeOf <- MCRuntimeOf
    KeyOf <- MCKeyOf
    Keys = {"enabled", "profile", "place"}
    NoKey = "noKey"
CHECK_DEADLOCK FALSE
INVARIANTS
    TypeOK
    OneWriter
    AddingIsBlocked
    LatestUnlessOvertaken
PROPERTIES
    WaitingEnds
    ImplementsSerialWriter
