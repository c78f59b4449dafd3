\* Three starts of two server processes, one of which may be killed.
SPECIFICATION Spec
CONSTANTS
    s1 = s1
    s2 = s2
    Servers <- MCServers
    Files = {"f1", "f2"}
    NoFile = "none"
    Opening <- MCOpening
    Garbage = {0}
    MaxStarts = 3
    MaxCrashes = 1
    MaxMoves = 1
INVARIANTS
    ServerReachable
    NothingLeftBehind
    TableSurvives
    OneBank
SYMMETRY Symmetry
CHECK_DEADLOCK FALSE
