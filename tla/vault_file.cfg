\* Vaults 0 and 1, of which svctl knows only the first.
SPECIFICATION Spec
CONSTANTS
    u1 = u1
    u2 = u2
    Users <- MCUsers
    Nobody = Nobody
    TargetLimit = 2
    NumVaults = 0
    Targets <- MCTargets
    KeySize = 2
    MaxSize = 1
    MaxAlloc = 2
    PosLimit = 4
INVARIANTS
    SvctlDone
PROPERTIES
    ImplementsContents
    OnlyMeant
CHECK_DEADLOCK FALSE
SYMMETRY Symmetry
