SPECIFICATION CalmSpec
CONSTANTS
    t1 = t1
    t2 = t2
    t3 = t3
    Threads <- MCThree
    User <- MCUser3
    Ids = {0, 1}
    MaxVaults = 2
    UsageLimit = 4
INVARIANTS
    ListExclusive
    UniqueIds
    DevicesMatchList
    OopsFromRemove
SYMMETRY Symmetry
