SPECIFICATION QuietSpec
CONSTANTS
    t1 = t1
    t2 = t2
    t3 = t3
    Threads <- MCTwo
    User <- MCUser2
    Ids = {0, 1}
    MaxVaults = 3
    UsageLimit = 4
INVARIANTS
    TypeOK
    VaultExclusive
    UsageCounts
    OpenStaysListed
    RightVault
PROPERTIES
    ImplementsStore
    CallEnds
