\* Two users and one account; signals may interrupt every sem_wait, so
\* clients may sleep for ever in one: no deadlock check.
SPECIFICATION Spec
CONSTANTS
    c1 = c1
    c2 = c2
    Clients <- MCClients
    Accounts <- MCAccounts
    AccountArgs = {1}
    Amounts = {4}
    OpeningBalances <- MCOpening
    Garbage = {3}
    MaxInt = 7
    MaxOps = 0
    MaxServerSignals = 1
    MaxClientSignals = 1
CHECK_DEADLOCK FALSE
INVARIANTS
    MutualExclusion
    ActionUnderstood
PROPERTIES
    SectionEnds
    StopsWhenAsked
