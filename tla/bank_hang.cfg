\* The server is told to stop while a request is on its way.
SPECIFICATION CalmSpec
CONSTANTS
    c1 = c1
    c2 = c2
    Clients <- MCClients
    Accounts <- MCAccounts
    AccountArgs = {1}
    Amounts = {1}
    OpeningBalances <- MCOpening
    Garbage = {3}
    MaxInt = 7
    MaxOps = 1
    MaxServerSignals = 1
    MaxClientSignals = 0
CHECK_DEADLOCK FALSE
INVARIANT NoHang
