\* Two users with one command each; a signal may tell the server to stop.
SPECIFICATION CalmSpec
CONSTANTS
    c1 = c1
    c2 = c2
    Clients <- MCClients
    Accounts <- MCAccounts
    AccountArgs <- MCAccountArgs
    Amounts <- MCAmounts
    OpeningBalances <- MCOpening
    Garbage <- MCGarbage
    MaxInt = 7
    MaxOps = 1
    MaxServerSignals = 1
    MaxClientSignals = 0
SYMMETRY Symmetry
INVARIANTS
    TypeOK
    Handshake
    NoDataRace
    ReplyIsMine
    BooksBalance
    NoOrphanSession
    CsvAgrees
PROPERTIES
    NoOverdraft
    ImplementsLedger
