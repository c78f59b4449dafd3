--------------------------------- MODULE Bank ---------------------------------
(***************************************************************************)
(* The bank server and its clients running together (Beispiel 3).          *)
(*                                                                         *)
(*   CalmSpec  no sem_wait is interrupted by a signal.  Signals arrive,    *)
(*             but only while their process is not asleep in sem_wait.     *)
(*   Spec      signals arrive at any time, as in the code.                 *)
(***************************************************************************)
EXTENDS BankServer, BankClient

CONSTANTS
    MaxServerSignals,   \* how many signals the server gets (a bound)
    MaxClientSignals    \* how many the clients get together (a bound)

ASSUME SignalsAssumption == MaxServerSignals \in Nat /\ MaxClientSignals \in Nat

VARIABLE books  \* history: the balances according to the replies received

vars == <<sems, shared, sigsLeft, srvVars, clientVars, books>>

TypeOK ==
    /\ SharedTypeOK
    /\ ServerTypeOK
    /\ ClientTypeOK
    /\ books \in [Known -> Int32]

Init ==
    /\ SharedInit
    /\ ServerInit
    /\ ClientInit
    /\ sigsLeft = [server |-> MaxServerSignals, clients |-> MaxClientSignals]
    /\ books = [a \in Known |-> list[a].balance]

-----------------------------------------------------------------------------
(* The user notes what the client reports when a request function returns. *)
Receipt(c) ==
    books' = IF pc[c] = "unlock" /\ data[c].outcome
               THEN Effect(books, con[c].accountNR, call[c]) ELSE books

CalmNext ==
    \/ (ServerStep \/ SrvSignal) /\ UNCHANGED <<clientVars, books>>
    \/ \E c \in Clients :
         /\ UNCHANGED srvVars
         /\ \/ ClientStep(c) /\ Receipt(c)
            \/ (UserStep(c) \/ ClientSignal(c)) /\ UNCHANGED books

(* The system may rest when all clients have exited and the server sleeps, *)
(* or when the server has exited: then clients may sleep for ever.         *)
Finished ==
    /\ \/ srv = "blocked" /\ \A c \in Clients : pc[c] = "done"
       \/ srv = "done"
    /\ UNCHANGED vars

Next ==
    \/ CalmNext
    \/ SrvInterrupted /\ UNCHANGED <<clientVars, books>>
    \/ \E c \in Clients :
         ClientInterrupted(c) /\ UNCHANGED <<srvVars, books>>

(* The scheduler runs every process that can run.  Users need not type,    *)
(* and signals need not come.                                              *)
Fairness ==
    /\ WF_vars(ServerStep /\ UNCHANGED <<clientVars, books>>)
    /\ \A c \in Clients :
         WF_vars(ClientStep(c) /\ UNCHANGED srvVars /\ Receipt(c))

CalmSpec == Init /\ [][CalmNext \/ Finished]_vars /\ Fairness

Spec == Init /\ [][Next \/ Finished]_vars /\ Fairness

-----------------------------------------------------------------------------
(* Safety                                                                  *)

InSection(c) == pc[c] \in {"check", "write", "post", "reply", "replyBlocked",
                           "read", "unlock"}

Awaiting(c) == pc[c] \in {"reply", "replyBlocked"}

Serving == srv \in {"lookup", "connect", "execute", "post"}

(* At most one client is between sem_wait and sem_post of client_lock, as  *)
(* long as no client's sem_wait was interrupted; signals to the server do  *)
(* no harm.  communicate_with_bank takes the lock, its six callers release *)
(* it, after the early return for a closed bank too.                       *)
MutualExclusion ==
    interrupted = {} =>
        \A c, d \in Clients : InSection(c) /\ InSection(d) => c = d

(* The two semaphores of the round trip carry one token, while a client    *)
(* waits for its reply: a posted request, a request being served, or a     *)
(* posted reply.  Otherwise both are 0 and the server is idle, so the next *)
(* round trip cannot meet a token of an earlier one.                       *)
Handshake ==
    server_lock + readBack_lock + (IF Serving THEN 1 ELSE 0)
        = IF \E c \in Clients : Awaiting(c) THEN 1 ELSE 0

(* No client copies to or from the shared memory while the server serves a *)
(* request, and no two clients do so at the same time.  BANK_CLOSED, which *)
(* the server writes without any lock, is not covered.                     *)
NoDataRace ==
    LET accessing == {c \in Clients : pc[c] \in {"check", "write", "read"}}
    IN  /\ srv \in {"lookup", "connect", "execute"} => accessing = {}
        /\ \A c, d \in accessing : c = d

(* A granted reply belongs to the request of the client that reads it: the *)
(* balance it shows and the secret it brings are those of its account at   *)
(* that moment, although the server closes without any lock.               *)
ReplyIsMine ==
    \A c \in Clients :
        LET mine == list[con[c].accountNR]
        IN  pc[c] = "unlock" /\ data[c].outcome =>
                /\ data[c].accountNr = con[c].accountNR
                /\ data[c].otherAcc = call[c].other
                /\ call[c].action = "GET_BALANCE" => data[c].data = mine.balance
                /\ call[c].action = "CONNECT" => data[c].secret = mine.secret

(* The server's balances are what the replies to all clients add up to,    *)
(* whenever no round trip is under way: no request is lost, executed twice *)
(* or executed for somebody else.                                          *)
BooksBalance ==
    (\A c \in Clients : ~ InSection(c)) =>
        \A a \in Known : list[a].balance = books[a]

(* The CSV file of a server that has exited agrees with the replies, too.  *)
(* Main writes it only after the last request was answered.                *)
CsvAgrees ==
    srv = "done" /\ (\A c \in Clients : ~ InSection(c)) =>
        \A a \in Accounts : outFile[a] = books[a]

(* A session that is open at a running bank is held by a client that will  *)
(* still disconnect: none is left behind by clients that exit, or that log *)
(* in to an account that another client uses.                              *)
NoOrphanSession ==
    \A a \in Known :
        list[a].secret > 0 /\ srv # "done" =>
            \E c \in Clients :
                /\ pc[c] # "done"
                /\ con[c].accountNR = a
                /\ \/ con[c].secret = list[a].secret
                   \/ call[c].action = "CONNECT"

(* A request that reaches the switch of dispatch_action is one of the six: *)
(* the branches for action 0 and for an unknown action, where the server   *)
(* exits without writing its file, are dead code.                          *)
ActionUnderstood == srv = "execute" => shared.action \in Requests

(* The server grants a withdrawal or a transfer from cur in this step.     *)
DebitGranted ==
    /\ srv = "execute" /\ srv' = "post"
    /\ shared.action \in {"WITHDRAW", "TRANSFER"} /\ shared'.outcome

(* The request that is about to be executed pays money in to account a.    *)
Credits(a) ==
    /\ srv = "execute"
    /\ \/ shared.action = "DEPOSIT" /\ a = cur
       \/ shared.action = "TRANSFER" /\ a = shared.otherAcc

(* A withdrawal or transfer that is granted takes no more than the account *)
(* has, and no request but one that pays in more than an int can hold      *)
(* makes a balance negative.  From an account that is overdrawn already    *)
(* money can be taken only if the difference is below the least int, so    *)
(* that the server's subtraction wraps and looks covered.                  *)
NoOverdraft ==
    [][/\ DebitGranted =>
            \/ shared.data <= list[cur].balance
            \/ /\ list[cur].balance < 0
               /\ list[cur].balance - shared.data < -MaxInt - 1
       /\ \A a \in Known :
            list[a].balance >= 0 /\ list'[a].balance < 0 =>
                Credits(a) /\ list[a].balance + shared.data > MaxInt]_vars

-----------------------------------------------------------------------------
(* Liveness                                                                *)

(* While the server is not told to stop, a client that holds client_lock   *)
(* gives it back: the server answers every request.  That is so even when  *)
(* signals interrupt clients and requests overwrite each other.            *)
SectionEnds ==
    [](~ srvStop) => \A c \in Clients : InSection(c) ~> ~ InSection(c)

(* A server told to stop does so, unless the signal came between its test  *)
(* of stopSignal and the sleep in sem_wait.                                *)
StopsWhenAsked ==
    (srvStop /\ srv # "blocked" /\ (srv = "wait" => server_lock > 0))
        ~> srv = "done"

-----------------------------------------------------------------------------
(* What a comment of the code says, and the code does not do.              *)

(* server.c:394: "write BANK_CLOSED to shared memory so clients do not     *)
(* hang": no client sleeps for the reply of a server that has exited.      *)
NoHang ==
    srv = "done" =>
        \A c \in Clients : pc[c] = "replyBlocked" => readBack_lock > 0

-----------------------------------------------------------------------------
(* The bank implements the ledger.                                         *)

(* The request that the awaiting client posted has been answered.          *)
Executed == srv = "post" \/ readBack_lock > 0

Status(c) ==
    IF pc[c] \in {"menu", "enter", "loop", "done"} THEN "idle"
    ELSE IF pc[c] \in {"read", "unlock"} \/ (Awaiting(c) /\ Executed)
      THEN "answered" ELSE "asked"

(* Where the reply to c is before and after ReadReply.                     *)
Answer(c) == IF pc[c] = "unlock" THEN data[c] ELSE shared

Reply(c) ==
    LET showsBalance == Answer(c).outcome /\ call[c].action = "GET_BALANCE"
    IN  IF Status(c) = "answered"
          THEN [ok |-> Answer(c).outcome,
                balance |-> IF showsBalance THEN Answer(c).data ELSE 0]
          ELSE [ok |-> FALSE, balance |-> 0]

(* The secret that c has got or will read.                                 *)
SecretOf(c) ==
    IF call[c].action = "CONNECT" /\ Status(c) = "answered"
      THEN Answer(c).secret ELSE con[c].secret

Session(a) ==
    {c \in Clients : con[c].accountNR = a /\ SecretOf(c) = list[a].secret}

AccountOf  == [c \in Clients |-> con[c].accountNR]
StatusOf   == [c \in Clients |-> Status(c)]
ReplyOf    == [c \in Clients |-> Reply(c)]
SessionsOf == [a \in Known |-> Session(a)]
Balances   == [a \in Known |-> list[a].balance]
Open       == srv # "done"

Ledger == INSTANCE BankLedger WITH
    account <- AccountOf,
    request <- call,
    status  <- StatusOf,
    reply   <- ReplyOf,
    session <- SessionsOf,
    balance <- Balances,
    open    <- Open

(* Every calm behaviour of the bank is one of the ledger.                  *)
ImplementsLedger == Ledger!Spec

-----------------------------------------------------------------------------
(* Inductive strengthenings, for the proofs.                               *)

(* client_lock is 1 exactly while it protects nothing; a second post by    *)
(* the holder would raise it to 2.                                         *)
MutexInv ==
    interrupted = {} =>
        /\ client_lock \in {0, 1}
        /\ client_lock = 1 => \A c \in Clients : ~ InSection(c)
        /\ \A c, d \in Clients : InSection(c) /\ InSection(d) => c = d

CalmInv == interrupted = {} /\ MutexInv /\ Handshake

(* What clients write has one of the six actions; the zeros of the fresh   *)
(* memory name account 0, whose first secret they do not contain.          *)
ActionInv ==
    /\ shared.action = "CLOSED" => srv = "done"
    /\ \A c \in Clients :
         pc[c] \in {"lock", "lockBlocked", "check", "write"} =>
             data[c].action \in Requests
    /\ shared.action = "NONE" =>
         /\ shared.accountNr = 0
         /\ shared.secret = 0
         /\ list[0].secret = DummySecret
         /\ srv \notin {"connect", "execute"}

(* A reply that the books do not show yet: c will read or has read it.     *)
Owed(c) == Status(c) = "answered" /\ Answer(c).outcome

(* What a client's place in the round trip says about the shared memory,   *)
(* the server and the reply.                                               *)
RoundOf(c) ==
    /\ pc[c] \in {"lock", "lockBlocked", "check", "write"} =>
         data[c] = Message(con[c], call[c])
    /\ Status(c) = "asked" /\ (pc[c] = "post" \/ Awaiting(c)) /\ srv # "done" =>
         shared = Message(con[c], call[c])
    /\ Awaiting(c) /\ srv \in {"connect", "execute"} =>
         /\ cur = con[c].accountNR
         /\ srv = "connect" <=> call[c].action = "CONNECT"
    /\ Owed(c) =>
         LET mine == list[con[c].accountNR]
         IN  /\ Answer(c).accountNr = con[c].accountNR
             /\ Answer(c).otherAcc = call[c].other
             /\ call[c].action = "GET_BALANCE" => Answer(c).data = mine.balance
             /\ call[c].action = "CONNECT" => Answer(c).secret = mine.secret

(* The books lag behind the list by the one reply that is owed.            *)
BooksInv ==
    /\ (\A c \in Clients : ~ Owed(c)) => Balances = books
    /\ \A c \in Clients :
         Owed(c) => Balances = Effect(books, con[c].accountNR, call[c])

FileInv ==
    srv \in {"close", "done"} => outFile = [a \in Accounts |-> list[a].balance]

RoundInv == (\A c \in Clients : RoundOf(c)) /\ BooksInv /\ FileInv

(* dispatch_action rejects negative amounts before it calls a handler.     *)
AmountInv == srv = "execute" => shared.data >= 0

(* Secrets are drawn, each once: clients and the shared memory hold one of *)
(* them or the 0 of the beginning, with which no account is logged in.     *)
SecretInv ==
    /\ \A c \in Clients :
         con[c].secret \in 0 .. drawn /\ data[c].secret \in 0 .. drawn
    /\ shared.secret \in 0 .. drawn
    /\ \A a \in Known : list[a].secret < 0 \/ list[a].secret \in 1 .. drawn

(* Nobody logs in or out between the test of the secret and the handler.   *)
AuthorisedInv == srv = "execute" => Authorised(list[cur])

(* Until the bank closes, a client that got its answer was connected, and  *)
(* does not leave with the session of its account.                         *)
FarewellInv ==
    \A c \in Clients :
        /\ call[c].action = "DISCONNECT" => call[c].money = 0
        /\ Status(c) = "answered" /\ srv # "done" /\ con[c].accountNR \in Known =>
             /\ call[c].action = "CONNECT" => Answer(c).outcome
             /\ call[c].action = "DISCONNECT" =>
                  con[c].secret # list[con[c].accountNR].secret

(* Whose account is logged in has not exited.                              *)
HolderInv ==
    srv # "done" =>
        \A a \in Known :
            list[a].secret > 0 => \E c \in Session(a) : pc[c] # "done"

SessionInv == SecretInv /\ AuthorisedInv /\ FarewellInv /\ HolderInv
===============================================================================
