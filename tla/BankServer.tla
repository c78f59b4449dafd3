------------------------------ MODULE BankServer ------------------------------
(***************************************************************************)
(* The bank server (Beispiel 3/server.c) from the end of its start-up: the *)
(* dispatcher loop, the handlers of the six requests, the signal handler   *)
(* and the shutdown.                                                       *)
(*                                                                         *)
(* srv is where the process stands:                                        *)
(*   loop     at the test of stopSignal in main                            *)
(*   wait     about to call sem_wait(server_lock)                          *)
(*   blocked  asleep in that call                                          *)
(*   lookup   back from sem_wait, whatever it returned                     *)
(*   connect, execute   about to call a handler for the record cur         *)
(*   post     about to post readBack_lock                                  *)
(*   save, close, done  writing the file, free_resources, exited           *)
(***************************************************************************)
EXTENDS BankShared

CONSTANTS
    OpeningBalances,    \* the balances in the CSV file
    Garbage             \* values the malloc'ed balance of account 0 may hold

(* Account 0 heads the list; read_csv_table invents it.                    *)
Known == Accounts \cup {0}

ASSUME ServerAssumption ==
    /\ OpeningBalances \in [Accounts -> Int32]
    /\ Garbage \subseteq Int32

(* The secret of an account that nobody is connected to.                   *)
LoggedOut == -1

(* Wrong: account 0 starts with the secret that zeroed memory holds.       *)
ZeroSecret == 0

(* The secret of account 0 at the start.                                   *)
DummySecret == -9

VARIABLES
    srv,        \* control state, see above
    srvStop,    \* stopSignal of the server
    list,       \* bank->list: balance and secret of every account
    cur,        \* the number of the record r that dispatch_action found
    drawn,      \* how often rand() was called
    outFile     \* the balances written to the CSV file, << >> before

srvVars == <<srv, srvStop, list, cur, drawn, outFile>>

SrvStates == {"loop", "wait", "blocked", "lookup", "connect", "execute",
              "post", "save", "close", "done"}

ServerTypeOK ==
    /\ srv \in SrvStates
    /\ srvStop \in BOOLEAN
    /\ list \in [Known -> [balance : Int32, secret : Int]]
    /\ cur \in Known
    /\ drawn \in Nat
    /\ outFile \in {<< >>} \cup [Accounts -> Int32]

(* The list that read_csv_table builds; it never sets the balance of 0.    *)
OpeningList(garbage) ==
    [a \in Known |->
        IF a = 0 THEN [balance |-> garbage, secret |-> DummySecret]
                 ELSE [balance |-> OpeningBalances[a], secret |-> LoggedOut]]

ServerInit ==
    /\ srv = "loop"
    /\ srvStop = FALSE
    /\ \E g \in Garbage : list = OpeningList(g)
    /\ cur = 0
    /\ drawn = 0
    /\ outFile = << >>

-----------------------------------------------------------------------------
(* The dispatcher loop and sem_wait(server_lock).                          *)

(* A signal between this test and the sleep in sem_wait is not noticed.    *)
SrvLoop ==
    /\ srv = "loop"
    /\ srv' = IF srvStop THEN "save" ELSE "wait"
    /\ UNCHANGED <<sems, shared, sigsLeft, srvStop, list, cur, drawn, outFile>>

SrvWait ==
    /\ srv = "wait"
    /\ IF server_lock > 0
         THEN /\ server_lock' = server_lock - 1
              /\ srv' = "lookup"
         ELSE /\ srv' = "blocked"
              /\ UNCHANGED server_lock
    /\ UNCHANGED <<client_lock, readBack_lock, shared, sigsLeft, srvStop, list,
                   cur, drawn, outFile>>

SrvWake ==
    /\ srv = "blocked"
    /\ server_lock > 0
    /\ server_lock' = server_lock - 1
    /\ srv' = "lookup"
    /\ UNCHANGED <<client_lock, readBack_lock, shared, sigsLeft, srvStop, list,
                   cur, drawn, outFile>>

-----------------------------------------------------------------------------
(* dispatch_action: look the account up, then check secret and amount.     *)

(* Wrong: leaves dispatch_action without posting readBack_lock.            *)
RefusedSilently ==
    /\ shared' = [shared EXCEPT !.outcome = FALSE]
    /\ srv' = "loop"

Refused ==
    /\ shared' = [shared EXCEPT !.outcome = FALSE]
    /\ srv' = "post"

(* Wrong: does not compare the secrets.                                    *)
AuthorisedByAnyone(r) == shared.data >= 0

Authorised(r) == r.secret = shared.secret /\ shared.data >= 0

SrvLookup ==
    /\ srv = "lookup"
    /\ IF shared.accountNr \notin Known
         THEN Refused /\ UNCHANGED cur
         ELSE /\ cur' = shared.accountNr
              /\ \/ /\ shared.action = "CONNECT"
                    /\ srv' = "connect"
                    /\ UNCHANGED shared
                 \/ /\ shared.action # "CONNECT"
                    /\ Authorised(list[shared.accountNr])
                    /\ srv' = "execute"
                    /\ UNCHANGED shared
                 \/ /\ shared.action # "CONNECT"
                    /\ ~ Authorised(list[shared.accountNr])
                    /\ Refused
    /\ UNCHANGED <<sems, sigsLeft, srvStop, list, drawn, outFile>>

-----------------------------------------------------------------------------
(* The handlers.  Each is one step: while the server runs one, the client  *)
(* that asked waits and no other client may touch the shared memory.       *)

(* A handler ran for a request with the given action.                      *)
Handle(action) ==
    /\ srv = "execute"
    /\ shared.action = action
    /\ srv' = "post"
    /\ UNCHANGED <<sems, sigsLeft, srvStop, cur, outFile>>

Done(outcome) == shared' = [shared EXCEPT !.outcome = outcome]

(* Wrong: looks at the old balance instead of the new one.                 *)
CoveredBefore == list[cur].balance >= 0

(* Money leaves the account cur only if the balance covers it.             *)
Covered == Wrap(list[cur].balance - shared.data) >= 0

Credit(l, a, amount) == [l EXCEPT ![a].balance = Wrap(@ + amount)]
Debit(l, a, amount)  == [l EXCEPT ![a].balance = Wrap(@ - amount)]

(* Wrong: does not put the new secret into the reply.                      *)
DispatchConnectMute ==
    /\ srv = "connect" \/ (srv = "execute" /\ shared.action = "CONNECT")
    /\ srv' = "post"
    /\ drawn' = drawn + 1
    /\ list' = [list EXCEPT ![cur].secret = drawn']
    /\ shared' = [shared EXCEPT !.outcome = TRUE]
    /\ UNCHANGED <<sems, sigsLeft, srvStop, cur, outFile>>

(* The switch tests CONNECT once more, for a request that changed since.   *)
DispatchConnect ==
    /\ srv = "connect" \/ (srv = "execute" /\ shared.action = "CONNECT")
    /\ srv' = "post"
    /\ drawn' = drawn + 1
    /\ list' = [list EXCEPT ![cur].secret = drawn']
    /\ shared' = [shared EXCEPT !.secret = drawn', !.outcome = TRUE]
    /\ UNCHANGED <<sems, sigsLeft, srvStop, cur, outFile>>

(* Wrong: leaves the account logged in.                                    *)
DispatchDisconnectOnly ==
    /\ Handle("DISCONNECT")
    /\ Done(TRUE)
    /\ UNCHANGED <<list, drawn>>

DispatchDisconnect ==
    /\ Handle("DISCONNECT")
    /\ list' = [list EXCEPT ![cur].secret = LoggedOut]
    /\ Done(TRUE)
    /\ UNCHANGED drawn

DispatchGetBalance ==
    /\ Handle("GET_BALANCE")
    /\ shared' = [shared EXCEPT !.data = list[cur].balance, !.outcome = TRUE]
    /\ UNCHANGED <<list, drawn>>

(* Wrong: reports success for a withdrawal that it refuses.                *)
DispatchWithdrawCheerful ==
    /\ Handle("WITHDRAW")
    /\ Done(TRUE)
    /\ list' = IF Covered THEN Debit(list, cur, shared.data) ELSE list
    /\ UNCHANGED drawn

DispatchWithdraw ==
    /\ Handle("WITHDRAW")
    /\ IF Covered
         THEN Done(TRUE) /\ list' = Debit(list, cur, shared.data)
         ELSE Done(FALSE) /\ UNCHANGED list
    /\ UNCHANGED drawn

DispatchDeposit ==
    /\ Handle("DEPOSIT")
    /\ list' = Credit(list, cur, shared.data)
    /\ Done(TRUE)
    /\ UNCHANGED drawn

(* Wrong: debits before it looks for the other account.                    *)
DispatchTransferEager ==
    /\ Handle("TRANSFER")
    /\ IF shared.otherAcc \in Known /\ Covered
         THEN /\ Done(TRUE)
              /\ list' = Credit(Debit(list, cur, shared.data),
                                shared.otherAcc, shared.data)
         ELSE Done(FALSE) /\ list' = Debit(list, cur, shared.data)
    /\ UNCHANGED drawn

(* A transfer to cur itself debits and credits the same record.            *)
DispatchTransfer ==
    /\ Handle("TRANSFER")
    /\ IF shared.otherAcc \in Known /\ Covered
         THEN /\ Done(TRUE)
              /\ list' = Credit(Debit(list, cur, shared.data),
                                shared.otherAcc, shared.data)
         ELSE Done(FALSE) /\ UNCHANGED list
    /\ UNCHANGED drawn

(* Wrong: waits for the next request without testing stopSignal.           *)
SrvPostAndWait ==
    /\ srv = "post"
    /\ readBack_lock' = readBack_lock + 1
    /\ srv' = "wait"
    /\ UNCHANGED <<client_lock, server_lock, shared, sigsLeft, srvStop, list,
                   cur, drawn, outFile>>

SrvPost ==
    /\ srv = "post"
    /\ readBack_lock' = readBack_lock + 1
    /\ srv' = "loop"
    /\ UNCHANGED <<client_lock, server_lock, shared, sigsLeft, srvStop, list,
                   cur, drawn, outFile>>

-----------------------------------------------------------------------------
(* The shutdown: write_csv_table, then free_resources at exit.             *)

SrvSave ==
    /\ srv = "save"
    /\ outFile' = [a \in Accounts |-> list[a].balance]
    /\ srv' = "close"
    /\ UNCHANGED <<sems, shared, sigsLeft, srvStop, list, cur, drawn>>

(* Takes no lock.  The objects are unlinked after this, but clients that   *)
(* have opened them keep using them.                                       *)
SrvClose ==
    /\ srv = "close"
    /\ shared' = [shared EXCEPT !.action = "CLOSED"]
    /\ srv' = "done"
    /\ UNCHANGED <<sems, sigsLeft, srvStop, list, cur, drawn, outFile>>

ServerStep ==
    \/ SrvLoop \/ SrvWait \/ SrvWake \/ SrvLookup
    \/ DispatchConnect \/ DispatchDisconnect \/ DispatchGetBalance
    \/ DispatchWithdraw \/ DispatchDeposit \/ DispatchTransfer
    \/ SrvPost \/ SrvSave \/ SrvClose

-----------------------------------------------------------------------------
(* signal_handler for SIGINT and SIGTERM.                                  *)

(* The process is not asleep: the handler only sets the flag.              *)
SrvSignal ==
    /\ sigsLeft.server > 0
    /\ srv \notin {"blocked", "done"}
    /\ sigsLeft' = [sigsLeft EXCEPT !.server = @ - 1]
    /\ srvStop' = TRUE
    /\ UNCHANGED <<sems, shared, srv, list, cur, drawn, outFile>>

(* The process sleeps in sem_wait.  The handler is installed without       *)
(* SA_RESTART, so the call fails with EINTR; dispatch_action does not look *)
(* at its result and goes on without having taken the token.               *)
SrvInterrupted ==
    /\ sigsLeft.server > 0
    /\ srv = "blocked"
    /\ sigsLeft' = [sigsLeft EXCEPT !.server = @ - 1]
    /\ srvStop' = TRUE
    /\ srv' = "lookup"
    /\ UNCHANGED <<sems, shared, list, cur, drawn, outFile>>
=============================================================================
