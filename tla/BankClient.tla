------------------------------ MODULE BankClient ------------------------------
(***************************************************************************)
(* The bank's client program (Beispiel 3/client.c), once its semaphores    *)
(* and its shared memory are open: connecting, the menu, the round trip of *)
(* communicate_with_bank, and disconnecting.                               *)
(*                                                                         *)
(* pc[c] is where client c stands:                                         *)
(*   menu, enter  reading a command, reading the rest of a line            *)
(*   loop         at the end of the body of the loop in main               *)
(*   lock         about to call sem_wait(client_lock)                      *)
(*   lockBlocked  asleep in that call                                      *)
(*   check, write, post   before the three steps that send a request       *)
(*   reply        about to call sem_wait(readBack_lock)                    *)
(*   replyBlocked asleep in that call                                      *)
(*   read         about to copy the reply                                  *)
(*   unlock       back in connect_to_bank, deposit_money, ...              *)
(*   done         exited                                                   *)
(***************************************************************************)
EXTENDS BankShared

CONSTANTS
    Clients,        \* client processes
    MaxOps          \* commands of one user, besides connecting (a bound)

ASSUME ClientAssumption == MaxOps \in Nat

VARIABLES
    pc,             \* control state, see above
    stop,           \* stopSignal of each client
    con,            \* the ClientConnection
    call,           \* the request function that runs, and its arguments
    data,           \* its local struct BankMgrData; zeroed when it returns
    opsLeft,
    interrupted     \* history: clients with a sem_wait that gave EINTR

clientVars == <<pc, stop, con, call, data, opsLeft, interrupted>>

ClientStates == {"menu", "enter", "loop", "lock", "lockBlocked", "check",
                 "write", "post", "reply", "replyBlocked", "read", "unlock",
                 "done"}

Connection == [accountNR : Int32, secret : Int, bankClosed : BOOLEAN]

ClientTypeOK ==
    /\ pc \in [Clients -> ClientStates]
    /\ stop \in [Clients -> BOOLEAN]
    /\ con \in [Clients -> Connection]
    /\ call \in [Clients -> Call]
    /\ data \in [Clients -> BankMgrData]
    /\ opsLeft \in [Clients -> Nat]
    /\ interrupted \subseteq Clients

(* The initialiser of data in the request functions.                       *)
Message(connection, q) ==
    [action |-> q.action, accountNr |-> connection.accountNR,
     secret |-> connection.secret, otherAcc |-> q.other, data |-> q.money,
     outcome |-> FALSE]

Simple(action) == [action |-> action, money |-> 0, other |-> 0]

(* Every client has parsed its account number and is about to connect.     *)
(* The secret of a fresh connection is whatever malloc returned; it goes   *)
(* out only with CONNECT, whose handler overwrites it.                     *)
ClientInit ==
    /\ \E nr \in [Clients -> AccountArgs] :
         con = [c \in Clients |-> [accountNR |-> nr[c], secret |-> 0,
                                   bankClosed |-> FALSE]]
    /\ pc = [c \in Clients |-> "lock"]
    /\ stop = [c \in Clients |-> FALSE]
    /\ call = [c \in Clients |-> Simple("CONNECT")]
    /\ data = [c \in Clients |-> Message(con[c], Simple("CONNECT"))]
    /\ opsLeft = [c \in Clients |-> MaxOps]
    /\ interrupted = {}

Goto(c, there) == pc' = [pc EXCEPT ![c] = there]

(* Client c goes from one place to another and keeps its own variables.    *)
Step(c, here, there) ==
    /\ pc[c] = here
    /\ Goto(c, there)
    /\ UNCHANGED <<sigsLeft, stop, con, call, opsLeft, interrupted>>

-----------------------------------------------------------------------------
(* communicate_with_bank                                                   *)

(* Wrong: does not wait for the lock.                                      *)
LockTaken(c) ==
    /\ Step(c, "lock", "check")
    /\ client_lock' = client_lock - 1
    /\ UNCHANGED <<server_lock, readBack_lock, shared, data>>

LockWait(c) ==
    /\ Step(c, "lock", IF client_lock > 0 THEN "check" ELSE "lockBlocked")
    /\ client_lock' = IF client_lock > 0 THEN client_lock - 1 ELSE client_lock
    /\ UNCHANGED <<server_lock, readBack_lock, shared, data>>

LockWake(c) ==
    /\ Step(c, "lockBlocked", "check")
    /\ client_lock > 0
    /\ client_lock' = client_lock - 1
    /\ UNCHANGED <<server_lock, readBack_lock, shared, data>>

(* Wrong: the early return releases client_lock, as the caller does again. *)
CheckClosedReleasing(c) ==
    /\ pc[c] = "check"
    /\ IF shared.action = "CLOSED"
         THEN /\ Goto(c, "unlock")
              /\ data' = [data EXCEPT ![c].outcome = FALSE]
              /\ con' = [con EXCEPT ![c].bankClosed = TRUE]
              /\ client_lock' = client_lock + 1
         ELSE /\ Goto(c, "write")
              /\ UNCHANGED <<data, con, client_lock>>
    /\ UNCHANGED <<server_lock, readBack_lock, shared, sigsLeft, stop, call,
                   opsLeft, interrupted>>

(* The early return keeps client_lock: the caller releases it.             *)
CheckClosed(c) ==
    /\ pc[c] = "check"
    /\ IF shared.action = "CLOSED"
         THEN /\ Goto(c, "unlock")
              /\ data' = [data EXCEPT ![c].outcome = FALSE]
              /\ con' = [con EXCEPT ![c].bankClosed = TRUE]
         ELSE /\ Goto(c, "write")
              /\ UNCHANGED <<data, con>>
    /\ UNCHANGED <<sems, shared, sigsLeft, stop, call, opsLeft, interrupted>>

WriteRequest(c) ==
    /\ Step(c, "write", "post")
    /\ shared' = data[c]
    /\ UNCHANGED <<sems, data>>

(* Wrong: reads the reply without waiting for it.                          *)
PostAndRead(c) ==
    /\ Step(c, "post", "read")
    /\ server_lock' = server_lock + 1
    /\ UNCHANGED <<client_lock, readBack_lock, shared, data>>

PostRequest(c) ==
    /\ Step(c, "post", "reply")
    /\ server_lock' = server_lock + 1
    /\ UNCHANGED <<client_lock, readBack_lock, shared, data>>

ReplyWait(c) ==
    /\ Step(c, "reply", IF readBack_lock > 0 THEN "read" ELSE "replyBlocked")
    /\ readBack_lock' = IF readBack_lock > 0 THEN readBack_lock - 1
                                             ELSE readBack_lock
    /\ UNCHANGED <<client_lock, server_lock, shared, data>>

ReplyWake(c) ==
    /\ Step(c, "replyBlocked", "read")
    /\ readBack_lock > 0
    /\ readBack_lock' = readBack_lock - 1
    /\ UNCHANGED <<client_lock, server_lock, shared, data>>

ReadReply(c) ==
    /\ Step(c, "read", "unlock")
    /\ data' = [data EXCEPT ![c] = shared]
    /\ UNCHANGED <<sems, shared>>

-----------------------------------------------------------------------------
(* The rest of the request functions and of main                           *)

Begin(c, q) ==
    /\ call' = [call EXCEPT ![c] = q]
    /\ data' = [data EXCEPT ![c] = Message(con[c], q)]
    /\ Goto(c, "lock")

(* connect_to_bank stores the secret, everybody posts client_lock; main    *)
(* exits after a refused CONNECT and after DISCONNECT.                     *)
Unlock(c) ==
    /\ pc[c] = "unlock"
    /\ client_lock' = client_lock + 1
    /\ con' = IF call[c].action = "CONNECT"
                THEN [con EXCEPT ![c].secret = data[c].secret] ELSE con
    /\ Goto(c, IF \/ call[c].action = "DISCONNECT"
                  \/ call[c].action = "CONNECT" /\ ~ data[c].outcome
               THEN "done" ELSE "loop")
    /\ data' = [data EXCEPT ![c] = ZeroedShm]
    /\ UNCHANGED <<server_lock, readBack_lock, shared, sigsLeft, stop, call,
                   opsLeft, interrupted>>

(* A closed bank ends the loop like a signal; then main disconnects.       *)
Loop(c) ==
    /\ pc[c] = "loop"
    /\ stop' = [stop EXCEPT ![c] = @ \/ con[c].bankClosed]
    /\ IF stop'[c] THEN Begin(c, Simple("DISCONNECT"))
                   ELSE Goto(c, "menu") /\ UNCHANGED <<call, data>>
    /\ UNCHANGED <<sems, shared, sigsLeft, con, opsLeft, interrupted>>

ClientStep(c) ==
    \/ LockWait(c) \/ LockWake(c) \/ CheckClosed(c) \/ WriteRequest(c)
    \/ PostRequest(c) \/ ReplyWait(c) \/ ReplyWake(c) \/ ReadReply(c)
    \/ Unlock(c) \/ Loop(c)

-----------------------------------------------------------------------------
(* What the user types.  A client that reads input ignores stop.           *)

Commands ==
    {Simple("GET_BALANCE")} \cup
    [action : {"WITHDRAW", "DEPOSIT"}, money : Amounts, other : {0}] \cup
    [action : {"TRANSFER"}, money : Amounts, other : AccountArgs]

Command(c) ==
    /\ pc[c] = "menu"
    /\ opsLeft[c] > 0
    /\ opsLeft' = [opsLeft EXCEPT ![c] = @ - 1]
    /\ \E q \in Commands : Begin(c, q)
    /\ UNCHANGED <<sems, shared, sigsLeft, stop, con, interrupted>>

Quit(c) ==
    /\ pc[c] = "menu"
    /\ stop' = [stop EXCEPT ![c] = TRUE]
    /\ Goto(c, "loop")
    /\ UNCHANGED <<sems, shared, sigsLeft, con, call, data, opsLeft,
                   interrupted>>

(* 'h' or an unknown key, then the newline after it.                       *)
OtherKey(c) == Step(c, "menu", "enter") /\ UNCHANGED <<sems, shared, data>>
Newline(c)  == Step(c, "enter", "loop") /\ UNCHANGED <<sems, shared, data>>

UserStep(c) == Command(c) \/ Quit(c) \/ OtherKey(c) \/ Newline(c)

-----------------------------------------------------------------------------
(* signal_handler for SIGINT and SIGTERM.                                  *)

(* The handler sets the flag.  At the prompt it also makes getc return EOF *)
(* if the process already sleeps there, and main takes that for a key.     *)
ClientSignal(c) ==
    /\ sigsLeft.clients > 0
    /\ pc[c] \notin {"lockBlocked", "replyBlocked", "done"}
    /\ sigsLeft' = [sigsLeft EXCEPT !.clients = @ - 1]
    /\ stop' = [stop EXCEPT ![c] = TRUE]
    /\ \/ UNCHANGED pc
       \/ pc[c] = "menu"  /\ Goto(c, "enter")
       \/ pc[c] = "enter" /\ Goto(c, "loop")
    /\ UNCHANGED <<sems, shared, con, call, data, opsLeft, interrupted>>

(* sem_wait fails with EINTR, and the client goes on as if it had returned *)
(* with the lock, or with the reply.                                       *)
ClientInterrupted(c) ==
    /\ sigsLeft.clients > 0
    /\ \/ pc[c] = "lockBlocked"  /\ Goto(c, "check")
       \/ pc[c] = "replyBlocked" /\ Goto(c, "read")
    /\ sigsLeft' = [sigsLeft EXCEPT !.clients = @ - 1]
    /\ stop' = [stop EXCEPT ![c] = TRUE]
    /\ interrupted' = interrupted \cup {c}
    /\ UNCHANGED <<sems, shared, con, call, data, opsLeft>>
=============================================================================
