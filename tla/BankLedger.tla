------------------------------ MODULE BankLedger ------------------------------
(***************************************************************************)
(* What the bank promises its clients, without semaphores, shared memory   *)
(* or secrets.  A request takes effect in one step, exactly once, between  *)
(* the call and its return, and its reply is the outcome of that step.  An *)
(* account serves the client that connected to it last, until that client  *)
(* disconnects.  After the bank has closed, requests are refused.          *)
(***************************************************************************)
EXTENDS BankTypes

CONSTANT Clients

VARIABLES
    account,    \* the account number of each client
    request,    \* the latest call of each client
    status,     \* idle, asked or answered
    reply,      \* the reply of an answered request
    session,    \* who is connected to an account: at most one client
    balance,    \* function from the accounts of the bank
    open

vars == <<account, request, status, reply, session, balance, open>>

NoReply == [ok |-> FALSE, balance |-> 0]

Connecting == [action |-> "CONNECT", money |-> 0, other |-> 0]

Init ==
    /\ account \in [Clients -> AccountArgs]
    /\ request = [c \in Clients |-> Connecting]
    /\ status = [c \in Clients |-> "asked"]
    /\ reply = [c \in Clients |-> NoReply]
    /\ balance \in [Accounts \cup {0} -> Int32]
    /\ session = [a \in Accounts \cup {0} |-> {}]
    /\ open = TRUE

Ask(c) ==
    /\ status[c] = "idle"
    /\ \E q \in Call : request' = [request EXCEPT ![c] = q]
    /\ status' = [status EXCEPT ![c] = "asked"]
    /\ UNCHANGED <<account, reply, session, balance, open>>

(* The reply ends the call of an asked client.                             *)
Answer(c, ok, amount) ==
    /\ status[c] = "asked"
    /\ status' = [status EXCEPT ![c] = "answered"]
    /\ reply' = [reply EXCEPT ![c] = [ok |-> ok, balance |-> amount]]
    /\ UNCHANGED <<account, request, open>>

(* Whether the bank grants the current request of c.                       *)
Serves(c) ==
    /\ account[c] \in Accounts \cup {0}
    /\ request[c].action # "CONNECT" =>
         c \in session[account[c]] /\ request[c].money >= 0
    /\ request[c].action \in {"WITHDRAW", "TRANSFER"} =>
         Wrap(balance[account[c]] - request[c].money) >= 0
    /\ request[c].action = "TRANSFER" => request[c].other \in Accounts \cup {0}

Sessions(c, a, q) ==
    CASE q.action = "CONNECT"    -> [session EXCEPT ![a] = {c}]
      [] q.action = "DISCONNECT" -> [session EXCEPT ![a] = {}]
      [] OTHER                   -> session

Grant(c) ==
    /\ open
    /\ Serves(c)
    /\ Answer(c, TRUE, IF request[c].action = "GET_BALANCE"
                         THEN balance[account[c]] ELSE 0)
    /\ balance' = Effect(balance, account[c], request[c])
    /\ session' = Sessions(c, account[c], request[c])

Refuse(c) ==
    /\ open => ~ Serves(c)
    /\ Answer(c, FALSE, 0)
    /\ UNCHANGED <<balance, session>>

Return(c) ==
    /\ status[c] = "answered"
    /\ status' = [status EXCEPT ![c] = "idle"]
    /\ reply' = [reply EXCEPT ![c] = NoReply]
    /\ UNCHANGED <<account, request, session, balance, open>>

Close ==
    /\ open
    /\ open' = FALSE
    /\ UNCHANGED <<account, request, status, reply, session, balance>>

Next ==
    \/ \E c \in Clients : Ask(c) \/ Grant(c) \/ Refuse(c) \/ Return(c)
    \/ Close

Spec == Init /\ [][Next]_vars
=============================================================================
