------------------------------ MODULE BankShared ------------------------------
(***************************************************************************)
(* What the bank's server and its clients share (Beispiel 3/shared.h): one *)
(* record in POSIX shared memory and three named semaphores.  The modules  *)
(* BankServer and BankClient add the private state of the two programs and *)
(* Bank composes them.                                                     *)
(***************************************************************************)
EXTENDS BankTypes

VARIABLES
    client_lock,    \* mutex of the clients
    server_lock,    \* a request is in shared
    readBack_lock,  \* a reply is in shared
    shared,         \* the shared memory
    sigsLeft        \* SIGINTs and SIGTERMs that may still arrive (bounds)

sems == <<client_lock, server_lock, readBack_lock>>

SharedTypeOK ==
    /\ client_lock \in Nat
    /\ server_lock \in Nat
    /\ readBack_lock \in Nat
    /\ shared \in BankMgrData
    /\ sigsLeft \in [server : Nat, clients : Nat]

(* The shared memory after the memset of init_bankserver.                  *)
ZeroedShm == [action |-> "NONE", accountNr |-> 0, secret |-> 0,
              otherAcc |-> 0, data |-> 0, outcome |-> FALSE]

(* The objects as init_bankserver (server.c) creates them.                 *)
SharedInit ==
    /\ client_lock = 1
    /\ server_lock = 0
    /\ readBack_lock = 0
    /\ shared = ZeroedShm
=============================================================================
