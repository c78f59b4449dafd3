------------------------------ MODULE BankProofs ------------------------------
(***************************************************************************)
(* Theorems about the bank for any set of clients, accounts and amounts,   *)
(* any width of an int, and any number of commands and signals: types,     *)
(* mutual exclusion and the handshake, whatever signals interrupt; then,   *)
(* if no sem_wait is interrupted, that replies, books and the CSV file     *)
(* agree, that no session is left behind, and that the bank is a ledger.   *)
(* RoundInv is inductive relative to TypeOK and CalmInv, SessionInv to     *)
(* these and RoundInv.                                                     *)
(***************************************************************************)
EXTENDS Bank, TLAPS

-----------------------------------------------------------------------------
(* Arithmetic                                                              *)

(* The sum of two ints, and their difference, wrap to an int.              *)
LEMMA WrapInt ==
    ASSUME NEW x \in Int32, NEW y \in Int32
    PROVE  Wrap(x + y) \in Int32 /\ Wrap(x - y) \in Int32 /\ Wrap(x + -y) \in Int32
  BY SharedAssumption, SMT DEF Int32, Wrap

(* Moving an amount keeps balances ints, even for an unknown account.      *)
LEMMA MoveType ==
    ASSUME NEW b \in [Known -> Int32], NEW a, NEW m \in Int32
    PROVE  /\ Move(b, a, m) \in [Known -> Int32]
           /\ Move(b, a, -m) \in [Known -> Int32]
<1>1. ASSUME a \in Known
      PROVE  Wrap(b[a] + m) \in Int32 /\ Wrap(b[a] + -m) \in Int32
  BY <1>1, WrapInt
<1>2. ASSUME NEW w, a \in Known => w \in Int32
      PROVE  [b EXCEPT ![a] = w] \in [Known -> Int32]
  BY <1>2
<1>3. QED
  BY <1>1, <1>2 DEF Move

LEMMA EffectType ==
    ASSUME NEW b \in [Known -> Int32], NEW a, NEW q \in Call
    PROVE  Effect(b, a, q) \in [Known -> Int32]
<1>0. 0 \in Int32
  BY SharedAssumption DEF Int32
<1>1. q.money \in Int32
  BY <1>0, SharedAssumption DEF Call
<1>2. Move(b, a, -q.money) \in [Known -> Int32]
  BY <1>1, MoveType
<1>3. Move(b, a, q.money) \in [Known -> Int32]
  BY <1>1, MoveType
<1>4. Move(Move(b, a, -q.money), q.other, q.money) \in [Known -> Int32]
  BY <1>1, <1>2, MoveType
<1>5. QED
  BY <1>2, <1>3, <1>4 DEF Effect

-----------------------------------------------------------------------------
(* Types                                                                   *)

LEMMA InitType == Init => TypeOK
<1>1. ASSUME Init PROVE TypeOK
  <2>1. SharedTypeOK
    BY <1>1, SharedAssumption, SignalsAssumption
    DEF Init, SharedInit, SharedTypeOK, BankMgrData, ZeroedShm, Int32
  <2>2. list \in [Known -> [balance : Int32, secret : Int]]
    <3>1. PICK g \in Garbage : list = OpeningList(g)
      BY <1>1 DEF Init, ServerInit
    <3>2. ASSUME NEW a \in Known
          PROVE  OpeningList(g)[a] \in [balance : Int32, secret : Int]
      BY ServerAssumption DEF OpeningList, Known, LoggedOut, DummySecret
    <3>3. QED
      BY <3>1, <3>2 DEF OpeningList
  <2>3. ServerTypeOK
    BY <1>1, <2>2 DEF Init, ServerInit, ServerTypeOK, SrvStates, Known
  <2>4. con \in [Clients -> Connection]
    BY <1>1, SharedAssumption DEF Init, ClientInit, Connection
  <2>5. call \in [Clients -> Call]
    BY <1>1 DEF Init, ClientInit, Call, Simple, Requests
  <2>6. data \in [Clients -> BankMgrData]
    BY <1>1, <2>4, SharedAssumption
    DEF Init, ClientInit, Message, Simple, Connection, BankMgrData, Requests,
        Int32
  <2>7. ClientTypeOK
    BY <1>1, <2>4, <2>5, <2>6, ClientAssumption
    DEF Init, ClientInit, ClientTypeOK, ClientStates
  <2>8. books \in [Known -> Int32]
    BY <1>1, <2>2 DEF Init
  <2>9. QED
    BY <2>1, <2>3, <2>7, <2>8 DEF TypeOK
<1>2. QED
  BY <1>1

(* What the server does to the shared memory.                              *)
LEMMA ShmType ==
    ASSUME NEW m \in BankMgrData
    PROVE  /\ [m EXCEPT !.outcome = TRUE] \in BankMgrData
           /\ [m EXCEPT !.outcome = FALSE] \in BankMgrData
           /\ \A s \in Int : [m EXCEPT !.secret = s, !.outcome = TRUE]
                \in BankMgrData
           /\ \A d \in Int32 : [m EXCEPT !.data = d, !.outcome = TRUE]
                \in BankMgrData
           /\ [m EXCEPT !.action = "CLOSED"] \in BankMgrData
  BY DEF BankMgrData

(* A handler leaves an int in every field of the shared memory and of the  *)
(* list.                                                                   *)
LEMMA ServerStepType ==
    ASSUME TypeOK, ServerStep
    PROVE  SharedTypeOK' /\ ServerTypeOK'
<1> USE DEF TypeOK, SharedTypeOK, ServerTypeOK, SrvStates
<1> DEFINE Records == [balance : Int32, secret : Int]
<1>1. CASE SrvLoop
  BY <1>1 DEF SrvLoop, sems
<1>2. CASE SrvWait
  BY <1>2 DEF SrvWait
<1>3. CASE SrvWake
  BY <1>3 DEF SrvWake
<1>4. CASE SrvLookup
  <2>1. shared' \in BankMgrData
    <3>1. shared' = shared \/ shared' = [shared EXCEPT !.outcome = FALSE]
      BY <1>4 DEF SrvLookup, Refused
    <3>2. QED
      BY <3>1, ShmType
  <2>2. QED
    BY <1>4, <2>1 DEF SrvLookup, Refused, sems
<1>5. CASE DispatchConnect
  <2>1. drawn' \in Nat
    BY <1>5 DEF DispatchConnect
  <2>2. shared' \in BankMgrData
    <3>1. drawn' \in Int
      BY <2>1
    <3>2. shared' = [shared EXCEPT !.secret = drawn', !.outcome = TRUE]
      BY <1>5 DEF DispatchConnect
    <3>3. QED
      BY <3>1, <3>2, ShmType, Zenon
  <2>3. list' \in [Known -> Records]
    BY <1>5, <2>1 DEF DispatchConnect
  <2>4. QED
    BY <1>5, <2>1, <2>2, <2>3 DEF DispatchConnect, sems
<1>6. CASE DispatchDisconnect
  <2>1. shared' \in BankMgrData
    BY <1>6, ShmType DEF DispatchDisconnect, Done
  <2>2. list' \in [Known -> Records]
    BY <1>6 DEF DispatchDisconnect, LoggedOut
  <2>3. QED
    BY <1>6, <2>1, <2>2 DEF DispatchDisconnect, Handle, sems
<1>7. CASE DispatchGetBalance
  <2>1. shared' \in BankMgrData
    BY <1>7, ShmType DEF DispatchGetBalance
  <2>2. QED
    BY <1>7, <2>1 DEF DispatchGetBalance, Handle, sems
<1>8. shared.data \in Int32 /\ shared.otherAcc \in Int32
  BY DEF BankMgrData
<1>9. /\ Debit(list, cur, shared.data) \in [Known -> Records]
      /\ Credit(list, cur, shared.data) \in [Known -> Records]
      /\ Credit(Debit(list, cur, shared.data), shared.otherAcc, shared.data)
           \in [Known -> Records]
  <2>1. ASSUME NEW l \in [Known -> Records], NEW a
        PROVE  /\ Credit(l, a, shared.data) \in [Known -> Records]
               /\ Debit(l, a, shared.data) \in [Known -> Records]
    BY <1>8, WrapInt DEF Credit, Debit
  <2>2. QED
    BY <2>1
<1>10. CASE DispatchWithdraw
  <2>1. shared' \in BankMgrData
    BY <1>10, ShmType DEF DispatchWithdraw, Done
  <2>2. QED
    BY <1>9, <1>10, <2>1 DEF DispatchWithdraw, Handle, sems
<1>11. CASE DispatchDeposit
  <2>1. shared' \in BankMgrData
    BY <1>11, ShmType DEF DispatchDeposit, Done
  <2>2. QED
    BY <1>9, <1>11, <2>1 DEF DispatchDeposit, Handle, sems
<1>12. CASE DispatchTransfer
  <2>1. shared' \in BankMgrData
    BY <1>12, ShmType DEF DispatchTransfer, Done
  <2>2. QED
    BY <1>9, <1>12, <2>1 DEF DispatchTransfer, Handle, sems
<1>13. CASE SrvPost
  BY <1>13 DEF SrvPost
<1>14. CASE SrvSave
  <2>1. outFile' \in [Accounts -> Int32]
    BY <1>14 DEF SrvSave, Known
  <2>2. QED
    BY <1>14, <2>1 DEF SrvSave, sems
<1>15. CASE SrvClose
  <2>1. shared' \in BankMgrData
    BY <1>15, ShmType DEF SrvClose
  <2>2. QED
    BY <1>15, <2>1 DEF SrvClose, sems
<1>16. QED
  BY ServerStep, <1>1, <1>2, <1>3, <1>4, <1>5, <1>6, <1>7, <1>10, <1>11,
     <1>12, <1>13, <1>14, <1>15 DEF ServerStep

(* The request that Begin puts into data, and the reply that ReadReply     *)
(* copies there, have the type of the shared memory.                       *)
LEMMA MessageType ==
    ASSUME NEW connection \in Connection, NEW q \in Call
    PROVE  Message(connection, q) \in BankMgrData
<1>1. 0 \in Int32
  BY SharedAssumption DEF Int32
<1>2. q.money \in Int32 /\ q.other \in Int32 /\ q.action \in Requests
  BY <1>1, SharedAssumption DEF Call
<1>3. connection.accountNR \in Int32 /\ connection.secret \in Int
  BY DEF Connection
<1>4. QED
  BY <1>2, <1>3 DEF Message, BankMgrData

LEMMA BeginType ==
    ASSUME TypeOK, NEW c \in Clients, NEW q \in Call, Begin(c, q)
    PROVE  /\ call' \in [Clients -> Call]
           /\ data' \in [Clients -> BankMgrData]
           /\ pc' \in [Clients -> ClientStates]
<1>1. Message(con[c], q) \in BankMgrData
  BY MessageType DEF TypeOK, ClientTypeOK
<1>2. QED
  BY <1>1 DEF Begin, Goto, TypeOK, ClientTypeOK, ClientStates

LEMMA CommandsAreCalls ==
    /\ Simple("DISCONNECT") \in Call
    /\ Commands \subseteq Call
  BY DEF Commands, Simple, Call, Requests

LEMMA ClientStepType ==
    ASSUME TypeOK, NEW c \in Clients,
           ClientStep(c) \/ UserStep(c) \/ ClientSignal(c) \/ ClientInterrupted(c)
    PROVE  SharedTypeOK' /\ ClientTypeOK'
<1> USE DEF TypeOK, SharedTypeOK, ClientTypeOK, Goto, sems
<1>1. CASE LockWait(c)
  BY <1>1 DEF LockWait, Step, ClientStates
<1>2. CASE LockWake(c)
  BY <1>2 DEF LockWake, Step, ClientStates
<1>3. CASE CheckClosed(c)
  <2>1. pc' \in [Clients -> ClientStates]
    BY <1>3 DEF CheckClosed, ClientStates
  <2>2. [data EXCEPT ![c].outcome = FALSE] \in [Clients -> BankMgrData]
    <3>1. [data[c] EXCEPT !.outcome = FALSE] \in BankMgrData
      BY ShmType
    <3>2. QED
      BY <3>1
  <2>3. [con EXCEPT ![c].bankClosed = TRUE] \in [Clients -> Connection]
    BY DEF Connection
  <2>4. QED
    BY <1>3, <2>1, <2>2, <2>3 DEF CheckClosed
<1>4. CASE WriteRequest(c)
  BY <1>4 DEF WriteRequest, Step, ClientStates
<1>5. CASE PostRequest(c)
  BY <1>5 DEF PostRequest, Step, ClientStates
<1>6. CASE ReplyWait(c)
  BY <1>6 DEF ReplyWait, Step, ClientStates
<1>7. CASE ReplyWake(c)
  BY <1>7 DEF ReplyWake, Step, ClientStates
<1>8. CASE ReadReply(c)
  BY <1>8 DEF ReadReply, Step, ClientStates
<1>9. CASE Unlock(c)
  <2>1. pc' \in [Clients -> ClientStates]
    BY <1>9 DEF Unlock, ClientStates
  <2>2. [con EXCEPT ![c].secret = data[c].secret] \in [Clients -> Connection]
    BY DEF Connection, BankMgrData
  <2>3. ZeroedShm \in BankMgrData
    BY SharedAssumption DEF ZeroedShm, BankMgrData, Int32
  <2>4. QED
    BY <1>9, <2>1, <2>2, <2>3 DEF Unlock
<1>10. CASE Loop(c)
  <2>1. stop' \in [Clients -> BOOLEAN]
    BY <1>10 DEF Loop, Connection
  <2>2. /\ call' \in [Clients -> Call]
        /\ data' \in [Clients -> BankMgrData]
        /\ pc' \in [Clients -> ClientStates]
    <3>1. CASE Begin(c, Simple("DISCONNECT"))
      BY <3>1, BeginType, CommandsAreCalls
    <3>2. CASE Goto(c, "menu") /\ UNCHANGED <<call, data>>
      BY <3>2 DEF ClientStates
    <3>3. QED
      BY <1>10, <3>1, <3>2 DEF Loop
  <2>3. QED
    BY <1>10, <2>1, <2>2 DEF Loop
<1>11. CASE Command(c)
  <2>1. PICK q \in Commands : Begin(c, q)
    BY <1>11 DEF Command
  <2>2. /\ call' \in [Clients -> Call]
        /\ data' \in [Clients -> BankMgrData]
        /\ pc' \in [Clients -> ClientStates]
    BY <2>1, BeginType, CommandsAreCalls
  <2>3. opsLeft' \in [Clients -> Nat]
    BY <1>11 DEF Command
  <2>4. QED
    BY <1>11, <2>2, <2>3 DEF Command
<1>12. CASE Quit(c)
  BY <1>12 DEF Quit, ClientStates
<1>13. CASE OtherKey(c)
  BY <1>13 DEF OtherKey, Step, ClientStates
<1>14. CASE Newline(c)
  BY <1>14 DEF Newline, Step, ClientStates
<1>15. CASE ClientSignal(c)
  BY <1>15 DEF ClientSignal, ClientStates
<1>16. CASE ClientInterrupted(c)
  BY <1>16 DEF ClientInterrupted, ClientStates
<1>17. QED
  BY <1>1, <1>2, <1>3, <1>4, <1>5, <1>6, <1>7, <1>8, <1>9, <1>10, <1>11,
     <1>12, <1>13, <1>14, <1>15, <1>16 DEF ClientStep, UserStep

LEMMA TypeStep == TypeOK /\ [Next \/ Finished]_vars => TypeOK'
<1>1. ASSUME TypeOK, [Next \/ Finished]_vars PROVE TypeOK'
  <2>1. CASE (ServerStep \/ SrvSignal \/ SrvInterrupted)
             /\ UNCHANGED <<clientVars, books>>
    <3>1. SharedTypeOK' /\ ServerTypeOK'
      <4>1. CASE ServerStep
        BY <1>1, <4>1, ServerStepType
      <4>2. CASE SrvSignal
        BY <1>1, <4>2
        DEF SrvSignal, TypeOK, SharedTypeOK, ServerTypeOK, sems
      <4>3. CASE SrvInterrupted
        BY <1>1, <4>3
        DEF SrvInterrupted, TypeOK, SharedTypeOK, ServerTypeOK, SrvStates, sems
      <4>4. QED
        BY <2>1, <4>1, <4>2, <4>3
    <3>2. ClientTypeOK' /\ (books \in [Known -> Int32])'
      BY <1>1, <2>1 DEF TypeOK, ClientTypeOK, clientVars
    <3>3. QED
      BY <3>1, <3>2 DEF TypeOK
  <2>2. ASSUME NEW c \in Clients, UNCHANGED srvVars,
               ClientStep(c) \/ UserStep(c) \/ ClientSignal(c)
                 \/ ClientInterrupted(c),
               Receipt(c) \/ UNCHANGED books
        PROVE  TypeOK'
    <3>1. SharedTypeOK' /\ ClientTypeOK'
      BY <1>1, <2>2, ClientStepType
    <3>2. ServerTypeOK'
      BY <1>1, <2>2 DEF TypeOK, ServerTypeOK, srvVars
    <3>3. (books \in [Known -> Int32])'
      BY <1>1, <2>2, EffectType DEF Receipt, TypeOK, ClientTypeOK
    <3>4. QED
      BY <3>1, <3>2, <3>3 DEF TypeOK
  <2>3. CASE UNCHANGED vars
    BY <1>1, <2>3
    DEF TypeOK, SharedTypeOK, ServerTypeOK, ClientTypeOK, vars, sems, srvVars,
        clientVars
  <2>4. QED
    BY <1>1, <2>1, <2>2, <2>3 DEF Next, CalmNext, Finished
<1>2. QED
  BY <1>1

(* Every variable keeps its type, whatever signals arrive: balances stay   *)
(* ints although sums overflow, and no semaphore is ever negative.         *)
THEOREM TypeCorrect == Spec => []TypeOK
  BY InitType, TypeStep, PTL DEF Spec

-----------------------------------------------------------------------------
(* Mutual exclusion                                                        *)

(* How a step of client c can move it, and what it does to client_lock.    *)
LEMMA ClientMoves ==
    ASSUME TypeOK, NEW c \in Clients,
           ClientStep(c) \/ UserStep(c) \/ ClientSignal(c)
    PROVE  /\ \E there \in ClientStates : pc' = [pc EXCEPT ![c] = there]
           /\ interrupted' = interrupted
           /\ \/ /\ ~ InSection(c) /\ pc'[c] = "check"
                 /\ client_lock > 0 /\ client_lock' = client_lock - 1
              \/ /\ pc[c] = "unlock" /\ ~ InSection(c)'
                 /\ client_lock' = client_lock + 1
              \/ /\ InSection(c)' <=> InSection(c)
                 /\ client_lock' = client_lock
<1> USE DEF TypeOK, ClientTypeOK, ClientStates, Goto, InSection, sems
<1>1. CASE LockWait(c)
  BY <1>1 DEF LockWait, Step, SharedTypeOK
<1>2. CASE LockWake(c)
  BY <1>2 DEF LockWake, Step
<1>3. CASE CheckClosed(c)
  BY <1>3 DEF CheckClosed
<1>4. CASE WriteRequest(c)
  BY <1>4 DEF WriteRequest, Step
<1>5. CASE PostRequest(c)
  BY <1>5 DEF PostRequest, Step
<1>6. CASE ReplyWait(c)
  BY <1>6 DEF ReplyWait, Step
<1>7. CASE ReplyWake(c)
  BY <1>7 DEF ReplyWake, Step
<1>8. CASE ReadReply(c)
  BY <1>8 DEF ReadReply, Step
<1>9. CASE Unlock(c)
  BY <1>9 DEF Unlock
<1>10. CASE Loop(c)
  BY <1>10 DEF Loop, Begin
<1>11. CASE UserStep(c)
  BY <1>11 DEF UserStep, Command, Begin, Quit, OtherKey, Newline, Step
<1>12. CASE ClientSignal(c)
  BY <1>12 DEF ClientSignal
<1>13. QED
  BY <1>1, <1>2, <1>3, <1>4, <1>5, <1>6, <1>7, <1>8, <1>9, <1>10, <1>11,
     <1>12 DEF ClientStep

(* The server and its signals do not touch client_lock.                    *)
LEMMA ServerKeepsClientLock ==
    ASSUME ServerStep \/ SrvSignal \/ SrvInterrupted
    PROVE  client_lock' = client_lock
  BY DEF ServerStep, SrvLoop, SrvWait, SrvWake, SrvLookup, DispatchConnect,
         DispatchDisconnect, DispatchGetBalance, DispatchWithdraw,
         DispatchDeposit, DispatchTransfer, Handle, SrvPost, SrvSave, SrvClose,
         SrvSignal, SrvInterrupted, sems

LEMMA MutexClientStep ==
    ASSUME TypeOK, MutexInv, NEW c \in Clients,
           ClientStep(c) \/ UserStep(c) \/ ClientSignal(c)
    PROVE  MutexInv'
<1> SUFFICES ASSUME interrupted = {}
             PROVE  /\ client_lock' \in {0, 1}
                    /\ client_lock' = 1 => \A d \in Clients : ~ InSection(d)'
                    /\ \A d, e \in Clients :
                         InSection(d)' /\ InSection(e)' => d = e
  BY ClientMoves DEF MutexInv
<1>1. /\ client_lock \in {0, 1}
      /\ client_lock = 1 => \A d \in Clients : ~ InSection(d)
      /\ \A d, e \in Clients : InSection(d) /\ InSection(e) => d = e
  BY DEF MutexInv
<1>2. \A d \in Clients \ {c} : InSection(d)' <=> InSection(d)
  BY ClientMoves DEF InSection, TypeOK, ClientTypeOK
<1>3. CASE ~ InSection(c) /\ client_lock > 0 /\ client_lock' = client_lock - 1
  BY <1>1, <1>2, <1>3
<1>4. CASE pc[c] = "unlock" /\ ~ InSection(c)' /\ client_lock' = client_lock + 1
  <2>1. InSection(c)
    BY <1>4 DEF InSection
  <2>2. QED
    BY <1>1, <1>2, <1>4, <2>1
<1>5. CASE (InSection(c)' <=> InSection(c)) /\ client_lock' = client_lock
  BY <1>1, <1>2, <1>5
<1>6. QED
  BY <1>3, <1>4, <1>5, ClientMoves

LEMMA MutexInductive ==
    /\ Init => MutexInv
    /\ TypeOK /\ MutexInv /\ [Next \/ Finished]_vars => MutexInv'
<1>1. ASSUME Init PROVE MutexInv
  BY <1>1 DEF Init, SharedInit, ClientInit, MutexInv, InSection
<1>2. ASSUME TypeOK, MutexInv, [Next \/ Finished]_vars PROVE MutexInv'
  <2>1. CASE (ServerStep \/ SrvSignal \/ SrvInterrupted)
             /\ UNCHANGED <<clientVars, books>>
    BY <1>2, <2>1, ServerKeepsClientLock DEF MutexInv, InSection, clientVars
  <2>2. ASSUME NEW c \in Clients, ClientStep(c) \/ UserStep(c) \/ ClientSignal(c)
        PROVE  MutexInv'
    BY <1>2, <2>2, MutexClientStep
  <2>3. ASSUME NEW c \in Clients, ClientInterrupted(c)
        PROVE  MutexInv'
    BY <2>3 DEF ClientInterrupted, MutexInv
  <2>4. CASE UNCHANGED vars
    BY <1>2, <2>4 DEF MutexInv, InSection, vars, sems, clientVars
  <2>5. QED
    BY <1>2, <2>1, <2>2, <2>3, <2>4 DEF Next, CalmNext, Finished
<1>3. QED
  BY <1>1, <1>2

(* As long as no client was interrupted in sem_wait, at most one client is *)
(* in the critical section, whatever signals reach the server.             *)
THEOREM Exclusion == Spec => []MutualExclusion
<1>1. MutexInv => MutualExclusion
  BY DEF MutexInv, MutualExclusion
<1>2. QED
  BY TypeCorrect, MutexInductive, <1>1, PTL DEF Spec

-----------------------------------------------------------------------------
(* The handshake                                                           *)

(* The tokens of the round trip: a request, its service, or its reply.     *)
Tokens == server_lock + readBack_lock + (IF Serving THEN 1 ELSE 0)

(* The server passes a token on; it neither makes nor drops one.           *)
LEMMA ServerKeepsTokens ==
    ASSUME TypeOK, ServerStep \/ SrvSignal
    PROVE  Tokens' = Tokens
<1> USE DEF TypeOK, SharedTypeOK, Tokens, Serving, sems
<1>1. CASE SrvLoop \/ SrvWait \/ SrvWake \/ SrvPost
  BY <1>1 DEF SrvLoop, SrvWait, SrvWake, SrvPost
<1>2. CASE SrvLookup
  BY <1>2 DEF SrvLookup, Refused
<1>3. CASE DispatchConnect
  BY <1>3 DEF DispatchConnect
<1>4. CASE \E action \in Requests : Handle(action)
  BY <1>4 DEF Handle
<1>5. CASE SrvSave \/ SrvClose \/ SrvSignal
  BY <1>5 DEF SrvSave, SrvClose, SrvSignal
<1>6. DispatchDisconnect \/ DispatchGetBalance \/ DispatchWithdraw
        \/ DispatchDeposit \/ DispatchTransfer
        => \E action \in Requests : Handle(action)
  BY DEF DispatchDisconnect, DispatchGetBalance, DispatchWithdraw,
         DispatchDeposit, DispatchTransfer, Requests
<1>7. QED
  BY <1>1, <1>2, <1>3, <1>4, <1>5, <1>6 DEF ServerStep

(* A client makes a token when it begins to wait and takes it when it ends *)
(* to wait.                                                                *)
LEMMA ClientTokens ==
    ASSUME TypeOK, NEW c \in Clients,
           ClientStep(c) \/ UserStep(c) \/ ClientSignal(c)
    PROVE  \/ /\ pc[c] = "post" /\ Awaiting(c)'
              /\ server_lock' = server_lock + 1
              /\ readBack_lock' = readBack_lock
           \/ /\ Awaiting(c) /\ ~ Awaiting(c)'
              /\ server_lock' = server_lock
              /\ readBack_lock > 0 /\ readBack_lock' = readBack_lock - 1
           \/ /\ Awaiting(c)' <=> Awaiting(c)
              /\ server_lock' = server_lock
              /\ readBack_lock' = readBack_lock
<1> USE DEF TypeOK, ClientTypeOK, ClientStates, Goto, Awaiting, sems
<1>1. CASE LockWait(c) \/ LockWake(c) \/ WriteRequest(c) \/ ReadReply(c)
  BY <1>1 DEF LockWait, LockWake, WriteRequest, ReadReply, Step
<1>2. CASE CheckClosed(c)
  BY <1>2 DEF CheckClosed
<1>3. CASE PostRequest(c)
  BY <1>3 DEF PostRequest, Step
<1>4. CASE ReplyWait(c)
  BY <1>4 DEF ReplyWait, Step, SharedTypeOK
<1>5. CASE ReplyWake(c)
  BY <1>5 DEF ReplyWake, Step
<1>6. CASE Unlock(c) \/ Loop(c)
  BY <1>6 DEF Unlock, Loop, Begin
<1>7. CASE UserStep(c)
  BY <1>7 DEF UserStep, Command, Begin, Quit, OtherKey, Newline, Step
<1>8. CASE ClientSignal(c)
  BY <1>8 DEF ClientSignal
<1>9. QED
  BY <1>1, <1>2, <1>3, <1>4, <1>5, <1>6, <1>7, <1>8 DEF ClientStep

LEMMA HandshakeClientStep ==
    ASSUME TypeOK, CalmInv, NEW c \in Clients, UNCHANGED srvVars,
           ClientStep(c) \/ UserStep(c) \/ ClientSignal(c)
    PROVE  Handshake'
<1>1. Awaiting(c) \/ pc[c] = "post" => \A d \in Clients \ {c} : ~ Awaiting(d)
  BY DEF CalmInv, MutexInv, InSection, Awaiting
<1>2. \A d \in Clients \ {c} : Awaiting(d)' <=> Awaiting(d)
  BY ClientMoves DEF Awaiting, TypeOK, ClientTypeOK
<1>3. Serving' <=> Serving
  BY DEF Serving, srvVars
<1>4. Tokens = IF \E d \in Clients : Awaiting(d) THEN 1 ELSE 0
  BY DEF CalmInv, Handshake, Tokens
<1>5. server_lock \in Nat /\ readBack_lock \in Nat
  BY DEF TypeOK, SharedTypeOK
<1>6. Tokens' = IF \E d \in Clients : Awaiting(d)' THEN 1 ELSE 0
  <2>1. CASE /\ pc[c] = "post" /\ Awaiting(c)'
             /\ server_lock' = server_lock + 1
             /\ readBack_lock' = readBack_lock
    <3>1. ~ Awaiting(c)
      BY <2>1 DEF Awaiting
    <3>2. Tokens = 0
      BY <1>1, <1>4, <2>1, <3>1
    <3>3. Tokens' = 1
      BY <1>3, <1>5, <2>1, <3>2 DEF Tokens
    <3>4. QED
      BY <2>1, <3>3
  <2>2. CASE /\ Awaiting(c) /\ ~ Awaiting(c)'
             /\ server_lock' = server_lock
             /\ readBack_lock > 0 /\ readBack_lock' = readBack_lock - 1
    <3>1. Tokens = 1
      BY <1>4, <2>2
    <3>2. Tokens' = 0
      BY <1>3, <1>5, <2>2, <3>1 DEF Tokens
    <3>3. \A d \in Clients : ~ Awaiting(d)'
      BY <1>1, <1>2, <2>2
    <3>4. QED
      BY <3>2, <3>3
  <2>3. CASE /\ Awaiting(c)' <=> Awaiting(c)
             /\ server_lock' = server_lock
             /\ readBack_lock' = readBack_lock
    <3>1. Tokens' = Tokens
      BY <1>3, <2>3 DEF Tokens
    <3>2. \A d \in Clients : Awaiting(d)' <=> Awaiting(d)
      BY <1>2, <2>3
    <3>3. QED
      BY <1>4, <3>1, <3>2
  <2>4. QED
    BY <2>1, <2>2, <2>3, ClientTokens
<1>7. QED
  BY <1>6 DEF Handshake, Tokens

LEMMA CalmInductive ==
    /\ Init => CalmInv
    /\ TypeOK /\ CalmInv /\ [CalmNext \/ Finished]_vars => CalmInv'
<1>1. ASSUME Init PROVE CalmInv
  <2>1. \A c \in Clients : ~ Awaiting(c)
    BY <1>1 DEF Init, ClientInit, Awaiting
  <2>2. Handshake
    BY <1>1, <2>1 DEF Init, SharedInit, ServerInit, Handshake, Serving
  <2>3. QED
    BY <1>1, <2>2, MutexInductive DEF CalmInv, Init, ClientInit
<1>2. ASSUME TypeOK, CalmInv, [CalmNext \/ Finished]_vars PROVE CalmInv'
  <2>1. MutexInv'
    BY <1>2, MutexInductive DEF CalmInv, Next
  <2>2. CASE (ServerStep \/ SrvSignal) /\ UNCHANGED <<clientVars, books>>
    <3>1. Handshake'
      BY <1>2, <2>2, ServerKeepsTokens
      DEF CalmInv, Handshake, Tokens, Awaiting, clientVars
    <3>2. QED
      BY <1>2, <2>1, <2>2, <3>1 DEF CalmInv, clientVars
  <2>3. ASSUME NEW c \in Clients, UNCHANGED srvVars,
               ClientStep(c) \/ UserStep(c) \/ ClientSignal(c)
        PROVE  CalmInv'
    BY <1>2, <2>1, <2>3, HandshakeClientStep, ClientMoves DEF CalmInv
  <2>4. CASE UNCHANGED vars
    BY <1>2, <2>1, <2>4
    DEF CalmInv, Handshake, Awaiting, Serving, vars, sems, srvVars, clientVars
  <2>5. QED
    BY <1>2, <2>2, <2>3, <2>4 DEF CalmNext, Finished
<1>3. QED
  BY <1>1, <1>2

LEMMA CalmTypeCorrect == CalmSpec => []TypeOK
<1>1. [CalmNext \/ Finished]_vars => [Next \/ Finished]_vars
  BY DEF Next
<1>2. CalmSpec => Init /\ [][Next \/ Finished]_vars
  BY <1>1, PTL DEF CalmSpec
<1>3. QED
  BY <1>2, TypeStep, InitType, PTL

(* If no sem_wait is interrupted, the two semaphores carry exactly one     *)
(* token during a round trip and none between two of them.                 *)
THEOREM CalmHandshake == CalmSpec => []Handshake
<1>1. CalmInv => Handshake
  BY DEF CalmInv
<1>2. QED
  BY CalmTypeCorrect, CalmInductive, <1>1, PTL DEF CalmSpec

(* If no sem_wait is interrupted, the server and a client never work on    *)
(* the shared memory at the same time, nor do two clients.                 *)
THEOREM CalmNoDataRace == CalmSpec => []NoDataRace
<1>1. ASSUME TypeOK, CalmInv PROVE NoDataRace
  <2>1. \A c, d \in Clients : InSection(c) /\ InSection(d) => c = d
    BY <1>1 DEF CalmInv, MutexInv
  <2>2. ASSUME Serving PROVE \E c \in Clients : Awaiting(c)
    BY <1>1, <2>2 DEF CalmInv, Handshake, TypeOK, SharedTypeOK
  <2>3. QED
    BY <2>1, <2>2 DEF NoDataRace, Serving, InSection, Awaiting
<1>2. QED
  BY CalmTypeCorrect, CalmInductive, <1>1, PTL DEF CalmSpec

-----------------------------------------------------------------------------
(* Actions                                                                 *)

LEMMA ActionServerStep ==
    ASSUME TypeOK, ActionInv, ServerStep \/ SrvSignal \/ SrvInterrupted,
           UNCHANGED clientVars
    PROVE  ActionInv'
<1> USE DEF ActionInv, clientVars
<1>1. CASE SrvLoop \/ SrvWait \/ SrvWake \/ SrvPost \/ SrvSave
  BY <1>1 DEF SrvLoop, SrvWait, SrvWake, SrvPost, SrvSave
<1>2. CASE SrvSignal \/ SrvInterrupted
  BY <1>2 DEF SrvSignal, SrvInterrupted
<1>3. CASE SrvClose
  BY <1>3 DEF SrvClose, TypeOK, SharedTypeOK, BankMgrData
<1>4. CASE SrvLookup
  <2>1. shared' = shared \/ shared' = [shared EXCEPT !.outcome = FALSE]
    BY <1>4 DEF SrvLookup, Refused
  <2>2. /\ shared'.action = shared.action
        /\ shared'.accountNr = shared.accountNr
        /\ shared'.secret = shared.secret
    BY <2>1 DEF TypeOK, SharedTypeOK, BankMgrData
  <2>3. list' = list /\ srv # "done"
    BY <1>4 DEF SrvLookup
  <2>4. shared.action = "NONE" => srv' \notin {"connect", "execute"}
    BY <1>4 DEF SrvLookup, Refused, Authorised, DummySecret
  <2>5. QED
    BY <2>2, <2>3, <2>4
<1>5. CASE DispatchConnect
  <2>1. shared.action \notin {"NONE", "CLOSED"}
    BY <1>5 DEF DispatchConnect
  <2>2. shared'.action = shared.action
    BY <1>5 DEF DispatchConnect, TypeOK, SharedTypeOK, BankMgrData
  <2>3. QED
    BY <2>1, <2>2
<1>6. ASSUME NEW action \in Requests, Handle(action),
             shared'.action = shared.action
      PROVE  ActionInv'
  BY <1>6 DEF Handle, Requests
<1>7. CASE DispatchDisconnect \/ DispatchGetBalance \/ DispatchWithdraw
             \/ DispatchDeposit \/ DispatchTransfer
  <2>1. shared'.action = shared.action
    BY <1>7 DEF DispatchDisconnect, DispatchGetBalance, DispatchWithdraw,
         DispatchDeposit, DispatchTransfer, Done, TypeOK, SharedTypeOK,
         BankMgrData
  <2>2. \E action \in Requests : Handle(action)
    BY <1>7 DEF DispatchDisconnect, DispatchGetBalance, DispatchWithdraw,
         DispatchDeposit, DispatchTransfer, Requests
  <2>3. QED
    BY <1>6, <2>1, <2>2
<1>8. QED
  BY <1>1, <1>2, <1>3, <1>4, <1>5, <1>7 DEF ServerStep

LEMMA ActionClientStep ==
    ASSUME TypeOK, ActionInv, NEW c \in Clients, UNCHANGED srvVars,
           ClientStep(c) \/ UserStep(c) \/ ClientSignal(c) \/ ClientInterrupted(c)
    PROVE  ActionInv'
<1> DEFINE Ready(d) == pc[d] \in {"lock", "lockBlocked", "check", "write"}
<1> USE DEF TypeOK, ClientTypeOK, Goto
<1>1. ASSUME NEW q \in Call, Begin(c, q), UNCHANGED shared
      PROVE  ActionInv'
  BY <1>1 DEF Begin, Message, Call, ActionInv, srvVars
<1>2. CASE WriteRequest(c)
  <2>1. shared' = data[c] /\ data' = data /\ pc' = [pc EXCEPT ![c] = "post"]
    BY <1>2 DEF WriteRequest, Step
  <2>2. data[c].action \in Requests
    BY <1>2 DEF WriteRequest, Step, ActionInv
  <2>3. QED
    BY <2>1, <2>2 DEF ActionInv, Requests
<1>3. ASSUME UNCHANGED shared,
             \A d \in Clients : Ready(d)' => Ready(d) /\ data'[d] = data[d]
      PROVE  ActionInv'
  BY <1>3 DEF ActionInv, srvVars
<1>4. CASE LockWait(c) \/ LockWake(c) \/ PostRequest(c) \/ ReplyWait(c)
             \/ ReplyWake(c) \/ ReadReply(c)
  BY <1>3, <1>4
  DEF LockWait, LockWake, PostRequest, ReplyWait, ReplyWake, ReadReply, Step
<1>5. CASE CheckClosed(c)
  BY <1>3, <1>5 DEF CheckClosed
<1>6. CASE Unlock(c)
  BY <1>3, <1>6 DEF Unlock
<1>7. CASE Loop(c)
  <2>1. CASE Begin(c, Simple("DISCONNECT"))
    BY <1>1, <1>7, <2>1, CommandsAreCalls DEF Loop
  <2>2. CASE Goto(c, "menu") /\ UNCHANGED <<call, data>>
    BY <1>3, <1>7, <2>2 DEF Loop
  <2>3. QED
    BY <1>7, <2>1, <2>2 DEF Loop
<1>8. CASE Command(c)
  BY <1>1, <1>8, CommandsAreCalls DEF Command
<1>9. CASE Quit(c) \/ OtherKey(c) \/ Newline(c)
  BY <1>3, <1>9 DEF Quit, OtherKey, Newline, Step
<1>10. CASE ClientSignal(c) \/ ClientInterrupted(c)
  BY <1>3, <1>10 DEF ClientSignal, ClientInterrupted
<1>11. QED
  BY <1>2, <1>4, <1>5, <1>6, <1>7, <1>8, <1>9, <1>10 DEF ClientStep, UserStep

LEMMA ActionInductive ==
    /\ Init => ActionInv
    /\ TypeOK /\ ActionInv /\ [Next \/ Finished]_vars => ActionInv'
<1>1. ASSUME Init PROVE ActionInv
  <2>1. list[0].secret = DummySecret /\ srv = "loop"
    <3>1. PICK g \in Garbage : list = OpeningList(g)
      BY <1>1 DEF Init, ServerInit
    <3>2. OpeningList(g)[0] = [balance |-> g, secret |-> DummySecret]
      BY DEF OpeningList, Known
    <3>3. QED
      BY <1>1, <3>1, <3>2 DEF Init, ServerInit
  <2>2. \A c \in Clients : data[c].action = "CONNECT"
    BY <1>1 DEF Init, ClientInit, Message, Simple
  <2>3. shared = ZeroedShm
    BY <1>1 DEF Init, SharedInit
  <2>4. QED
    BY <2>1, <2>2, <2>3 DEF ActionInv, ZeroedShm, Requests
<1>2. TypeOK /\ ActionInv /\ [Next \/ Finished]_vars => ActionInv'
  BY ActionServerStep, ActionClientStep
  DEF Next, CalmNext, Finished, ActionInv, vars, srvVars, clientVars
<1>3. QED
  BY <1>1, <1>2

(* Whatever signals arrive, the server never panics over an action that it *)
(* does not know.                                                          *)
THEOREM NoPanic == Spec => []ActionUnderstood
<1>1. TypeOK /\ ActionInv => ActionUnderstood
  BY DEF ActionInv, ActionUnderstood, TypeOK, SharedTypeOK, BankMgrData
<1>2. QED
  BY TypeCorrect, ActionInductive, <1>1, PTL DEF Spec

-----------------------------------------------------------------------------
(* Steps of clients                                                        *)

(* A step of c leaves the other clients' variables alone, and outside its  *)
(* critical section it leaves the shared memory and the replies alone.     *)
LEMMA ClientFrame ==
    ASSUME TypeOK, NEW c \in Clients,
           ClientStep(c) \/ UserStep(c) \/ ClientSignal(c)
    PROVE  /\ \A d \in Clients \ {c} :
                /\ pc'[d] = pc[d]
                /\ data'[d] = data[d]
                /\ con'[d] = con[d]
                /\ call'[d] = call[d]
           /\ ~ InSection(c) => UNCHANGED <<shared, readBack_lock>>
<1> USE DEF TypeOK, ClientTypeOK, Goto, InSection, sems
<1>1. CASE LockWait(c) \/ LockWake(c)
  BY <1>1 DEF LockWait, LockWake, Step
<1>2. CASE CheckClosed(c)
  BY <1>2 DEF CheckClosed
<1>3. CASE WriteRequest(c) \/ PostRequest(c)
  BY <1>3 DEF WriteRequest, PostRequest, Step
<1>4. CASE ReplyWait(c) \/ ReplyWake(c) \/ ReadReply(c)
  BY <1>4 DEF ReplyWait, ReplyWake, ReadReply, Step
<1>5. CASE Unlock(c)
  BY <1>5 DEF Unlock
<1>6. CASE Loop(c)
  BY <1>6 DEF Loop, Begin
<1>7. CASE Command(c)
  BY <1>7 DEF Command, Begin
<1>8. CASE Quit(c) \/ OtherKey(c) \/ Newline(c)
  BY <1>8 DEF Quit, OtherKey, Newline, Step
<1>9. CASE ClientSignal(c)
  BY <1>9 DEF ClientSignal
<1>10. QED
  BY <1>1, <1>2, <1>3, <1>4, <1>5, <1>6, <1>7, <1>8, <1>9
  DEF ClientStep, UserStep

(* What RoundOf says of a client outside its critical section.             *)
LEMMA RoundOutside ==
    ASSUME NEW d \in Clients, ~ InSection(d)
    PROVE  /\ ~ Owed(d)
           /\ RoundOf(d) <=> (pc[d] \in {"lock", "lockBlocked"} =>
                                data[d] = Message(con[d], call[d]))
  BY DEF RoundOf, Owed, Status, Awaiting, InSection

LEMMA RoundOutsidePrime ==
    ASSUME NEW d \in Clients, ~ InSection(d)'
    PROVE  /\ ~ Owed(d)'
           /\ RoundOf(d)' <=> (pc'[d] \in {"lock", "lockBlocked"} =>
                                data'[d] = Message(con'[d], call'[d]))
  BY DEF RoundOf, Owed, Status, Awaiting, InSection, Message

(* A step of c does not touch another client's round.                      *)
LEMMA OthersKeepRound ==
    ASSUME TypeOK, CalmInv, NEW c \in Clients, NEW d \in Clients \ {c},
           UNCHANGED srvVars, ClientStep(c) \/ UserStep(c) \/ ClientSignal(c),
           RoundOf(d)
    PROVE  RoundOf(d)' /\ (Owed(d)' <=> Owed(d))
<1>1. /\ pc'[d] = pc[d]
      /\ data'[d] = data[d]
      /\ con'[d] = con[d]
      /\ call'[d] = call[d]
  BY ClientFrame
<1>2. CASE InSection(c)
  <2>1. ~ InSection(d) /\ ~ InSection(d)'
    BY <1>1, <1>2 DEF CalmInv, MutexInv, InSection
  <2>2. QED
    BY <1>1, <2>1, RoundOutside, RoundOutsidePrime
<1>3. CASE ~ InSection(c)
  <2>1. UNCHANGED <<shared, readBack_lock>>
    BY <1>3, ClientFrame
  <2>2. QED
    BY <1>1, <2>1
    DEF RoundOf, Owed, Status, Answer, Awaiting, Executed, Message, srvVars
<1>4. QED
  BY <1>2, <1>3

(* Before a request is posted, no request or reply is under way.           *)
LEMMA QuietBeforePost ==
    ASSUME TypeOK, CalmInv, NEW c \in Clients, InSection(c), ~ Awaiting(c)
    PROVE  server_lock = 0 /\ readBack_lock = 0 /\ ~ Serving
<1>1. \A d \in Clients : ~ Awaiting(d)
  BY DEF CalmInv, MutexInv, InSection, Awaiting
<1>2. QED
  BY <1>1 DEF CalmInv, Handshake, TypeOK, SharedTypeOK

(* Up to Unlock, a client's own steps keep what its place in the round     *)
(* trip says; a reply that is owed to it stays owed.                       *)
LEMMA OwnRound ==
    ASSUME TypeOK, CalmInv, NEW c \in Clients, UNCHANGED srvVars,
           ClientStep(c) \/ UserStep(c) \/ ClientSignal(c),
           RoundOf(c), pc[c] # "unlock"
    PROVE  /\ RoundOf(c)'
           /\ Owed(c)' <=> Owed(c)
           /\ Owed(c) => con'[c] = con[c] /\ call'[c] = call[c]
<1> USE DEF TypeOK, ClientTypeOK, Goto, InSection
<1>1. ASSUME ~ InSection(c)', ~ InSection(c),
             pc'[c] \in {"lock", "lockBlocked"} =>
                data'[c] = Message(con'[c], call'[c])
      PROVE  /\ RoundOf(c)'
             /\ Owed(c)' <=> Owed(c)
             /\ Owed(c) => con'[c] = con[c] /\ call'[c] = call[c]
  BY <1>1, RoundOutside, RoundOutsidePrime
<1>2. ASSUME pc'[c] = pc[c]
                \/ (pc[c] \in {"lock", "lockBlocked"} /\ pc'[c] = "check")
                \/ (pc[c] = "lock" /\ pc'[c] = "lockBlocked")
                \/ (pc[c] = "check" /\ pc'[c] = "write"),
             UNCHANGED <<shared, readBack_lock, data, con, call>>
      PROVE  /\ RoundOf(c)'
             /\ Owed(c)' <=> Owed(c)
             /\ Owed(c) => con'[c] = con[c] /\ call'[c] = call[c]
  BY <1>2 DEF RoundOf, Owed, Status, Answer, Awaiting, Executed, Message, srvVars
<1>3. CASE LockWait(c) \/ LockWake(c)
  BY <1>2, <1>3 DEF LockWait, LockWake, Step
<1>4. CASE CheckClosed(c)
  <2>1. CASE shared.action = "CLOSED"
    <3>1. /\ pc[c] = "check" /\ pc'[c] = "unlock"
          /\ data'[c].outcome = FALSE
      BY <1>4, <2>1 DEF CheckClosed, BankMgrData
    <3>2. QED
      BY <3>1 DEF RoundOf, Owed, Status, Answer, Awaiting
  <2>2. CASE shared.action # "CLOSED"
    BY <1>2, <1>4, <2>2 DEF CheckClosed, sems
  <2>3. QED
    BY <2>1, <2>2
<1>5. CASE WriteRequest(c)
  <2>1. /\ pc[c] = "write" /\ pc'[c] = "post"
        /\ shared' = Message(con[c], call[c])
        /\ UNCHANGED <<con, call>>
    BY <1>5 DEF WriteRequest, Step, RoundOf
  <2>2. QED
    BY <2>1 DEF RoundOf, Owed, Status, Awaiting, Message
<1>6. CASE PostRequest(c)
  <2>1. /\ pc[c] = "post" /\ pc'[c] = "reply"
        /\ UNCHANGED <<shared, readBack_lock, con, call>>
    BY <1>6 DEF PostRequest, Step
  <2>2. readBack_lock = 0 /\ ~ Serving
    BY <2>1, QuietBeforePost DEF Awaiting
  <2>3. ~ Executed /\ ~ Executed' /\ srv' = srv
    BY <2>1, <2>2 DEF Executed, Serving, srvVars
  <2>4. Status(c) = "asked" /\ Status(c)' = "asked"
    BY <2>1, <2>3 DEF Status, Awaiting
  <2>5. srv # "done" => shared = Message(con[c], call[c])
    BY <2>1, <2>4 DEF RoundOf
  <2>6. QED
    BY <2>1, <2>2, <2>3, <2>4, <2>5
    DEF RoundOf, Owed, Awaiting, Message, Serving
<1>7. CASE ReplyWait(c) \/ ReplyWake(c)
  <2>1. /\ Awaiting(c)
        /\ UNCHANGED <<shared, data, con, call>>
        /\ \/ pc'[c] = "read" /\ readBack_lock > 0
           \/ pc'[c] = "replyBlocked" /\ readBack_lock' = readBack_lock
    BY <1>7 DEF ReplyWait, ReplyWake, Step, Awaiting, SharedTypeOK
  <2>2. CASE pc'[c] = "read" /\ readBack_lock > 0
    <3>1. Status(c) = "answered" /\ Status(c)' = "answered"
      BY <2>1, <2>2 DEF Status, Awaiting, Executed
    <3>2. Answer(c) = shared /\ Answer(c)' = shared
      BY <2>1, <2>2 DEF Answer, Awaiting
    <3>3. QED
      BY <2>1, <2>2, <3>1, <3>2 DEF RoundOf, Owed, Awaiting, srvVars
  <2>3. CASE pc'[c] = "replyBlocked" /\ readBack_lock' = readBack_lock
    BY <2>1, <2>3
    DEF RoundOf, Owed, Status, Answer, Awaiting, Executed, Message, srvVars
  <2>4. QED
    BY <2>1, <2>2, <2>3
<1>8. CASE ReadReply(c)
  <2>1. /\ pc[c] = "read" /\ pc'[c] = "unlock"
        /\ data'[c] = shared
        /\ UNCHANGED <<con, call>>
    BY <1>8 DEF ReadReply, Step
  <2>2. QED
    BY <2>1 DEF RoundOf, Owed, Status, Answer, Awaiting, srvVars
<1>9. ASSUME NEW q, Begin(c, q), ~ InSection(c), con' = con
      PROVE  /\ RoundOf(c)'
             /\ Owed(c)' <=> Owed(c)
             /\ Owed(c) => con'[c] = con[c] /\ call'[c] = call[c]
  BY <1>1, <1>9 DEF Begin
<1>10. CASE Loop(c)
  <2>1. CASE Begin(c, Simple("DISCONNECT"))
    BY <1>9, <1>10, <2>1 DEF Loop
  <2>2. CASE Goto(c, "menu")
    BY <1>1, <1>10, <2>2 DEF Loop
  <2>3. QED
    BY <1>10, <2>1, <2>2 DEF Loop
<1>11. CASE Command(c)
  BY <1>9, <1>11 DEF Command
<1>12. CASE Quit(c) \/ OtherKey(c) \/ Newline(c)
  BY <1>1, <1>12 DEF Quit, OtherKey, Newline, Step
<1>13. CASE ClientSignal(c)
  <2>1. CASE UNCHANGED pc
    BY <1>2, <1>13, <2>1 DEF ClientSignal, sems
  <2>2. CASE pc'[c] \in {"enter", "loop"} /\ pc[c] \in {"menu", "enter"}
    BY <1>1, <2>2
  <2>3. QED
    BY <1>13, <2>1, <2>2 DEF ClientSignal
<1>14. CASE Unlock(c)
  BY <1>14 DEF Unlock
<1>15. QED
  BY <1>3, <1>4, <1>5, <1>6, <1>7, <1>8, <1>10, <1>11, <1>12, <1>13, <1>14
  DEF ClientStep, UserStep

(* The books follow the list when Unlock hands the reply to the user.      *)
LEMMA RoundClientStep ==
    ASSUME TypeOK, CalmInv, RoundInv, NEW c \in Clients, UNCHANGED srvVars,
           \/ ClientStep(c) /\ Receipt(c)
           \/ (UserStep(c) \/ ClientSignal(c)) /\ UNCHANGED books
    PROVE  RoundInv'
<1>1. /\ \A d \in Clients : RoundOf(d)
      /\ (\A d \in Clients : ~ Owed(d)) => Balances = books
      /\ \A d \in Clients :
           Owed(d) => Balances = Effect(books, con[d].accountNR, call[d])
      /\ FileInv
  BY DEF RoundInv, BooksInv
<1>2. \A d \in Clients \ {c} : RoundOf(d)' /\ (Owed(d)' <=> Owed(d))
  BY <1>1, OthersKeepRound
<1>3. Balances' = Balances
  BY DEF Balances, srvVars
<1>4. FileInv'
  BY <1>1 DEF FileInv, srvVars
<1>5. CASE pc[c] # "unlock"
  <2>1. /\ RoundOf(c)'
        /\ Owed(c)' <=> Owed(c)
        /\ Owed(c) => con'[c] = con[c] /\ call'[c] = call[c]
    BY <1>1, <1>5, OwnRound
  <2>2. books' = books
    BY <1>5 DEF Receipt
  <2>3. \A d \in Clients : Owed(d)' => con'[d] = con[d] /\ call'[d] = call[d]
    BY <2>1, ClientFrame
  <2>4. BooksInv'
    BY <1>1, <1>2, <1>3, <2>1, <2>2, <2>3 DEF BooksInv
  <2>5. QED
    BY <1>2, <1>4, <2>1, <2>4 DEF RoundInv
<1>6. CASE pc[c] = "unlock"
  <2>1. CASE ClientStep(c) /\ Receipt(c)
    <3>1. Unlock(c)
      BY <1>6, <2>1
      DEF ClientStep, LockWait, LockWake, CheckClosed, WriteRequest,
          PostRequest, ReplyWait, ReplyWake, ReadReply, Loop, Step
    <3>2. pc'[c] \in {"done", "loop"}
      BY <3>1 DEF Unlock, Goto, TypeOK, ClientTypeOK
    <3>3. RoundOf(c)' /\ ~ Owed(c)'
      BY <3>2, RoundOutsidePrime DEF InSection
    <3>4. \A d \in Clients \ {c} : ~ Owed(d)
      BY <1>6, RoundOutside DEF CalmInv, MutexInv, InSection
    <3>5. Owed(c) <=> data[c].outcome
      BY <1>6 DEF Owed, Status, Answer, Awaiting
    <3>6. Balances = books'
      BY <1>1, <1>6, <2>1, <3>4, <3>5 DEF Receipt
    <3>7. QED
      BY <1>2, <1>3, <1>4, <3>3, <3>4, <3>6 DEF RoundInv, BooksInv
  <2>2. CASE (UserStep(c) \/ ClientSignal(c)) /\ UNCHANGED books
    <3>1. ClientSignal(c)
      BY <1>6, <2>2
      DEF UserStep, Command, Quit, OtherKey, Newline, Step
    <3>2. UNCHANGED <<pc, shared, readBack_lock, data, con, call>>
      BY <1>6, <3>1 DEF ClientSignal, sems
    <3>3. \A d \in Clients : RoundOf(d)' /\ (Owed(d)' <=> Owed(d))
      BY <1>1, <3>2
      DEF RoundOf, Owed, Status, Answer, Awaiting, Executed, Message, srvVars
    <3>4. QED
      BY <1>1, <1>3, <1>4, <2>2, <3>2, <3>3 DEF RoundInv, BooksInv
  <2>3. QED
    BY <2>1, <2>2
<1>7. QED
  BY <1>5, <1>6

-----------------------------------------------------------------------------
(* Steps of the server                                                     *)

BalancesOf(l) == [a \in Known |-> l[a].balance]

(* Debit and Credit change the balances as Move does.                      *)
LEMMA DebitCredit ==
    ASSUME NEW l \in [Known -> [balance : Int32, secret : Int]],
           NEW a \in Known, NEW m \in Int32
    PROVE  /\ BalancesOf(Debit(l, a, m)) = Move(BalancesOf(l), a, -m)
           /\ BalancesOf(Credit(l, a, m)) = Move(BalancesOf(l), a, m)
           /\ Debit(l, a, m) \in [Known -> [balance : Int32, secret : Int]]
<1>1. \A x \in Known : l[x].balance - m = l[x].balance + -m
  BY DEF Int32
<1>2. QED
  BY <1>1, WrapInt DEF Debit, Credit, Move, BalancesOf

(* While the server serves, one client waits, with its request in shared;  *)
(* the others are outside their critical sections.                         *)
LEMMA Served ==
    ASSUME TypeOK, CalmInv, RoundInv, srv \in {"lookup", "connect", "execute"}
    PROVE  \E c \in Clients :
             /\ Awaiting(c)
             /\ Status(c) = "asked"
             /\ shared = Message(con[c], call[c])
             /\ RoundOf(c)
             /\ readBack_lock = 0
             /\ \A d \in Clients \ {c} : ~ InSection(d)
             /\ Balances = books
<1>1. Serving
  BY DEF Serving
<1>2. PICK c \in Clients : Awaiting(c)
  BY <1>1 DEF CalmInv, Handshake, TypeOK, SharedTypeOK
<1>3. readBack_lock = 0
  BY <1>1, <1>2 DEF CalmInv, Handshake, TypeOK, SharedTypeOK
<1>4. Status(c) = "asked"
  BY <1>2, <1>3 DEF Status, Awaiting, Executed
<1>5. RoundOf(c)
  BY DEF RoundInv
<1>6. shared = Message(con[c], call[c])
  BY <1>2, <1>4, <1>5 DEF RoundOf
<1>7. \A d \in Clients \ {c} : ~ InSection(d)
  BY <1>2 DEF CalmInv, MutexInv, InSection, Awaiting
<1>8. \A d \in Clients : ~ Owed(d)
  BY <1>4, <1>7, RoundOutside DEF Owed
<1>9. Balances = books
  BY <1>8 DEF RoundInv, BooksInv
<1>10. QED
  BY <1>2, <1>3, <1>4, <1>5, <1>6, <1>7, <1>9

(* The other clients are not concerned by what the server does meanwhile.  *)
LEMMA OthersUnserved ==
    ASSUME RoundInv, UNCHANGED clientVars, NEW d \in Clients, ~ InSection(d)
    PROVE  RoundOf(d)' /\ ~ Owed(d)'
<1>1. ~ InSection(d)' /\ pc'[d] = pc[d] /\ data'[d] = data[d]
        /\ con'[d] = con[d] /\ call'[d] = call[d]
  BY DEF InSection, clientVars
<1>2. QED
  BY <1>1, RoundOutside, RoundOutsidePrime DEF RoundInv

(* A handler leaves a refusal, or a reply that fits the request of the     *)
(* client that waits, and then the list has changed as the books will.     *)
LEMMA AnswerKeepsRound ==
    ASSUME TypeOK, CalmInv, RoundInv, UNCHANGED <<clientVars, books>>,
           srv \in {"lookup", "connect", "execute"},
           srv' = "post",
           NEW c \in Clients, Awaiting(c),
           \A d \in Clients \ {c} : ~ InSection(d),
           IF shared'.outcome
             THEN /\ shared'.accountNr = con[c].accountNR
                  /\ shared'.otherAcc = call[c].other
                  /\ call[c].action = "GET_BALANCE" =>
                       shared'.data = list'[con[c].accountNR].balance
                  /\ call[c].action = "CONNECT" =>
                       shared'.secret = list'[con[c].accountNR].secret
                  /\ Balances' = Effect(books, con[c].accountNR, call[c])
             ELSE Balances' = books
    PROVE  RoundInv'
<1>1. pc' = pc /\ data' = data /\ con' = con /\ call' = call
  BY DEF clientVars
<1>2. Awaiting(c)' /\ Status(c)' = "answered" /\ Answer(c)' = shared'
  BY <1>1 DEF Awaiting, Status, Executed, Answer
<1>3. Owed(c)' <=> shared'.outcome
  BY <1>2 DEF Owed
<1>4. RoundOf(c)'
  BY <1>1, <1>2, <1>3 DEF RoundOf, Awaiting
<1>5. \A d \in Clients \ {c} : RoundOf(d)' /\ ~ Owed(d)'
  BY OthersUnserved
<1>6. BooksInv'
  BY <1>1, <1>3, <1>5 DEF BooksInv
<1>7. FileInv'
  BY DEF FileInv
<1>8. QED
  BY <1>4, <1>5, <1>6, <1>7 DEF RoundInv

LEMMA RoundHandlerStep ==
    ASSUME TypeOK, CalmInv, RoundInv, UNCHANGED <<clientVars, books>>,
           \/ DispatchConnect \/ DispatchDisconnect \/ DispatchGetBalance
           \/ DispatchWithdraw \/ DispatchDeposit \/ DispatchTransfer
    PROVE  RoundInv'
<1> DEFINE Records == [balance : Int32, secret : Int]
<1> USE DEF TypeOK, SharedTypeOK, ServerTypeOK, ClientTypeOK
<1>1. srv \in {"connect", "execute"} /\ srv' = "post"
  BY DEF DispatchConnect, DispatchDisconnect, DispatchGetBalance,
         DispatchWithdraw, DispatchDeposit, DispatchTransfer, Handle
<1>2. PICK c \in Clients :
        /\ Awaiting(c)
        /\ shared = Message(con[c], call[c])
        /\ RoundOf(c)
        /\ \A d \in Clients \ {c} : ~ InSection(d)
        /\ Balances = books
  BY <1>1, Served
<1>3. /\ cur = con[c].accountNR
      /\ srv = "connect" <=> call[c].action = "CONNECT"
  BY <1>1, <1>2 DEF RoundOf
<1>4. /\ shared.action = call[c].action
      /\ shared.accountNr = con[c].accountNR
      /\ shared.otherAcc = call[c].other
      /\ shared.data = call[c].money
  BY <1>2 DEF Message
<1>5. shared.data \in Int32 /\ cur \in Known /\ list \in [Known -> Records]
  BY DEF BankMgrData
<1>6. /\ shared' \in BankMgrData
      /\ list' \in [Known -> Records]
  BY ServerStepType DEF ServerStep
<1>7. CASE DispatchConnect
  <2>1. /\ shared' = [shared EXCEPT !.secret = drawn', !.outcome = TRUE]
        /\ list' = [list EXCEPT ![cur].secret = drawn']
        /\ call[c].action = "CONNECT"
    BY <1>1, <1>3, <1>4, <1>7 DEF DispatchConnect
  <2>2. Balances' = Balances
    BY <1>5, <2>1 DEF Balances
  <2>3. /\ shared'.outcome
        /\ shared'.accountNr = con[c].accountNR
        /\ shared'.otherAcc = call[c].other
        /\ shared'.secret = list'[con[c].accountNR].secret
    BY <1>3, <1>4, <1>5, <2>1 DEF BankMgrData
  <2>4. Effect(books, con[c].accountNR, call[c]) = books
    BY <2>1 DEF Effect
  <2>5. QED
    BY <1>1, <1>2, <2>1, <2>2, <2>3, <2>4, AnswerKeepsRound
<1>8. CASE DispatchDisconnect
  <2>1. /\ shared' = [shared EXCEPT !.outcome = TRUE]
        /\ list' = [list EXCEPT ![cur].secret = LoggedOut]
        /\ call[c].action = "DISCONNECT"
    BY <1>4, <1>8 DEF DispatchDisconnect, Handle, Done
  <2>2. Balances' = Balances
    BY <1>5, <2>1 DEF Balances
  <2>3. /\ shared'.outcome
        /\ shared'.accountNr = con[c].accountNR
        /\ shared'.otherAcc = call[c].other
    BY <1>4, <2>1 DEF BankMgrData
  <2>4. Effect(books, con[c].accountNR, call[c]) = books
    BY <2>1 DEF Effect
  <2>5. QED
    BY <1>1, <1>2, <2>1, <2>2, <2>3, <2>4, AnswerKeepsRound
<1>9. CASE DispatchGetBalance
  <2>1. /\ shared' = [shared EXCEPT !.data = list[cur].balance, !.outcome = TRUE]
        /\ list' = list
        /\ call[c].action = "GET_BALANCE"
    BY <1>4, <1>9 DEF DispatchGetBalance, Handle
  <2>2. Balances' = Balances
    BY <2>1 DEF Balances
  <2>3. /\ shared'.outcome
        /\ shared'.accountNr = con[c].accountNR
        /\ shared'.otherAcc = call[c].other
        /\ shared'.data = list'[con[c].accountNR].balance
    BY <1>3, <1>4, <2>1 DEF BankMgrData
  <2>4. Effect(books, con[c].accountNR, call[c]) = books
    BY <2>1 DEF Effect
  <2>5. QED
    BY <1>1, <1>2, <2>1, <2>2, <2>3, <2>4, AnswerKeepsRound
<1>10. ASSUME NEW action \in {"WITHDRAW", "DEPOSIT", "TRANSFER"},
              shared.action = action, Done(TRUE),
              Balances' = Effect(books, con[c].accountNR, call[c])
       PROVE  RoundInv'
  <2>1. /\ shared'.outcome
        /\ shared'.accountNr = con[c].accountNR
        /\ shared'.otherAcc = call[c].other
    BY <1>4, <1>10 DEF Done, BankMgrData
  <2>2. QED
    BY <1>1, <1>2, <1>4, <1>10, <2>1, AnswerKeepsRound
<1>11. ASSUME Done(FALSE), UNCHANGED list
       PROVE  RoundInv'
  <2>1. ~ shared'.outcome
    BY <1>11 DEF Done, BankMgrData
  <2>2. Balances' = books
    BY <1>2, <1>11 DEF Balances
  <2>3. QED
    BY <1>1, <1>2, <2>1, <2>2, AnswerKeepsRound
<1>12. BalancesOf(list) = books /\ Balances' = BalancesOf(list')
  BY <1>2 DEF Balances, BalancesOf
<1>13. /\ BalancesOf(Debit(list, cur, shared.data))
            = Move(books, con[c].accountNR, -call[c].money)
       /\ BalancesOf(Credit(list, cur, shared.data))
            = Move(books, con[c].accountNR, call[c].money)
  <2>1. /\ BalancesOf(Debit(list, cur, shared.data))
             = Move(BalancesOf(list), cur, -shared.data)
        /\ BalancesOf(Credit(list, cur, shared.data))
             = Move(BalancesOf(list), cur, shared.data)
    BY <1>5, DebitCredit
  <2>2. QED
    BY <1>3, <1>4, <1>12, <2>1
<1>14. CASE DispatchWithdraw
  BY <1>4, <1>10, <1>11, <1>12, <1>13, <1>14
  DEF DispatchWithdraw, Handle, Effect
<1>15. CASE DispatchDeposit
  BY <1>4, <1>10, <1>12, <1>13, <1>15 DEF DispatchDeposit, Handle, Effect
<1>16. CASE DispatchTransfer
  <2>1. CASE shared.otherAcc \in Known /\ Covered
    <3>1. list' = Credit(Debit(list, cur, shared.data),
                         shared.otherAcc, shared.data)
      BY <1>16, <2>1 DEF DispatchTransfer
    <3>2. Balances' = Move(Move(books, cur, -shared.data),
                           shared.otherAcc, shared.data)
      <4> DEFINE debited == Debit(list, cur, shared.data)
      <4>1. /\ BalancesOf(debited) = Move(BalancesOf(list), cur, -shared.data)
            /\ debited \in [Known -> Records]
        BY <1>5, DebitCredit
      <4>2. BalancesOf(Credit(debited, shared.otherAcc, shared.data))
              = Move(BalancesOf(debited), shared.otherAcc, shared.data)
        BY <1>5, <2>1, <4>1, DebitCredit
      <4>3. QED
        BY <1>12, <3>1, <4>1, <4>2
    <3>3. shared.action = "TRANSFER" /\ Done(TRUE)
      BY <1>16, <2>1 DEF DispatchTransfer, Handle
    <3>4. QED
      BY <1>3, <1>4, <1>10, <3>2, <3>3 DEF Effect
  <2>2. CASE ~ (shared.otherAcc \in Known /\ Covered)
    BY <1>11, <1>16, <2>2 DEF DispatchTransfer
  <2>3. QED
    BY <2>1, <2>2
<1>17. QED
  BY <1>7, <1>8, <1>9, <1>14, <1>15, <1>16

(* The server's other steps move a request or a reply and change neither.  *)
LEMMA RoundServerStep ==
    ASSUME TypeOK, CalmInv, RoundInv, UNCHANGED <<clientVars, books>>,
           ServerStep \/ SrvSignal
    PROVE  RoundInv'
<1> USE DEF TypeOK, SharedTypeOK, ServerTypeOK
<1>1. pc' = pc /\ data' = data /\ con' = con /\ call' = call
  BY DEF clientVars
<1>2. ASSUME UNCHANGED <<readBack_lock, shared, list, outFile>>,
             srv' \notin {"connect", "execute", "post"},
             srv \notin {"post", "done"},
             srv' \in {"close", "done"} => srv \in {"close", "done"}
      PROVE  RoundInv'
  <2>1. \A d \in Clients : RoundOf(d)' /\ (Owed(d)' <=> Owed(d))
    BY <1>1, <1>2
    DEF RoundInv, RoundOf, Owed, Status, Answer, Awaiting, Executed, Message
  <2>2. QED
    BY <1>1, <1>2, <2>1 DEF RoundInv, BooksInv, FileInv, Balances
<1>3. CASE SrvLoop \/ SrvWait \/ SrvWake
  BY <1>2, <1>3 DEF SrvLoop, SrvWait, SrvWake, sems
<1>4. CASE SrvLookup
  <2>1. PICK c \in Clients :
          /\ Awaiting(c)
          /\ Status(c) = "asked"
          /\ shared = Message(con[c], call[c])
          /\ readBack_lock = 0
          /\ \A d \in Clients \ {c} : ~ InSection(d)
          /\ Balances = books
    BY <1>4, Served DEF SrvLookup
  <2>2. Balances' = Balances
    BY <1>4 DEF SrvLookup, Balances
  <2>3. CASE Refused
    <3>1. srv = "lookup" /\ srv' = "post" /\ ~ shared'.outcome
      BY <1>4, <2>3 DEF SrvLookup, Refused, BankMgrData
    <3>2. QED
      BY <2>1, <2>2, <3>1, AnswerKeepsRound
  <2>4. CASE /\ srv' \in {"connect", "execute"}
             /\ cur' = shared.accountNr
             /\ srv' = "connect" <=> shared.action = "CONNECT"
             /\ UNCHANGED shared
    <3>1. readBack_lock' = readBack_lock
      BY <1>4 DEF SrvLookup, sems
    <3>2. Awaiting(c)' /\ Status(c)' = "asked"
      BY <1>1, <2>1, <2>4, <3>1 DEF Awaiting, Status, Executed
    <3>3. /\ cur' = con'[c].accountNR
          /\ srv' = "connect" <=> call'[c].action = "CONNECT"
      BY <1>1, <2>1, <2>4 DEF Message
    <3>4. RoundOf(c)' /\ ~ Owed(c)'
      BY <1>1, <2>1, <2>4, <3>2, <3>3 DEF RoundOf, Owed, Awaiting, Message
    <3>5. \A d \in Clients \ {c} : RoundOf(d)' /\ ~ Owed(d)'
      BY <2>1, OthersUnserved
    <3>6. FileInv'
      BY <2>4 DEF FileInv
    <3>7. QED
      BY <2>1, <2>2, <3>4, <3>5, <3>6 DEF RoundInv, BooksInv
  <2>5. QED
    BY <1>4, <2>3, <2>4 DEF SrvLookup
<1>5. CASE \/ DispatchConnect \/ DispatchDisconnect \/ DispatchGetBalance
           \/ DispatchWithdraw \/ DispatchDeposit \/ DispatchTransfer
  BY <1>5, RoundHandlerStep
<1>6. CASE SrvPost
  <2>1. /\ srv = "post" /\ srv' = "loop" /\ readBack_lock' > 0
        /\ UNCHANGED <<shared, list, outFile>>
    BY <1>6 DEF SrvPost
  <2>2. \A d \in Clients : Status(d)' = Status(d) /\ Answer(d)' = Answer(d)
    BY <1>1, <2>1 DEF Status, Answer, Awaiting, Executed
  <2>3. \A d \in Clients : RoundOf(d)' /\ (Owed(d)' <=> Owed(d))
    BY <1>1, <2>1, <2>2 DEF RoundInv, RoundOf, Owed, Awaiting, Message
  <2>4. QED
    BY <1>1, <2>1, <2>3 DEF RoundInv, BooksInv, FileInv, Balances
<1>7. CASE SrvSave
  <2>1. /\ srv = "save" /\ srv' = "close"
        /\ UNCHANGED <<readBack_lock, shared, list>>
    BY <1>7 DEF SrvSave, sems
  <2>2. \A d \in Clients : RoundOf(d)' /\ (Owed(d)' <=> Owed(d))
    BY <1>1, <2>1
    DEF RoundInv, RoundOf, Owed, Status, Answer, Awaiting, Executed, Message
  <2>3. FileInv'
    BY <1>7 DEF SrvSave, FileInv
  <2>4. QED
    BY <1>1, <2>1, <2>2, <2>3 DEF RoundInv, BooksInv, Balances
<1>8. CASE SrvClose
  <2>1. /\ srv = "close" /\ srv' = "done"
        /\ UNCHANGED <<readBack_lock, list, outFile>>
        /\ shared' = [shared EXCEPT !.action = "CLOSED"]
    BY <1>8 DEF SrvClose, sems
  <2>2. \A d \in Clients :
          /\ Status(d)' = Status(d)
          /\ Answer(d)'.outcome = Answer(d).outcome
          /\ Answer(d)'.accountNr = Answer(d).accountNr
          /\ Answer(d)'.otherAcc = Answer(d).otherAcc
          /\ Answer(d)'.data = Answer(d).data
          /\ Answer(d)'.secret = Answer(d).secret
    BY <1>1, <2>1 DEF Status, Answer, Awaiting, Executed, BankMgrData
  <2>3. \A d \in Clients : RoundOf(d)' /\ (Owed(d)' <=> Owed(d))
    BY <1>1, <2>1, <2>2 DEF RoundInv, RoundOf, Owed, Awaiting, Message
  <2>4. QED
    BY <1>1, <2>1, <2>3 DEF RoundInv, BooksInv, FileInv, Balances
<1>9. CASE SrvSignal
  <2>1. UNCHANGED <<readBack_lock, shared, list, outFile, srv, cur>>
    BY <1>9 DEF SrvSignal, sems
  <2>2. \A d \in Clients : RoundOf(d)' /\ (Owed(d)' <=> Owed(d))
    BY <1>1, <2>1
    DEF RoundInv, RoundOf, Owed, Status, Answer, Awaiting, Executed, Message
  <2>3. QED
    BY <1>1, <2>1, <2>2 DEF RoundInv, BooksInv, FileInv, Balances
<1>10. QED
  BY <1>3, <1>4, <1>5, <1>6, <1>7, <1>8, <1>9 DEF ServerStep

-----------------------------------------------------------------------------
(* The theorems                                                            *)

LEMMA RoundInductive ==
    /\ Init => RoundInv
    /\ TypeOK /\ CalmInv /\ RoundInv /\ [CalmNext \/ Finished]_vars => RoundInv'
<1>1. ASSUME Init PROVE RoundInv
  <2>1. \A c \in Clients :
          /\ pc[c] = "lock"
          /\ data[c] = Message(con[c], call[c])
    BY <1>1 DEF Init, ClientInit
  <2>2. \A c \in Clients : RoundOf(c) /\ ~ Owed(c)
    BY <2>1, RoundOutside DEF InSection
  <2>3. Balances = books /\ FileInv
    BY <1>1 DEF Init, ServerInit, Balances, FileInv
  <2>4. QED
    BY <2>2, <2>3 DEF RoundInv, BooksInv
<1>2. ASSUME TypeOK, CalmInv, RoundInv, [CalmNext \/ Finished]_vars
      PROVE  RoundInv'
  <2>1. CASE (ServerStep \/ SrvSignal) /\ UNCHANGED <<clientVars, books>>
    BY <1>2, <2>1, RoundServerStep
  <2>2. ASSUME NEW c \in Clients, UNCHANGED srvVars,
               \/ ClientStep(c) /\ Receipt(c)
               \/ (UserStep(c) \/ ClientSignal(c)) /\ UNCHANGED books
        PROVE  RoundInv'
    BY <1>2, <2>2, RoundClientStep
  <2>3. CASE UNCHANGED vars
    BY <1>2, <2>3
    DEF RoundInv, RoundOf, BooksInv, FileInv, Balances, Owed, Status, Answer,
        Awaiting, Executed, Message, vars, sems, srvVars, clientVars
  <2>4. QED
    BY <1>2, <2>1, <2>2, <2>3 DEF CalmNext, Finished
<1>3. QED
  BY <1>1, <1>2

LEMMA CalmRound == CalmSpec => [](TypeOK /\ CalmInv /\ RoundInv)
  BY CalmTypeCorrect, CalmInductive, RoundInductive, PTL DEF CalmSpec

(* A granted reply is the one to the request of the client that reads it,  *)
(* although all clients share one record and the server closes without any *)
(* lock.                                                                   *)
THEOREM CalmReplies == CalmSpec => []ReplyIsMine
<1>1. RoundInv => ReplyIsMine
  BY DEF RoundInv, RoundOf, Owed, Status, Answer, Awaiting, ReplyIsMine
<1>2. QED
  BY CalmRound, <1>1, PTL

(* Between two round trips the server's balances are what the replies to   *)
(* all clients add up to.                                                  *)
THEOREM CalmBooks == CalmSpec => []BooksBalance
<1>1. RoundInv => BooksBalance
  BY RoundOutside DEF RoundInv, BooksInv, Balances, BooksBalance
<1>2. QED
  BY CalmRound, <1>1, PTL

(* So does the CSV file that the server leaves.                            *)
THEOREM CalmCsv == CalmSpec => []CsvAgrees
<1>1. RoundInv => CsvAgrees
  BY RoundOutside DEF RoundInv, BooksInv, FileInv, Balances, CsvAgrees, Known
<1>2. QED
  BY CalmRound, <1>1, PTL

-----------------------------------------------------------------------------
(* Overdrafts                                                              *)

LEMMA AmountInductive ==
    /\ Init => AmountInv
    /\ TypeOK /\ CalmInv /\ AmountInv /\ [CalmNext \/ Finished]_vars => AmountInv'
<1>1. ASSUME Init PROVE AmountInv
  BY <1>1 DEF Init, ServerInit, AmountInv
<1>2. ASSUME TypeOK, CalmInv, AmountInv, [CalmNext \/ Finished]_vars
      PROVE  AmountInv'
  <2>1. CASE ServerStep \/ SrvSignal
    <3>1. CASE SrvLookup
      BY <3>1 DEF SrvLookup, Authorised, Refused, AmountInv
    <3>2. CASE SrvSignal
      BY <1>2, <3>2 DEF SrvSignal, AmountInv
    <3>3. CASE ~ SrvLookup /\ ~ SrvSignal
      BY <2>1, <3>3
      DEF ServerStep, SrvLoop, SrvWait, SrvWake, DispatchConnect,
          DispatchDisconnect, DispatchGetBalance, DispatchWithdraw,
          DispatchDeposit, DispatchTransfer, Handle, SrvPost, SrvSave,
          SrvClose, AmountInv
    <3>4. QED
      BY <3>1, <3>2, <3>3
  <2>2. ASSUME NEW c \in Clients, UNCHANGED srvVars,
               ClientStep(c) \/ UserStep(c) \/ ClientSignal(c)
        PROVE  AmountInv'
    <3>1. CASE WriteRequest(c)
      BY <1>2, <2>2, <3>1, QuietBeforePost
      DEF WriteRequest, Step, InSection, Awaiting, Serving, AmountInv, srvVars
    <3>2. CASE ~ WriteRequest(c)
      <4>1. UNCHANGED shared
        BY <2>2, <3>2
        DEF ClientStep, LockWait, LockWake, CheckClosed, PostRequest, ReplyWait,
            ReplyWake, ReadReply, Unlock, Loop, UserStep, Command, Quit,
            OtherKey, Newline, ClientSignal
      <4>2. QED
        BY <1>2, <2>2, <4>1 DEF AmountInv, srvVars
    <3>3. QED
      BY <3>1, <3>2
  <2>3. CASE UNCHANGED vars
    BY <1>2, <2>3 DEF AmountInv, vars, srvVars
  <2>4. QED
    BY <1>2, <2>1, <2>2, <2>3 DEF CalmNext, Finished
<1>3. QED
  BY <1>1, <1>2

(* Taking m from b and adding it to b, as an int does.                     *)
LEMMA Sums ==
    ASSUME NEW b \in Int32, NEW m \in Int32, m >= 0, b >= 0
    PROVE  /\ Wrap(b + m) < 0 => b + m > MaxInt
           /\ Wrap(b - m) >= 0 => Wrap(Wrap(b - m) + m) = b
  BY SharedAssumption, SMT DEF Int32, Wrap

(* A balance that becomes negative is credited too much.                   *)
LEMMA OverdraftStep ==
    ASSUME TypeOK, AmountInv, ServerStep, NEW a \in Known,
           list[a].balance >= 0, list'[a].balance < 0
    PROVE  Credits(a) /\ list[a].balance + shared.data > MaxInt
<1> DEFINE m == shared.data
           b == list[a].balance
<1>1. m \in Int32 /\ b \in Int32 /\ cur \in Known
  BY DEF TypeOK, SharedTypeOK, ServerTypeOK, BankMgrData
<1>2. list \in [Known -> [balance : Int32, secret : Int]]
  BY DEF TypeOK, ServerTypeOK
<1>3. ASSUME srv = "execute" PROVE m >= 0
  BY <1>3 DEF AmountInv
<1>4. list'[a].balance # list[a].balance /\ list' # list
  BY <1>1 DEF Int32
<1>5. CASE DispatchConnect \/ DispatchDisconnect
  <2>1. \E s : list' = [list EXCEPT ![cur].secret = s]
    BY <1>5 DEF DispatchConnect, DispatchDisconnect
  <2>2. list'[a].balance = list[a].balance
    BY <1>1, <1>2, <2>1
  <2>3. QED
    BY <1>4, <2>2
<1>6. CASE DispatchWithdraw
  <2>1. Covered /\ list' = Debit(list, cur, m)
    BY <1>6, <1>4 DEF DispatchWithdraw
  <2>2. Wrap(list[cur].balance - m) \in Int32
    BY <1>1, <1>2, WrapInt
  <2>3. CASE a = cur
    <3>1. list'[a].balance = Wrap(list[cur].balance - m)
      BY <1>1, <1>2, <2>1, <2>3 DEF Debit
    <3>2. QED
      BY <2>1, <2>2, <3>1 DEF Covered, Int32
  <2>4. CASE a # cur
    BY <1>1, <1>2, <1>4, <2>1, <2>4 DEF Debit
  <2>5. QED
    BY <2>3, <2>4
<1>7. CASE DispatchDeposit
  <2>1. m >= 0
    BY <1>3, <1>7 DEF DispatchDeposit, Handle
  <2>2. a = cur /\ Wrap(b + m) < 0
    BY <1>1, <1>2, <1>7 DEF DispatchDeposit, Credit, Int32
  <2>3. Credits(a)
    BY <1>7, <2>2 DEF DispatchDeposit, Handle, Credits
  <2>4. QED
    BY <1>1, <2>1, <2>2, <2>3, Sums
<1>8. CASE DispatchTransfer
  <2>1. m >= 0
    BY <1>3, <1>8 DEF DispatchTransfer, Handle
  <2>2. /\ Covered
        /\ shared.otherAcc \in Known
        /\ list' = Credit(Debit(list, cur, m), shared.otherAcc, m)
    BY <1>8, <1>4 DEF DispatchTransfer
  <2>3. CASE a = shared.otherAcc /\ a # cur
    <3>1. Wrap(b + m) < 0
      BY <1>1, <1>2, <2>2, <2>3 DEF Credit, Debit
    <3>2. Credits(a)
      BY <1>8, <2>3 DEF DispatchTransfer, Handle, Credits
    <3>3. QED
      BY <1>1, <2>1, <3>1, <3>2, Sums
  <2>4. CASE a = cur /\ a # shared.otherAcc
    <3>1. list'[a].balance = Wrap(b - m)
      BY <1>1, <1>2, <2>2, <2>4 DEF Credit, Debit
    <3>2. Wrap(b - m) \in Int32 /\ Wrap(b - m) >= 0
      BY <1>1, <2>2, <2>4, WrapInt DEF Covered
    <3>3. QED
      BY <3>1, <3>2 DEF Int32
  <2>5. CASE a = cur /\ a = shared.otherAcc
    <3>1. Wrap(Wrap(b - m) + m) < 0 /\ Wrap(b - m) >= 0
      BY <1>1, <1>2, <2>2, <2>5 DEF Covered, Credit, Debit
    <3>2. QED
      BY <1>1, <2>1, <3>1, Sums DEF Int32
  <2>6. CASE a # cur /\ a # shared.otherAcc
    BY <1>1, <1>2, <1>4, <2>2, <2>6 DEF Credit, Debit
  <2>7. QED
    BY <2>3, <2>4, <2>5, <2>6
<1>9. CASE list' = list
  BY <1>9, <1>4
<1>10. QED
  BY <1>5, <1>6, <1>7, <1>8, <1>9
  DEF ServerStep, SrvLoop, SrvWait, SrvWake, SrvLookup, DispatchGetBalance,
      SrvPost, SrvSave, SrvClose

(* The difference of two ints looks covered only if it is, or if it wraps.  *)
LEMMA Differences ==
    ASSUME NEW b \in Int32, NEW m \in Int32, m >= 0, Wrap(b - m) >= 0
    PROVE  m <= b \/ (b < 0 /\ b - m < -MaxInt - 1)
  BY SharedAssumption, SMT DEF Int32, Wrap

(* Money is taken only from an account that covers it, or by a wrap.        *)
LEMMA DebitStep ==
    ASSUME TypeOK, AmountInv, ServerStep, DebitGranted
    PROVE  \/ shared.data <= list[cur].balance
           \/ /\ list[cur].balance < 0
              /\ list[cur].balance - shared.data < -MaxInt - 1
<1>1. shared.data \in Int32 /\ list[cur].balance \in Int32
  BY DEF TypeOK, SharedTypeOK, ServerTypeOK, BankMgrData
<1>2. shared.data >= 0
  BY DEF DebitGranted, AmountInv
<1>3. shared \in BankMgrData
  BY DEF TypeOK, SharedTypeOK
<1>4. DispatchWithdraw \/ DispatchTransfer
  BY DEF ServerStep, DebitGranted, SrvLoop, SrvWait, SrvWake, SrvLookup,
      DispatchConnect, DispatchDisconnect, DispatchGetBalance,
      DispatchDeposit, Handle, SrvPost, SrvSave, SrvClose
<1>5. Covered
  <2>1. ~ Covered => shared'.outcome = FALSE
    BY <1>3, <1>4 DEF DispatchWithdraw, DispatchTransfer, Done, BankMgrData
  <2>2. QED
    BY <2>1 DEF DebitGranted
<1>6. QED
  BY <1>1, <1>2, <1>5, Differences DEF Covered

(* A debit that is granted is covered, or wraps below an overdrawn account; *)
(* a balance becomes negative only when a credit exceeds an int.            *)
THEOREM CalmNoOverdraft == CalmSpec => NoOverdraft
<1> DEFINE Kept ==
      /\ DebitGranted =>
           \/ shared.data <= list[cur].balance
           \/ /\ list[cur].balance < 0
              /\ list[cur].balance - shared.data < -MaxInt - 1
      /\ \A a \in Known :
           list[a].balance >= 0 /\ list'[a].balance < 0 =>
               Credits(a) /\ list[a].balance + shared.data > MaxInt
<1>1. ASSUME TypeOK, AmountInv, [CalmNext \/ Finished]_vars PROVE [Kept]_vars
  <2>1. CASE ServerStep
    BY <1>1, <2>1, OverdraftStep, DebitStep
  <2>2. CASE list' = list /\ ~ DebitGranted
    BY <1>1, <2>2 DEF TypeOK, ServerTypeOK, Int32
  <2>3. CASE list' = list /\ srv' = srv
    <3>1. ~ DebitGranted
      BY <2>3 DEF DebitGranted
    <3>2. QED
      BY <2>2, <2>3, <3>1
  <2>4. QED
    BY <1>1, <2>1, <2>3 DEF CalmNext, Finished, SrvSignal, srvVars, vars
<1>2. TypeOK /\ AmountInv /\ [CalmNext \/ Finished]_vars => [Kept]_vars
  BY <1>1
<1>3. CalmSpec => [][Kept]_vars
  BY CalmRound, AmountInductive, <1>2, PTL DEF CalmSpec
<1>4. QED
  BY <1>3, PTL DEF NoOverdraft

-----------------------------------------------------------------------------
(***************************************************************************)
(* Sessions and the ledger. SessionInv is inductive relative to the        *)
(* invariants above. A client's step is one of four things to the ledger:  *)
(* nothing, a call, a return, or the news that the bank is closed; the     *)
(* server's step before its post of readBack_lock is the one at which a    *)
(* request takes effect.                                                   *)
(***************************************************************************)

(* What clients show                                                       *)

(* A step of c leaves everything that the ledger sees of another client.   *)
LEMMA OthersKeepView ==
    ASSUME TypeOK, CalmInv, NEW c \in Clients, NEW d \in Clients \ {c},
           UNCHANGED srvVars, ClientStep(c) \/ UserStep(c) \/ ClientSignal(c)
    PROVE  /\ Status(d)' = Status(d) /\ Reply(d)' = Reply(d)
           /\ SecretOf(d)' = SecretOf(d)
           /\ Status(d) = "answered" => Answer(d)' = Answer(d)
<1>1. /\ pc'[d] = pc[d] /\ data'[d] = data[d]
      /\ con'[d] = con[d] /\ call'[d] = call[d]
  BY ClientFrame
<1>2. CASE InSection(c)
  <2>1. ~ InSection(d)
    BY <1>2 DEF CalmInv, MutexInv
  <2>2. Status(d) \in {"idle", "asked"} /\ Status(d)' = Status(d)
    BY <1>1, <2>1 DEF Status, InSection, Awaiting
  <2>3. QED
    BY <1>1, <2>2 DEF Reply, SecretOf
<1>3. CASE ~ InSection(c)
  <2>1. UNCHANGED <<shared, readBack_lock>> /\ srv' = srv
    BY <1>3, ClientFrame DEF srvVars
  <2>2. Status(d)' = Status(d) /\ Answer(d)' = Answer(d)
    BY <1>1, <2>1 DEF Status, Answer, Awaiting, Executed
  <2>3. QED
    BY <1>1, <2>2 DEF Reply, SecretOf
<1>4. QED
  BY <1>2, <1>3

(* The ledger's view of a client's own steps: most show nothing.           *)
Unseen(c) ==
    /\ Status(c)' = Status(c) /\ Reply(c)' = Reply(c)
    /\ SecretOf(c)' = SecretOf(c)
    /\ Status(c) = "answered" => Answer(c)'.outcome = Answer(c).outcome
    /\ pc'[c] # "done" /\ con' = con /\ call' = call

NoReply == [ok |-> FALSE, balance |-> 0]

Asks(c) ==
    /\ Status(c) = "idle" /\ Status(c)' = "asked"
    /\ \E q \in Call : /\ call' = [call EXCEPT ![c] = q]
                       /\ q.action = "DISCONNECT" => q.money = 0
    /\ SecretOf(c)' = SecretOf(c) /\ Reply(c)' = Reply(c)
    /\ pc'[c] # "done" /\ con' = con

FindsClosed(c) ==
    /\ srv = "done"
    /\ Status(c) = "asked" /\ Status(c)' = "answered"
    /\ Reply(c)' = NoReply
    /\ SecretOf(c)' = SecretOf(c)
    /\ AccountOf' = AccountOf /\ call' = call

Returns(c) ==
    /\ Status(c) = "answered" /\ Status(c)' = "idle"
    /\ Reply(c)' = NoReply
    /\ SecretOf(c)' = SecretOf(c)
    /\ pc'[c] = "done" => \/ call[c].action = "DISCONNECT"
                          \/ call[c].action = "CONNECT" /\ ~Answer(c).outcome
    /\ AccountOf' = AccountOf /\ call' = call

LEMMA OwnView ==
    ASSUME TypeOK, CalmInv, ActionInv, NEW c \in Clients, UNCHANGED srvVars,
           ClientStep(c) \/ UserStep(c) \/ ClientSignal(c),
           RoundOf(c)
    PROVE  Unseen(c) \/ Asks(c) \/ FindsClosed(c) \/ Returns(c)
<1> USE DEF TypeOK, ClientTypeOK, Goto
<1>0. srv' = srv
  BY DEF srvVars
<1>1. ASSUME pc'[c] = pc[c]
                \/ (pc[c] \in {"lock", "lockBlocked"} /\ pc'[c] = "check")
                \/ (pc[c] = "lock" /\ pc'[c] = "lockBlocked")
                \/ (pc[c] = "check" /\ pc'[c] = "write")
                \/ (pc[c] \in {"menu", "enter", "loop"}
                      /\ pc'[c] \in {"menu", "enter", "loop"}),
             pc[c] # "done",
             UNCHANGED <<shared, readBack_lock, data, con, call>>
      PROVE  Unseen(c)
  <2>1. Status(c)' = Status(c) /\ Answer(c)' = Answer(c)
    BY <1>0, <1>1 DEF Status, Answer, Awaiting, Executed
  <2>2. QED
    BY <1>1, <2>1 DEF Unseen, Reply, SecretOf
<1>2. CASE LockWait(c) \/ LockWake(c)
  BY <1>1, <1>2 DEF LockWait, LockWake, Step
<1>3. CASE CheckClosed(c)
  <2>1. CASE shared.action = "CLOSED"
    <3>1. /\ pc[c] = "check" /\ pc'[c] = "unlock"
          /\ data'[c].outcome = FALSE /\ data'[c].secret = data[c].secret
          /\ call' = call /\ srv = "done"
      BY <1>3, <2>1 DEF CheckClosed, BankMgrData, ActionInv
    <3>2. con' = [con EXCEPT ![c].bankClosed = TRUE]
      BY <1>3, <2>1 DEF CheckClosed
    <3>3. con'[c].secret = con[c].secret /\ AccountOf' = AccountOf
      BY <3>2 DEF Connection, AccountOf
    <3>4. data[c].secret = con[c].secret
      BY <3>1 DEF RoundOf, Message
    <3>5. Status(c) = "asked" /\ Status(c)' = "answered" /\ Answer(c)' = data'[c]
      BY <3>1 DEF Status, Awaiting, Answer
    <3>6. Reply(c)' = NoReply /\ SecretOf(c)' = SecretOf(c)
      BY <3>1, <3>3, <3>4, <3>5 DEF Reply, NoReply, SecretOf
    <3>7. QED
      BY <3>1, <3>3, <3>5, <3>6 DEF FindsClosed
  <2>2. CASE shared.action # "CLOSED"
    BY <1>1, <1>3, <2>2 DEF CheckClosed, sems
  <2>3. QED
    BY <2>1, <2>2
<1>4. CASE WriteRequest(c)
  <2>1. /\ pc[c] = "write" /\ pc'[c] = "post" /\ UNCHANGED <<con, call>>
    BY <1>4 DEF WriteRequest, Step
  <2>2. Status(c) = "asked" /\ Status(c)' = "asked"
    BY <2>1 DEF Status, Awaiting
  <2>3. QED
    BY <2>1, <2>2 DEF Unseen, Reply, SecretOf
<1>5. CASE PostRequest(c)
  <2>1. /\ pc[c] = "post" /\ pc'[c] = "reply"
        /\ UNCHANGED <<shared, readBack_lock, con, call>>
    BY <1>5 DEF PostRequest, Step
  <2>2. readBack_lock = 0 /\ ~ Serving
    BY <2>1, QuietBeforePost DEF InSection, Awaiting
  <2>3. Status(c) = "asked" /\ Status(c)' = "asked"
    BY <1>0, <2>1, <2>2 DEF Status, Awaiting, Executed, Serving
  <2>4. QED
    BY <2>1, <2>3 DEF Unseen, Reply, SecretOf
<1>6. CASE ReplyWait(c) \/ ReplyWake(c)
  <2>1. /\ Awaiting(c)
        /\ UNCHANGED <<shared, data, con, call>>
        /\ \/ pc'[c] = "read" /\ readBack_lock > 0
           \/ pc'[c] = "replyBlocked" /\ readBack_lock' = readBack_lock
    BY <1>6 DEF ReplyWait, ReplyWake, Step, Awaiting, SharedTypeOK
  <2>2. Status(c)' = Status(c) /\ Answer(c)' = Answer(c)
    BY <1>0, <2>1 DEF Status, Answer, Awaiting, Executed
  <2>3. QED
    BY <2>1, <2>2 DEF Unseen, Reply, SecretOf
<1>7. CASE ReadReply(c)
  <2>1. /\ pc[c] = "read" /\ pc'[c] = "unlock"
        /\ data'[c] = shared
        /\ UNCHANGED <<con, call>>
    BY <1>7 DEF ReadReply, Step
  <2>2. Status(c)' = Status(c) /\ Answer(c)' = Answer(c)
    BY <2>1 DEF Status, Answer
  <2>3. QED
    BY <2>1, <2>2 DEF Unseen, Reply, SecretOf
<1>8. ASSUME NEW q \in Call, Begin(c, q), pc[c] \in {"menu", "loop"}, con' = con,
             q.action = "DISCONNECT" => q.money = 0
      PROVE  Asks(c)
  <2>1. Status(c) = "idle" /\ Status(c)' = "asked" /\ pc'[c] = "lock"
    BY <1>8 DEF Begin, Status, Awaiting
  <2>2. SecretOf(c)' = SecretOf(c) /\ Reply(c)' = Reply(c)
    BY <1>8, <2>1 DEF SecretOf, Reply
  <2>3. call' = [call EXCEPT ![c] = q]
    BY <1>8 DEF Begin
  <2>4. QED
    BY <1>8, <2>1, <2>2, <2>3 DEF Asks
<1>9. CASE Loop(c)
  <2>1. CASE Begin(c, Simple("DISCONNECT"))
    BY <1>8, <1>9, <2>1, CommandsAreCalls DEF Loop, Simple
  <2>2. CASE Goto(c, "menu") /\ UNCHANGED <<call, data>>
    BY <1>1, <1>9, <2>2 DEF Loop, sems
  <2>3. QED
    BY <1>9, <2>1, <2>2 DEF Loop
<1>10. CASE Command(c)
  <2>1. PICK q \in Commands : Begin(c, q)
    BY <1>10 DEF Command
  <2>2. q \in Call /\ q.action # "DISCONNECT"
    BY <2>1, CommandsAreCalls DEF Commands, Simple
  <2>3. QED
    BY <1>8, <1>10, <2>1, <2>2 DEF Command
<1>11. CASE Quit(c) \/ OtherKey(c) \/ Newline(c)
  BY <1>1, <1>11 DEF Quit, OtherKey, Newline, Step, sems
<1>12. CASE ClientSignal(c)
  BY <1>1, <1>12 DEF ClientSignal, sems
<1>13. CASE Unlock(c)
  <2>1. /\ pc[c] = "unlock" /\ pc'[c] \in {"done", "loop"} /\ call' = call
        /\ con' = IF call[c].action = "CONNECT"
                    THEN [con EXCEPT ![c].secret = data[c].secret] ELSE con
        /\ pc'[c] = "done" => \/ call[c].action = "DISCONNECT"
                              \/ call[c].action = "CONNECT" /\ ~data[c].outcome
    BY <1>13 DEF Unlock
  <2>2. /\ Status(c) = "answered" /\ Status(c)' = "idle"
        /\ Answer(c) = data[c]
    BY <2>1 DEF Status, Answer, Awaiting
  <2>3. /\ AccountOf' = AccountOf
        /\ call[c].action = "CONNECT" => con'[c].secret = data[c].secret
        /\ call[c].action # "CONNECT" => con'[c].secret = con[c].secret
    BY <2>1 DEF Connection, AccountOf
  <2>4. SecretOf(c)' = SecretOf(c) /\ Reply(c)' = NoReply
    BY <2>1, <2>2, <2>3 DEF SecretOf, Reply, NoReply
  <2>5. QED
    BY <2>1, <2>2, <2>3, <2>4 DEF Returns
<1>14. QED
  BY <1>2, <1>3, <1>4, <1>5, <1>6, <1>7, <1>9, <1>10, <1>11, <1>12, <1>13
  DEF ClientStep, UserStep

-----------------------------------------------------------------------------
(* What the server shows                                                   *)

(* A step of the server that the ledger does not see, as far as d goes.    *)
Kept(d) ==
    /\ Status(d)' = Status(d) /\ Reply(d)' = Reply(d)
    /\ SecretOf(d)' = SecretOf(d)
    /\ Status(d) = "answered" => Answer(d)'.outcome = Answer(d).outcome

LEMMA ServerKeeps ==
    ASSUME TypeOK, CalmInv, ServerStep \/ SrvSignal, UNCHANGED clientVars,
           srv' = "post" => srv = "post"
    PROVE  /\ list' = list /\ drawn' = drawn /\ shared'.secret = shared.secret
           /\ \A d \in Clients : Kept(d)
           /\ srv = "done" => srv' = "done"
<1> USE DEF TypeOK, SharedTypeOK, ServerTypeOK
<1>1. pc' = pc /\ data' = data /\ con' = con /\ call' = call
  BY DEF clientVars
<1>2. ASSUME NEW d \in Clients, Status(d)' = Status(d), UNCHANGED shared
      PROVE  Kept(d)
  <2>1. Answer(d)' = Answer(d)
    BY <1>1, <1>2 DEF Answer
  <2>2. QED
    BY <1>1, <1>2, <2>1 DEF Kept, Reply, SecretOf
<1>3. ASSUME UNCHANGED <<readBack_lock, shared>>, srv # "post", srv' # "post"
      PROVE  \A d \in Clients : Kept(d)
  BY <1>1, <1>2, <1>3 DEF Status, Awaiting, Executed
<1>4. CASE SrvLoop \/ SrvWait \/ SrvWake
  BY <1>3, <1>4 DEF SrvLoop, SrvWait, SrvWake, sems
<1>5. CASE SrvLookup
  <2>1. UNCHANGED <<readBack_lock, shared, list, drawn>> /\ srv = "lookup"
        /\ srv' # "post"
    BY <1>5 DEF SrvLookup, Refused, sems
  <2>2. QED
    BY <1>3, <2>1
<1>6. ~ (\/ DispatchConnect \/ DispatchDisconnect \/ DispatchGetBalance
         \/ DispatchWithdraw \/ DispatchDeposit \/ DispatchTransfer)
  BY DEF DispatchConnect, DispatchDisconnect, DispatchGetBalance,
         DispatchWithdraw, DispatchDeposit, DispatchTransfer, Handle
<1>7. CASE SrvPost
  <2>1. /\ srv = "post" /\ srv' = "loop" /\ readBack_lock' > 0
        /\ UNCHANGED <<shared, list, drawn>>
    BY <1>7 DEF SrvPost
  <2>2. \A d \in Clients : Status(d)' = Status(d)
    BY <1>1, <2>1 DEF Status, Awaiting, Executed
  <2>3. QED
    BY <1>2, <2>1, <2>2
<1>8. CASE SrvSave
  BY <1>3, <1>8 DEF SrvSave, sems
<1>9. CASE SrvClose
  <2>1. /\ srv = "close" /\ srv' = "done"
        /\ UNCHANGED <<readBack_lock, list, drawn>>
        /\ shared' = [shared EXCEPT !.action = "CLOSED"]
    BY <1>9 DEF SrvClose, sems
  <2>2. \A d \in Clients :
          /\ Status(d)' = Status(d)
          /\ Answer(d)'.outcome = Answer(d).outcome
          /\ Answer(d)'.data = Answer(d).data
          /\ Answer(d)'.secret = Answer(d).secret
    BY <1>1, <2>1 DEF Status, Answer, Awaiting, Executed, BankMgrData
  <2>3. \A d \in Clients : Kept(d)
    BY <1>1, <2>2 DEF Kept, Reply, SecretOf
  <2>4. QED
    BY <2>1, <2>3 DEF BankMgrData
<1>10. CASE SrvSignal
  <2>1. UNCHANGED <<readBack_lock, shared, list, drawn, srv>>
    BY <1>10 DEF SrvSignal, sems
  <2>2. \A d \in Clients : Status(d)' = Status(d)
    BY <1>1, <2>1 DEF Status, Awaiting, Executed
  <2>3. QED
    BY <1>2, <2>1, <2>2
<1>11. QED
  BY <1>4, <1>5, <1>6, <1>7, <1>8, <1>9, <1>10 DEF ServerStep

(* The server answers c: its request is in the shared memory, nobody else  *)
(* is concerned, and the balances change as c will be told.                *)
AnswersTo(c) ==
    /\ c \in Clients /\ Awaiting(c) /\ srv' = "post"
    /\ Status(c) = "asked" /\ Status(c)' = "answered" /\ Answer(c)' = shared'
    /\ shared = Message(con[c], call[c])
    /\ RoundOf(c) /\ RoundOf(c)'
    /\ UNCHANGED <<pc, con, call>>
    /\ \A d \in Clients \ {c} : Kept(d) /\ Status(d) # "answered"
    /\ Balances' = IF shared'.outcome
                     THEN Effect(Balances, con[c].accountNR, call[c])
                     ELSE Balances

LEMMA ServerAnswers ==
    ASSUME TypeOK, CalmInv, RoundInv, RoundInv', ServerStep,
           UNCHANGED <<clientVars, books>>, srv' = "post"
    PROVE  \E c \in Clients : AnswersTo(c)
<1>1. srv \in {"lookup", "connect", "execute"}
  BY DEF ServerStep, SrvLoop, SrvWait, SrvWake, SrvLookup, DispatchConnect,
         DispatchDisconnect, DispatchGetBalance, DispatchWithdraw,
         DispatchDeposit, DispatchTransfer, Handle, SrvPost, SrvSave, SrvClose
<1>2. PICK c \in Clients :
        /\ Awaiting(c)
        /\ Status(c) = "asked"
        /\ shared = Message(con[c], call[c])
        /\ RoundOf(c)
        /\ readBack_lock = 0
        /\ \A d \in Clients \ {c} : ~ InSection(d)
        /\ Balances = books
  BY <1>1, Served
<1>3. pc' = pc /\ data' = data /\ con' = con /\ call' = call
  BY DEF clientVars
<1>4. Awaiting(c)' /\ Status(c)' = "answered" /\ Answer(c)' = shared'
  BY <1>2, <1>3 DEF Awaiting, Status, Executed, Answer
<1>5. \A d \in Clients \ {c} : Kept(d) /\ Status(d) # "answered"
  BY <1>2, <1>3 DEF InSection, Status, Awaiting, Kept, Reply, SecretOf
<1>6. \A d \in Clients \ {c} : ~ Owed(d)'
  BY <1>2, OthersUnserved
<1>7. RoundOf(c)' /\ (Owed(c)' <=> shared'.outcome)
  BY <1>4 DEF RoundInv, Owed
<1>8. Balances' = IF shared'.outcome
                    THEN Effect(books, con[c].accountNR, call[c]) ELSE books
  <2>1. (\A d \in Clients : ~ Owed(d)') => Balances' = books
    BY DEF RoundInv, BooksInv
  <2>2. Owed(c)' => Balances' = Effect(books, con[c].accountNR, call[c])
    BY <1>3 DEF RoundInv, BooksInv
  <2>3. QED
    BY <1>6, <1>7, <2>1, <2>2
<1>9. QED
  BY <1>2, <1>3, <1>4, <1>5, <1>7, <1>8 DEF AnswersTo

(* What the bank needs to grant the request of c.                          *)
Grantable(c) ==
    /\ con[c].accountNR \in Known
    /\ call[c].action # "CONNECT" =>
         con[c].secret = list[con[c].accountNR].secret /\ call[c].money >= 0
    /\ call[c].action \in {"WITHDRAW", "TRANSFER"} =>
         Wrap(list[con[c].accountNR].balance - call[c].money) >= 0
    /\ call[c].action = "TRANSFER" => call[c].other \in Known

Denied(c) ==
    /\ ~ Grantable(c)
    /\ ~ shared'.outcome
    /\ list' = list /\ drawn' = drawn /\ shared'.secret = shared.secret

(* Connecting draws a secret, disconnecting forgets it.                    *)
Granted(c) ==
    /\ Grantable(c)
    /\ shared'.outcome
    /\ \A a \in Known \ {con[c].accountNR} : list'[a].secret = list[a].secret
    /\ CASE call[c].action = "CONNECT" ->
              /\ drawn' = drawn + 1
              /\ list'[con[c].accountNR].secret = drawn'
              /\ shared'.secret = drawn'
         [] call[c].action = "DISCONNECT" ->
              /\ drawn' = drawn
              /\ list'[con[c].accountNR].secret = LoggedOut
              /\ shared'.secret = shared.secret
         [] OTHER ->
              /\ drawn' = drawn
              /\ list'[con[c].accountNR].secret = list[con[c].accountNR].secret
              /\ shared'.secret = shared.secret

LEMMA CreditKeepsSecrets ==
    ASSUME NEW l \in [Known -> [balance : Int32, secret : Int]],
           NEW a \in Known, NEW m \in Int32, NEW x \in Known
    PROVE  /\ Debit(l, a, m)[x].secret = l[x].secret
           /\ Credit(l, a, m)[x].secret = l[x].secret
  BY DEF Debit, Credit

(* Every answer denies or grants, by the rules of Grantable.               *)
LEMMA Decision ==
    ASSUME TypeOK, AuthorisedInv, ServerStep, NEW c, AnswersTo(c)
    PROVE  Denied(c) \/ Granted(c)
<1> DEFINE Records == [balance : Int32, secret : Int]
           nr == con[c].accountNR
<1> USE DEF TypeOK, SharedTypeOK, ServerTypeOK
<1>1. /\ shared.action = call[c].action /\ shared.accountNr = nr
      /\ shared.secret = con[c].secret /\ shared.otherAcc = call[c].other
      /\ shared.data = call[c].money
  BY DEF AnswersTo, Message
<1>2. /\ shared \in BankMgrData /\ shared.data \in Int32 /\ cur \in Known
      /\ list \in [Known -> Records] /\ srv' = "post"
  BY DEF BankMgrData, AnswersTo
<1>3. ~ (SrvLoop \/ SrvWait \/ SrvWake \/ SrvPost \/ SrvSave \/ SrvClose)
  BY <1>2 DEF SrvLoop, SrvWait, SrvWake, SrvPost, SrvSave, SrvClose
<1>4. srv \in {"connect", "execute"} =>
        cur = nr /\ (srv = "connect" <=> call[c].action = "CONNECT")
  BY DEF AnswersTo, RoundOf
<1>5. srv = "execute" => con[c].secret = list[nr].secret /\ call[c].money >= 0
  BY <1>1, <1>4 DEF AuthorisedInv, Authorised
<1>6. CASE SrvLookup
  <2>1. /\ shared' = [shared EXCEPT !.outcome = FALSE]
        /\ list' = list /\ drawn' = drawn
        /\ \/ shared.accountNr \notin Known
           \/ /\ shared.action # "CONNECT"
              /\ ~ Authorised(list[shared.accountNr])
    BY <1>2, <1>6 DEF SrvLookup, Refused
  <2>2. ~ Grantable(c)
    BY <1>1, <2>1 DEF Grantable, Authorised
  <2>3. QED
    BY <1>2, <2>1, <2>2 DEF Denied, BankMgrData
<1>7. CASE DispatchConnect
  <2>1. /\ drawn' = drawn + 1
        /\ list' = [list EXCEPT ![cur].secret = drawn']
        /\ shared' = [shared EXCEPT !.secret = drawn', !.outcome = TRUE]
        /\ call[c].action = "CONNECT" /\ cur = nr
    BY <1>1, <1>4, <1>7 DEF DispatchConnect
  <2>2. /\ shared'.outcome /\ shared'.secret = drawn'
        /\ list'[nr].secret = drawn'
        /\ \A a \in Known \ {nr} : list'[a].secret = list[a].secret
    BY <1>2, <2>1 DEF BankMgrData
  <2>3. QED
    BY <1>2, <2>1, <2>2 DEF Granted, Grantable
<1>8. ASSUME srv = "execute", call[c].action # "CONNECT"
      PROVE  cur = nr /\ con[c].secret = list[nr].secret /\ call[c].money >= 0
  BY <1>4, <1>5, <1>8
<1>9. CASE DispatchDisconnect
  <2>1. /\ drawn' = drawn
        /\ list' = [list EXCEPT ![cur].secret = LoggedOut]
        /\ shared' = [shared EXCEPT !.outcome = TRUE]
        /\ call[c].action = "DISCONNECT" /\ srv = "execute"
    BY <1>1, <1>9 DEF DispatchDisconnect, Handle, Done
  <2>2. /\ shared'.outcome /\ shared'.secret = shared.secret
        /\ list'[cur].secret = LoggedOut
        /\ \A a \in Known \ {cur} : list'[a].secret = list[a].secret
    BY <1>2, <2>1 DEF BankMgrData
  <2>3. QED
    BY <1>2, <1>8, <2>1, <2>2 DEF Granted, Grantable
<1>10. ASSUME call[c].action \notin {"CONNECT", "DISCONNECT"}, drawn' = drawn,
              srv = "execute", Grantable(c),
              shared'.outcome, shared'.secret = shared.secret,
              \A a \in Known : list'[a].secret = list[a].secret
       PROVE  Granted(c)
  BY <1>2, <1>8, <1>10 DEF Granted, Grantable
<1>11. CASE DispatchGetBalance
  <2>1. /\ drawn' = drawn /\ list' = list
        /\ shared' = [shared EXCEPT !.data = list[cur].balance, !.outcome = TRUE]
        /\ call[c].action = "GET_BALANCE" /\ srv = "execute"
    BY <1>1, <1>11 DEF DispatchGetBalance, Handle
  <2>2. shared'.outcome /\ shared'.secret = shared.secret
    BY <1>2, <2>1 DEF BankMgrData
  <2>3. Grantable(c)
    BY <1>2, <1>8, <2>1 DEF Grantable
  <2>4. QED
    BY <1>10, <2>1, <2>2, <2>3
<1>12. ASSUME Done(TRUE) PROVE shared'.outcome /\ shared'.secret = shared.secret
  BY <1>2, <1>12 DEF Done, BankMgrData
<1>13. ASSUME Done(FALSE), list' = list, drawn' = drawn, ~ Grantable(c)
       PROVE  Denied(c)
  BY <1>2, <1>13 DEF Done, BankMgrData, Denied
<1>14. CASE DispatchWithdraw
  <2>1. /\ drawn' = drawn /\ call[c].action = "WITHDRAW" /\ srv = "execute"
        /\ cur = nr
    BY <1>1, <1>8, <1>14 DEF DispatchWithdraw, Handle
  <2>2. CASE Covered
    <3>1. Done(TRUE) /\ list' = Debit(list, cur, shared.data)
      BY <1>14, <2>2 DEF DispatchWithdraw
    <3>2. \A a \in Known : list'[a].secret = list[a].secret
      BY <1>2, <3>1, CreditKeepsSecrets
    <3>3. Grantable(c)
      BY <1>1, <1>2, <1>8, <2>1, <2>2 DEF Grantable, Covered
    <3>4. QED
      BY <1>10, <1>12, <2>1, <3>1, <3>2, <3>3
  <2>3. CASE ~ Covered
    <3>1. Done(FALSE) /\ list' = list
      BY <1>14, <2>3 DEF DispatchWithdraw
    <3>2. ~ Grantable(c)
      BY <1>1, <2>1, <2>3 DEF Grantable, Covered
    <3>3. QED
      BY <1>13, <2>1, <3>1, <3>2
  <2>4. QED
    BY <2>2, <2>3
<1>15. CASE DispatchDeposit
  <2>1. /\ drawn' = drawn /\ call[c].action = "DEPOSIT" /\ srv = "execute"
        /\ Done(TRUE) /\ list' = Credit(list, cur, shared.data)
    BY <1>1, <1>15 DEF DispatchDeposit, Handle
  <2>2. \A a \in Known : list'[a].secret = list[a].secret
    BY <1>2, <2>1, CreditKeepsSecrets
  <2>3. Grantable(c)
    BY <1>2, <1>8, <2>1 DEF Grantable
  <2>4. QED
    BY <1>10, <1>12, <2>1, <2>2, <2>3
<1>16. CASE DispatchTransfer
  <2>1. /\ drawn' = drawn /\ call[c].action = "TRANSFER" /\ srv = "execute"
        /\ cur = nr
    BY <1>1, <1>8, <1>16 DEF DispatchTransfer, Handle
  <2>2. CASE shared.otherAcc \in Known /\ Covered
    <3> DEFINE debited == Debit(list, cur, shared.data)
    <3>1. /\ Done(TRUE)
          /\ list' = Credit(debited, shared.otherAcc, shared.data)
      BY <1>16, <2>2 DEF DispatchTransfer
    <3>2. debited \in [Known -> Records]
      BY <1>2, DebitCredit
    <3>3. \A a \in Known : debited[a].secret = list[a].secret
      BY <1>2, CreditKeepsSecrets
    <3>4. \A a \in Known : list'[a].secret = debited[a].secret
      <4> HIDE DEF debited
      <4>1. QED
        BY <1>2, <2>2, <3>1, <3>2, CreditKeepsSecrets
    <3>5. Grantable(c)
      BY <1>1, <1>2, <1>8, <2>1, <2>2 DEF Grantable, Covered
    <3>6. QED
      BY <1>10, <1>12, <2>1, <3>1, <3>3, <3>4, <3>5
  <2>3. CASE ~ (shared.otherAcc \in Known /\ Covered)
    <3>1. Done(FALSE) /\ list' = list
      BY <1>16, <2>3 DEF DispatchTransfer
    <3>2. ~ Grantable(c)
      BY <1>1, <2>1, <2>3 DEF Grantable, Covered
    <3>3. QED
      BY <1>13, <2>1, <3>1, <3>2
  <2>4. QED
    BY <2>2, <2>3
<1>17. QED
  BY <1>3, <1>6, <1>7, <1>9, <1>11, <1>14, <1>15, <1>16 DEF ServerStep

-----------------------------------------------------------------------------
(* Secrets and sessions                                                    *)

LEMMA SessionInit == Init => SessionInv
<1> SUFFICES ASSUME Init PROVE SessionInv
  OBVIOUS
<1>1. PICK g \in Garbage : list = OpeningList(g)
  BY DEF Init, ServerInit
<1>2. \A a \in Known : list[a].secret \in {-1, -9}
  BY <1>1 DEF OpeningList, LoggedOut, DummySecret
<1>3. \A c \in Clients : /\ con[c].secret = 0 /\ data[c].secret = 0
                         /\ pc[c] = "lock" /\ call[c].action = "CONNECT"
  BY DEF Init, ClientInit, Message, Simple
<1>4. SecretInv
  BY <1>2, <1>3 DEF SecretInv, Init, SharedInit, ZeroedShm, ServerInit
<1>5. AuthorisedInv
  BY DEF Init, ServerInit, AuthorisedInv
<1>6. FarewellInv
  BY <1>3 DEF FarewellInv, Status, Awaiting
<1>7. HolderInv
  BY <1>2 DEF HolderInv
<1>8. QED
  BY <1>4, <1>5, <1>6, <1>7 DEF SessionInv

LEMMA SecretClientStep ==
    ASSUME TypeOK, SecretInv, NEW c \in Clients, UNCHANGED srvVars,
           ClientStep(c) \/ UserStep(c) \/ ClientSignal(c)
    PROVE  SecretInv'
<1> USE DEF TypeOK, ClientTypeOK
<1>1. drawn' = drawn /\ list' = list
  BY DEF srvVars
<1>2. 0 \in 0 .. drawn
  BY DEF ServerTypeOK
<1>3. ASSUME NEW connection \in {con[c]}, NEW q
      PROVE  Message(connection, q).secret \in 0 .. drawn
  BY <1>3 DEF Message, SecretInv
<1>4. \A d \in Clients \ {c} : con'[d] = con[d] /\ data'[d] = data[d]
  BY ClientFrame
<1>5. ASSUME con'[c].secret \in 0 .. drawn, data'[c].secret \in 0 .. drawn,
             shared'.secret \in 0 .. drawn
      PROVE  SecretInv'
  BY <1>1, <1>4, <1>5 DEF SecretInv
<1>6. /\ con[c].secret \in 0 .. drawn /\ data[c].secret \in 0 .. drawn
      /\ shared.secret \in 0 .. drawn
  BY DEF SecretInv
<1>7. CASE WriteRequest(c) \/ ReadReply(c)
  BY <1>5, <1>6, <1>7 DEF WriteRequest, ReadReply, Step
<1>8. CASE CheckClosed(c)
  <2>1. CASE shared.action = "CLOSED"
    <3>1. /\ data' = [data EXCEPT ![c].outcome = FALSE]
          /\ con' = [con EXCEPT ![c].bankClosed = TRUE]
          /\ shared' = shared
      BY <1>8, <2>1 DEF CheckClosed
    <3>2. data'[c].secret = data[c].secret /\ con'[c].secret = con[c].secret
      BY <3>1 DEF BankMgrData, Connection
    <3>3. QED
      BY <1>5, <1>6, <3>1, <3>2
  <2>2. CASE shared.action # "CLOSED"
    BY <1>5, <1>6, <1>8, <2>2 DEF CheckClosed
  <2>3. QED
    BY <2>1, <2>2
<1>9. CASE Unlock(c)
  <2>1. data'[c].secret = 0 /\ shared' = shared
    BY <1>9 DEF Unlock, ZeroedShm
  <2>2. con'[c].secret \in {con[c].secret, data[c].secret}
    BY <1>9 DEF Unlock, Connection
  <2>3. QED
    BY <1>2, <1>5, <1>6, <2>1, <2>2
<1>10. ASSUME NEW q, Begin(c, q), con' = con, shared' = shared
       PROVE  SecretInv'
  BY <1>3, <1>5, <1>6, <1>10 DEF Begin
<1>11. CASE Command(c) \/ Loop(c)
  <2>1. CASE Command(c)
    BY <1>10, <2>1 DEF Command
  <2>2. CASE Loop(c)
    BY <1>5, <1>6, <1>10, <2>2 DEF Loop
  <2>3. QED
    BY <1>11, <2>1, <2>2
<1>12. CASE \/ LockWait(c) \/ LockWake(c) \/ PostRequest(c) \/ ReplyWait(c)
            \/ ReplyWake(c) \/ Quit(c) \/ OtherKey(c) \/ Newline(c)
            \/ ClientSignal(c)
  BY <1>5, <1>6, <1>12
  DEF LockWait, LockWake, PostRequest, ReplyWait, ReplyWake, Quit, OtherKey,
      Newline, ClientSignal, Step
<1>13. QED
  BY <1>7, <1>8, <1>9, <1>11, <1>12 DEF ClientStep, UserStep

LEMMA AuthorisedClientStep ==
    ASSUME TypeOK, CalmInv, AuthorisedInv, NEW c \in Clients,
           UNCHANGED srvVars,
           ClientStep(c) \/ UserStep(c) \/ ClientSignal(c)
    PROVE  AuthorisedInv'
<1>1. CASE WriteRequest(c)
  BY <1>1, QuietBeforePost
  DEF WriteRequest, Step, InSection, Awaiting, Serving, AuthorisedInv, srvVars
<1>2. CASE ~ WriteRequest(c)
  <2>1. UNCHANGED shared
    BY <1>2
    DEF ClientStep, LockWait, LockWake, CheckClosed, PostRequest, ReplyWait,
        ReplyWake, ReadReply, Unlock, Loop, UserStep, Command, Quit,
        OtherKey, Newline, ClientSignal
  <2>2. QED
    BY <2>1 DEF AuthorisedInv, Authorised, srvVars
<1>3. QED
  BY <1>1, <1>2

LEMMA SessionClientStep ==
    ASSUME TypeOK, CalmInv, ActionInv, RoundInv, SessionInv,
           NEW c \in Clients, UNCHANGED srvVars,
           ClientStep(c) \/ UserStep(c) \/ ClientSignal(c)
    PROVE  SessionInv'
<1> USE DEF SessionInv
<1>1. SecretInv' /\ AuthorisedInv'
  BY SecretClientStep, AuthorisedClientStep
<1>2. list' = list /\ srv' = srv
  BY DEF srvVars
<1>3. Unseen(c) \/ Asks(c) \/ FindsClosed(c) \/ Returns(c)
  BY OwnView DEF RoundInv
<1>4. con'[c].accountNR = con[c].accountNR
  BY <1>3 DEF Unseen, Asks, FindsClosed, Returns, AccountOf
<1>5. \A d \in Clients \ {c} :
        /\ pc'[d] = pc[d] /\ con'[d] = con[d] /\ call'[d] = call[d]
        /\ Status(d)' = Status(d) /\ SecretOf(d)' = SecretOf(d)
        /\ Status(d) = "answered" => Answer(d)' = Answer(d)
  BY ClientFrame, OthersKeepView
<1>6. SecretOf(c)' = SecretOf(c)
  BY <1>3 DEF Unseen, Asks, FindsClosed, Returns
<1>7. FarewellInv'
  <2>1. ASSUME NEW d \in Clients \ {c}
        PROVE  /\ call'[d].action = "DISCONNECT" => call'[d].money = 0
               /\ /\ Status(d)' = "answered" /\ srv' # "done"
                  /\ con'[d].accountNR \in Known
                  => /\ call'[d].action = "CONNECT" => Answer(d)'.outcome
                     /\ call'[d].action = "DISCONNECT" =>
                          con'[d].secret # list'[con'[d].accountNR].secret
    BY <1>2, <1>5, <2>1 DEF FarewellInv
  <2>2. CASE Unseen(c)
    BY <1>2, <2>1, <2>2 DEF FarewellInv, Unseen
  <2>3. CASE Asks(c)
    <3>1. PICK q \in Call : /\ call' = [call EXCEPT ![c] = q]
                            /\ q.action = "DISCONNECT" => q.money = 0
      BY <2>3 DEF Asks
    <3>2. call'[c] = q
      BY <3>1 DEF TypeOK, ClientTypeOK
    <3>3. QED
      BY <2>1, <2>3, <3>1, <3>2 DEF FarewellInv, Asks
  <2>4. CASE FindsClosed(c)
    BY <1>2, <2>1, <2>4 DEF FarewellInv, FindsClosed
  <2>5. CASE Returns(c)
    BY <1>2, <2>1, <2>5 DEF FarewellInv, Returns
  <2>6. QED
    BY <1>3, <2>2, <2>3, <2>4, <2>5
<1>8. HolderInv'
  <2>1. SUFFICES ASSUME srv # "done", NEW a \in Known, list[a].secret > 0
                 PROVE  \E d \in Clients : /\ con'[d].accountNR = a
                                           /\ SecretOf(d)' = list[a].secret
                                           /\ pc'[d] # "done"
    BY <1>2 DEF HolderInv, Session
  <2>2. PICK d \in Clients : /\ con[d].accountNR = a
                             /\ SecretOf(d) = list[a].secret
                             /\ pc[d] # "done"
    BY <2>1 DEF HolderInv, Session
  <2>3. CASE d # c
    BY <1>5, <2>2, <2>3
  <2>4. CASE d = c
    <3>1. pc'[c] # "done"
      <4>1. CASE Unseen(c) \/ Asks(c)
        BY <4>1 DEF Unseen, Asks
      <4>2. ~ FindsClosed(c)
        BY <2>1 DEF FindsClosed
      <4>3. CASE Returns(c)
        <5>1. /\ call[c].action = "CONNECT" => Answer(c).outcome
              /\ call[c].action = "DISCONNECT" => con[c].secret # list[a].secret
          BY <2>1, <2>2, <2>4, <4>3 DEF FarewellInv, Returns
        <5>2. call[c].action = "DISCONNECT" => SecretOf(c) = con[c].secret
          BY DEF SecretOf
        <5>3. QED
          BY <2>2, <2>4, <4>3, <5>1, <5>2 DEF Returns
      <4>4. QED
        BY <1>3, <4>1, <4>2, <4>3
    <3>2. QED
      BY <1>4, <1>6, <2>2, <2>4, <3>1
  <2>5. QED
    BY <2>3, <2>4
<1>9. QED
  BY <1>1, <1>7, <1>8

LEMMA AuthorisedServerStep ==
    ASSUME AuthorisedInv, ServerStep \/ SrvSignal
    PROVE  AuthorisedInv'
<1>1. CASE SrvLookup
  <2>1. SUFFICES ASSUME srv' = "execute" PROVE Authorised(list[cur])'
    BY DEF AuthorisedInv
  <2>2. /\ cur' = shared.accountNr /\ Authorised(list[shared.accountNr])
        /\ UNCHANGED <<shared, list>>
    BY <1>1, <2>1 DEF SrvLookup, Refused
  <2>3. QED
    BY <2>2 DEF Authorised
<1>2. CASE SrvSignal
  BY <1>2 DEF SrvSignal, AuthorisedInv, Authorised
<1>3. CASE ~ SrvLookup /\ ~ SrvSignal
  BY <1>3
  DEF ServerStep, SrvLoop, SrvWait, SrvWake, DispatchConnect,
      DispatchDisconnect, DispatchGetBalance, DispatchWithdraw,
      DispatchDeposit, DispatchTransfer, Handle, SrvPost, SrvSave,
      SrvClose, AuthorisedInv
<1>4. QED
  BY <1>1, <1>2, <1>3

(* What the ledger calls a session changes only with a granted CONNECT or  *)
(* DISCONNECT, and for the account that it names.                          *)
LEMMA AnswerSecrets ==
    ASSUME TypeOK, SecretInv, NEW c, AnswersTo(c), Denied(c) \/ Granted(c)
    PROVE  /\ \A d \in Clients \ {c} : SecretOf(d)' = SecretOf(d)
           /\ SecretOf(c) = con[c].secret
           /\ SecretOf(c)' = IF Granted(c) /\ call[c].action = "CONNECT"
                               THEN drawn' ELSE con[c].secret
<1>1. shared.secret = con[c].secret
  BY DEF AnswersTo, Message
<1>2. /\ Status(c) = "asked" /\ Status(c)' = "answered"
      /\ Answer(c)' = shared' /\ con' = con /\ call' = call
  BY DEF AnswersTo
<1>3. SecretOf(c) = con[c].secret
  BY <1>2 DEF SecretOf
<1>4. SecretOf(c)' = IF call[c].action = "CONNECT" THEN shared'.secret
                                                   ELSE con[c].secret
  BY <1>2 DEF SecretOf
<1>5. Denied(c) => ~ Granted(c) /\ shared'.secret = con[c].secret
  BY <1>1 DEF Denied, Granted
<1>6. Granted(c) /\ call[c].action = "CONNECT" => shared'.secret = drawn'
  BY DEF Granted
<1>7. QED
  BY <1>3, <1>4, <1>5, <1>6 DEF AnswersTo, Kept

LEMMA SessionServerStep ==
    ASSUME TypeOK, TypeOK', CalmInv, RoundInv, RoundInv', SessionInv,
           ServerStep \/ SrvSignal, UNCHANGED <<clientVars, books>>
    PROVE  SessionInv'
<1> USE DEF SessionInv
<1>0. pc' = pc /\ data' = data /\ con' = con /\ call' = call
  BY DEF clientVars
<1>1. AuthorisedInv'
  BY AuthorisedServerStep
<1>2. CASE srv' = "post" => srv = "post"
  <2>1. /\ list' = list /\ drawn' = drawn /\ shared'.secret = shared.secret
        /\ \A d \in Clients : Kept(d)
        /\ srv = "done" => srv' = "done"
    BY <1>2, ServerKeeps
  <2>2. SecretInv'
    BY <1>0, <2>1 DEF SecretInv
  <2>3. FarewellInv'
    BY <1>0, <2>1 DEF FarewellInv, Kept
  <2>4. HolderInv'
    BY <1>0, <2>1 DEF HolderInv, Session, Kept
  <2>5. QED
    BY <1>1, <2>2, <2>3, <2>4
<1>3. CASE srv' = "post" /\ srv # "post"
  <2>1. ServerStep
    BY <1>3 DEF SrvSignal
  <2>2. PICK c \in Clients : AnswersTo(c)
    BY <1>3, <2>1, ServerAnswers
  <2>3. Denied(c) \/ Granted(c)
    BY <2>1, <2>2, Decision
  <2>4. /\ \A d \in Clients \ {c} : SecretOf(d)' = SecretOf(d)
        /\ SecretOf(c) = con[c].secret
        /\ SecretOf(c)' = IF Granted(c) /\ call[c].action = "CONNECT"
                            THEN drawn' ELSE con[c].secret
    BY <2>2, <2>3, AnswerSecrets
  <2> DEFINE nr == con[c].accountNR
  <2>5. drawn \in Nat /\ con[c].secret \in 0 .. drawn
    BY <2>2 DEF SecretInv, TypeOK, ServerTypeOK
  <2>6. SecretInv'
    <3>1. CASE Denied(c)
      BY <1>0, <3>1 DEF SecretInv, Denied
    <3>2. CASE Granted(c)
      <4>1. drawn' \in {drawn, drawn + 1} /\ shared'.secret \in 0 .. drawn'
        BY <2>5, <3>2 DEF Granted, SecretInv
      <4>2. ASSUME NEW a \in Known
            PROVE  list'[a].secret < 0 \/ list'[a].secret \in 1 .. drawn'
        <5>1. list[a].secret < 0 \/ list[a].secret \in 1 .. drawn
          BY DEF SecretInv
        <5>2. \/ list'[a].secret = list[a].secret
              \/ list'[a].secret = LoggedOut
              \/ list'[a].secret = drawn' /\ drawn' = drawn + 1
          BY <3>2 DEF Granted
        <5>3. QED
          BY <2>5, <4>1, <5>1, <5>2 DEF LoggedOut
      <4>3. \A d \in Clients : /\ con[d].secret \in 0 .. drawn'
                               /\ data[d].secret \in 0 .. drawn'
        BY <2>5, <4>1 DEF SecretInv
      <4>4. QED
        BY <1>0, <4>1, <4>2, <4>3 DEF SecretInv
    <3>3. QED
      BY <2>3, <3>1, <3>2
  <2>7. FarewellInv'
    <3>1. ASSUME NEW d \in Clients \ {c} PROVE Status(d)' # "answered"
      BY <2>2, <3>1 DEF AnswersTo, Kept
    <3>2. call[c].action = "CONNECT" /\ nr \in Known => shared'.outcome
      BY <2>3 DEF Denied, Granted, Grantable
    <3>3. ASSUME call[c].action = "DISCONNECT", nr \in Known
          PROVE  con[c].secret # list'[nr].secret
      <4>1. CASE Denied(c)
        BY <2>2, <3>3, <4>1 DEF Denied, Grantable, FarewellInv
      <4>2. CASE Granted(c)
        BY <2>5, <3>3, <4>2 DEF Granted, LoggedOut
      <4>3. QED
        BY <2>3, <4>1, <4>2
    <3>4. Answer(c)' = shared'
      BY <2>2 DEF AnswersTo
    <3>5. QED
      BY <1>0, <3>1, <3>2, <3>3, <3>4 DEF FarewellInv
  <2>8. HolderInv'
    <3>1. SUFFICES ASSUME NEW a \in Known, list'[a].secret > 0
                   PROVE  \E d \in Clients : /\ con[d].accountNR = a
                                             /\ SecretOf(d)' = list'[a].secret
                                             /\ pc[d] # "done"
      BY <1>0 DEF HolderInv, Session
    <3>2. CASE Granted(c) /\ call[c].action = "CONNECT" /\ a = nr
      <4>1. SecretOf(c)' = list'[a].secret
        BY <2>4, <3>2 DEF Granted
      <4>2. pc[c] # "done"
        BY <2>2 DEF AnswersTo, Awaiting
      <4>3. QED
        BY <3>2, <4>1, <4>2
    <3>3. CASE ~ (Granted(c) /\ call[c].action = "CONNECT" /\ a = nr)
      <4>1. list'[a].secret = list[a].secret
        BY <2>3, <3>1, <3>3 DEF Denied, Granted, LoggedOut
      <4>2. PICK d \in Clients : /\ con[d].accountNR = a
                                 /\ SecretOf(d) = list[a].secret
                                 /\ pc[d] # "done"
        BY <1>3, <3>1, <4>1 DEF HolderInv, Session, ServerStep, SrvLoop,
           SrvWait, SrvWake, SrvLookup, DispatchConnect, DispatchDisconnect,
           DispatchGetBalance, DispatchWithdraw, DispatchDeposit,
           DispatchTransfer, Handle, SrvPost, SrvSave, SrvClose, SrvSignal
      <4>3. SecretOf(d)' = SecretOf(d)
        BY <2>4, <3>3, <4>2
      <4>4. QED
        BY <4>1, <4>2, <4>3
    <3>4. QED
      BY <3>2, <3>3
  <2>9. QED
    BY <1>1, <2>6, <2>7, <2>8
<1>4. QED
  BY <1>2, <1>3

LEMMA CalmSession ==
    CalmSpec => [](TypeOK /\ CalmInv /\ RoundInv /\ ActionInv /\ SessionInv)
<1>1. Init => ActionInv /\ SessionInv
  BY ActionInductive, SessionInit
<1>2. [CalmNext \/ Finished]_vars => [Next \/ Finished]_vars
  BY DEF Next
<1>3. /\ TypeOK /\ CalmInv /\ RoundInv /\ ActionInv /\ SessionInv
      /\ (TypeOK /\ CalmInv /\ RoundInv)' /\ [CalmNext \/ Finished]_vars
      => ActionInv' /\ SessionInv'
  <2>1. ASSUME TypeOK, CalmInv, RoundInv, ActionInv, SessionInv,
               TypeOK', CalmInv', RoundInv', [CalmNext \/ Finished]_vars
        PROVE  SessionInv'
    <3>1. CASE (ServerStep \/ SrvSignal) /\ UNCHANGED <<clientVars, books>>
      BY <2>1, <3>1, SessionServerStep
    <3>2. ASSUME NEW c \in Clients, UNCHANGED srvVars,
                 ClientStep(c) \/ UserStep(c) \/ ClientSignal(c)
          PROVE  SessionInv'
      BY <2>1, <3>2, SessionClientStep
    <3>3. CASE UNCHANGED vars
      BY <2>1, <3>3
      DEF SessionInv, SecretInv, AuthorisedInv, Authorised, FarewellInv,
          HolderInv, Session, SecretOf, Status, Answer, Awaiting, Executed,
          vars, sems, srvVars, clientVars
    <3>4. QED
      BY <2>1, <3>1, <3>2, <3>3 DEF CalmNext, Finished
  <2>2. QED
    BY <1>2, <2>1, ActionInductive
<1>4. QED
  BY CalmRound, <1>1, <1>3, PTL DEF CalmSpec

(* No session outlives its client: whoever is logged in at a running bank  *)
(* will disconnect, or the account has another client's session by then.   *)
THEOREM CalmNoOrphans == CalmSpec => []NoOrphanSession
<1>1. HolderInv => NoOrphanSession
  BY DEF HolderInv, Session, SecretOf, NoOrphanSession
<1>2. SessionInv => HolderInv
  BY DEF SessionInv
<1>3. QED
  BY CalmSession, <1>1, <1>2, PTL

-----------------------------------------------------------------------------
(* The ledger as the bank shows it                                         *)

LEMMA LedgerInit == Init => Ledger!Init
<1> SUFFICES ASSUME Init PROVE Ledger!Init
  OBVIOUS
<1>1. PICK g \in Garbage : list = OpeningList(g)
  BY DEF Init, ServerInit
<1>2. \A a \in Known : /\ list[a].secret \in {-1, -9}
                       /\ list[a].balance \in Int32
  <2>1. SUFFICES ASSUME NEW a \in Known
                 PROVE  list[a].secret \in {-1, -9} /\ list[a].balance \in Int32
    OBVIOUS
  <2>2. CASE a = 0
    BY <1>1, <2>2, ServerAssumption DEF OpeningList, Known, DummySecret
  <2>3. CASE a # 0
    BY <1>1, <2>1, <2>3, ServerAssumption DEF OpeningList, Known, LoggedOut
  <2>4. QED
    BY <2>2, <2>3
<1>3. PICK nr \in [Clients -> AccountArgs] :
        con = [c \in Clients |-> [accountNR |-> nr[c], secret |-> 0,
                                  bankClosed |-> FALSE]]
  BY DEF Init, ClientInit
<1>4. AccountOf \in [Clients -> AccountArgs]
  BY <1>3 DEF AccountOf
<1>5. call = [c \in Clients |-> Ledger!Connecting]
  BY DEF Init, ClientInit, Simple, Ledger!Connecting
<1>6. \A c \in Clients : /\ pc[c] = "lock" /\ con[c].secret = 0
                         /\ Status(c) = "asked"
  BY <1>3 DEF Init, ClientInit, Status, Awaiting
<1>7. StatusOf = [c \in Clients |-> "asked"]
  BY <1>6 DEF StatusOf
<1>8. ReplyOf = [c \in Clients |-> Ledger!NoReply]
  BY <1>6 DEF ReplyOf, Reply, Ledger!NoReply
<1>9. SessionsOf = [a \in Known |-> {}]
  <2>1. \A a \in Known : Session(a) = {}
    BY <1>2, <1>6 DEF Session, SecretOf
  <2>2. QED
    BY <2>1 DEF SessionsOf
<1>10. Balances \in [Known -> Int32]
  BY <1>2 DEF Balances
<1>11. Open
  BY DEF Open, Init, ServerInit
<1>12. QED
  BY <1>4, <1>5, <1>7, <1>8, <1>9, <1>10, <1>11
  DEF Ledger!Init, Known, Int32, Ledger!Int32

(* The clients ask, return, and refuse themselves when the bank is closed. *)
LEMMA LedgerClientStep ==
    ASSUME TypeOK, CalmInv, ActionInv, RoundInv, NEW c \in Clients,
           UNCHANGED srvVars,
           ClientStep(c) \/ UserStep(c) \/ ClientSignal(c)
    PROVE  [Ledger!Next]_(Ledger!vars)
<1>1. Unseen(c) \/ Asks(c) \/ FindsClosed(c) \/ Returns(c)
  BY OwnView DEF RoundInv
<1>2. \A d \in Clients \ {c} :
        /\ Status(d)' = Status(d) /\ Reply(d)' = Reply(d)
        /\ SecretOf(d)' = SecretOf(d)
  BY OthersKeepView
<1>3. AccountOf' = AccountOf /\ SecretOf(c)' = SecretOf(c)
  BY <1>1 DEF Unseen, Asks, FindsClosed, Returns, AccountOf
<1>4. /\ StatusOf' = [StatusOf EXCEPT ![c] = Status(c)']
      /\ ReplyOf' = [ReplyOf EXCEPT ![c] = Reply(c)']
  BY <1>2 DEF StatusOf, ReplyOf
<1>5. StatusOf[c] = Status(c) /\ ReplyOf[c] = Reply(c)
  BY DEF StatusOf, ReplyOf
<1>6. /\ Open' = Open /\ Balances' = Balances
      /\ \A a \in Known : list'[a].secret = list[a].secret
  BY DEF srvVars, Open, Balances
<1>7. SessionsOf' = SessionsOf
  <2>1. \A d \in Clients : /\ con'[d].accountNR = con[d].accountNR
                           /\ SecretOf(d)' = SecretOf(d)
    <3>1. \A d \in Clients : AccountOf'[d] = con'[d].accountNR
                             /\ AccountOf[d] = con[d].accountNR
      BY DEF AccountOf
    <3>2. QED
      BY <1>2, <1>3, <3>1
  <2>2. \A a \in Known : Session(a)' = Session(a)
    BY <1>6, <2>1 DEF Session
  <2>3. QED
    BY <2>2 DEF SessionsOf
<1>8. StatusOf = [StatusOf EXCEPT ![c] = Status(c)]
      /\ ReplyOf = [ReplyOf EXCEPT ![c] = Reply(c)]
  BY DEF StatusOf, ReplyOf
<1>9. CASE Unseen(c)
  BY <1>3, <1>4, <1>6, <1>7, <1>8, <1>9 DEF Unseen, Ledger!vars
<1>10. CASE Asks(c)
  <2>1. Ledger!Ask(c)
    BY <1>3, <1>4, <1>5, <1>6, <1>7, <1>8, <1>10
    DEF Asks, Ledger!Ask, Call, Ledger!Call, Requests, Ledger!Requests
  <2>2. QED
    BY <2>1 DEF Ledger!Next
<1>11. CASE FindsClosed(c)
  <2>1. Ledger!Refuse(c)
    BY <1>3, <1>4, <1>5, <1>6, <1>7, <1>11
    DEF FindsClosed, NoReply, Open, Ledger!Refuse, Ledger!Answer
  <2>2. QED
    BY <2>1 DEF Ledger!Next
<1>12. CASE Returns(c)
  <2>1. Ledger!Return(c)
    BY <1>3, <1>4, <1>5, <1>6, <1>7, <1>12
    DEF Returns, NoReply, Ledger!Return, Ledger!NoReply
  <2>2. QED
    BY <2>1 DEF Ledger!Next
<1>13. QED
  BY <1>1, <1>9, <1>10, <1>11, <1>12

(* The bank needs the same to grant a request as the ledger does.          *)
LEMMA GrantableServes ==
    ASSUME TypeOK, NEW c \in Clients, SecretOf(c) = con[c].secret
    PROVE  Grantable(c) <=> Ledger!Serves(c)
<1> DEFINE nr == con[c].accountNR
<1>1. AccountOf[c] = nr
  BY DEF AccountOf
<1>2. ASSUME nr \in Known
      PROVE  /\ c \in SessionsOf[nr] <=> con[c].secret = list[nr].secret
             /\ Balances[nr] = list[nr].balance
  BY <1>2 DEF SessionsOf, Session, Balances
<1>3. Ledger!Serves(c) <=>
        /\ nr \in Known
        /\ call[c].action # "CONNECT" =>
             c \in SessionsOf[nr] /\ call[c].money >= 0
        /\ call[c].action \in {"WITHDRAW", "TRANSFER"} =>
             Wrap(Balances[nr] - call[c].money) >= 0
        /\ call[c].action = "TRANSFER" => call[c].other \in Known
  BY <1>1 DEF Ledger!Serves, Known, Wrap, Ledger!Wrap
<1>4. QED
  BY <1>2, <1>3 DEF Grantable

(* Connecting makes c the only one in the session of its account, and      *)
(* disconnecting empties it: a fresh secret is nobody else's, and -1 is    *)
(* nobody's.                                                               *)
LEMMA LedgerSessions ==
    ASSUME TypeOK, SecretInv, NEW c, AnswersTo(c), Denied(c) \/ Granted(c)
    PROVE  SessionsOf' = IF Granted(c)
                           THEN Ledger!Sessions(c, con[c].accountNR, call[c])
                           ELSE SessionsOf
<1> DEFINE nr == con[c].accountNR
<1>1. /\ \A d \in Clients \ {c} : SecretOf(d)' = SecretOf(d)
      /\ SecretOf(c) = con[c].secret
      /\ SecretOf(c)' = IF Granted(c) /\ call[c].action = "CONNECT"
                          THEN drawn' ELSE con[c].secret
  BY AnswerSecrets
<1>2. c \in Clients /\ con' = con
  BY DEF AnswersTo
<1>3. \A d \in Clients : SecretOf(d) \in 0 .. drawn
  BY <1>1 DEF AnswersTo, SecretOf, SecretInv
<1>4. drawn \in Nat
  BY DEF TypeOK, ServerTypeOK
<1>5. ASSUME NEW a \in Known, list'[a].secret = list[a].secret,
             a = nr => SecretOf(c)' = SecretOf(c)
      PROVE  Session(a)' = Session(a)
  BY <1>1, <1>2, <1>5 DEF Session
<1>6. CASE Denied(c)
  <2>1. \A a \in Known : Session(a)' = Session(a)
    BY <1>1, <1>5, <1>6 DEF Denied, Granted
  <2>2. QED
    BY <1>6, <2>1 DEF SessionsOf, Denied, Granted
<1>7. CASE Granted(c)
  <2>1. nr \in Known
    BY <1>7 DEF Granted, Grantable
  <2>2. ASSUME NEW a \in Known
        PROVE  Session(a)' =
                 IF a # nr THEN Session(a)
                 ELSE CASE call[c].action = "CONNECT"    -> {c}
                        [] call[c].action = "DISCONNECT" -> {}
                        [] OTHER                         -> Session(a)
    <3>1. CASE a # nr
      BY <1>5, <1>7, <2>2, <3>1 DEF Granted
    <3>2. CASE a = nr /\ call[c].action = "CONNECT"
      <4>1. list'[a].secret = drawn + 1 /\ SecretOf(c)' = drawn + 1
        BY <1>1, <1>7, <3>2 DEF Granted
      <4>2. \A d \in Clients \ {c} : SecretOf(d)' # drawn + 1
        BY <1>1, <1>3, <1>4
      <4>3. Session(a)' = {c}
        BY <1>2, <3>2, <4>1, <4>2 DEF Session
      <4>4. QED
        BY <3>2, <4>3
    <3>3. CASE a = nr /\ call[c].action = "DISCONNECT"
      <4>1. list'[a].secret = -1
        BY <1>7, <3>3 DEF Granted, LoggedOut
      <4>2. \A d \in Clients : SecretOf(d)' \in 0 .. drawn
        BY <1>1, <1>3, <3>3
      <4>3. \A d \in Clients : SecretOf(d)' # -1
        BY <1>4, <4>2
      <4>4. Session(a)' = {}
        BY <4>1, <4>3 DEF Session
      <4>5. QED
        BY <3>3, <4>4
    <3>4. CASE a = nr /\ call[c].action \notin {"CONNECT", "DISCONNECT"}
      <4>1. Session(a)' = Session(a)
        BY <1>1, <1>5, <1>7, <2>2, <3>4 DEF Granted
      <4>2. QED
        BY <3>4, <4>1
    <3>5. QED
      BY <3>1, <3>2, <3>3, <3>4
  <2>3. SessionsOf' = [a \in Known |-> Session(a)']
    BY DEF SessionsOf
  <2>4. SessionsOf' = [SessionsOf EXCEPT ![nr] =
                         CASE call[c].action = "CONNECT"    -> {c}
                           [] call[c].action = "DISCONNECT" -> {}
                           [] OTHER                         -> SessionsOf[nr]]
    BY <2>1, <2>2, <2>3 DEF SessionsOf
  <2>5. SessionsOf = [SessionsOf EXCEPT ![nr] = SessionsOf[nr]]
    BY DEF SessionsOf
  <2>6. SessionsOf' = Ledger!Sessions(c, nr, call[c])
    BY <2>4, <2>5 DEF Ledger!Sessions
  <2>7. QED
    BY <1>7, <2>6
<1>8. QED
  BY <1>6, <1>7

LEMMA LedgerServerStep ==
    ASSUME TypeOK, CalmInv, RoundInv, RoundInv', SessionInv,
           ServerStep \/ SrvSignal, UNCHANGED <<clientVars, books>>
    PROVE  [Ledger!Next]_(Ledger!vars)
<1>1. con' = con /\ call' = call /\ AccountOf' = AccountOf
  BY DEF clientVars, AccountOf
<1>2. CASE srv' = "post" => srv = "post"
  <2>1. /\ list' = list
        /\ \A d \in Clients : Kept(d)
        /\ srv = "done" => srv' = "done"
    BY <1>2, ServerKeeps
  <2>2. StatusOf' = StatusOf /\ ReplyOf' = ReplyOf
    BY <2>1 DEF StatusOf, ReplyOf, Kept
  <2>3. SessionsOf' = SessionsOf /\ Balances' = Balances
    BY <1>1, <2>1 DEF SessionsOf, Session, Kept, Balances
  <2>4. Open' = Open \/ Ledger!Close
    BY <1>1, <2>1, <2>2, <2>3 DEF Open, Ledger!Close
  <2>5. QED
    BY <1>1, <2>2, <2>3, <2>4 DEF Ledger!Next, Ledger!vars
<1>3. CASE srv' = "post" /\ srv # "post"
  <2>1. ServerStep
    BY <1>3 DEF SrvSignal
  <2>2. PICK c \in Clients : AnswersTo(c)
    BY <1>3, <2>1, ServerAnswers
  <2>3. Denied(c) \/ Granted(c)
    BY <2>1, <2>2, Decision DEF SessionInv
  <2>4. SecretOf(c) = con[c].secret
    BY <2>2, <2>3, AnswerSecrets DEF SessionInv
  <2>5. Grantable(c) <=> Ledger!Serves(c)
    BY <2>4, GrantableServes
  <2>6. SessionsOf' = IF Granted(c)
                        THEN Ledger!Sessions(c, con[c].accountNR, call[c])
                        ELSE SessionsOf
    BY <2>2, <2>3, LedgerSessions DEF SessionInv
  <2>7. StatusOf' = [StatusOf EXCEPT ![c] = "answered"] /\ StatusOf[c] = "asked"
    BY <2>2 DEF AnswersTo, Kept, StatusOf
  <2>8. /\ ReplyOf' = [ReplyOf EXCEPT ![c] = Reply(c)']
        /\ Reply(c)' = [ok |-> shared'.outcome,
                        balance |-> IF /\ shared'.outcome
                                       /\ call[c].action = "GET_BALANCE"
                                      THEN shared'.data ELSE 0]
    BY <1>1, <2>2 DEF AnswersTo, Kept, ReplyOf, Reply
  <2>9. Open /\ Open'
    BY <1>3, <2>1 DEF Open, ServerStep, SrvLoop, SrvWait, SrvWake, SrvLookup,
       DispatchConnect, DispatchDisconnect, DispatchGetBalance,
       DispatchWithdraw, DispatchDeposit, DispatchTransfer, Handle, SrvPost,
       SrvSave, SrvClose
  <2>10. AccountOf[c] = con[c].accountNR
    BY DEF AccountOf
  <2>11. CASE Denied(c)
    <3>1. Balances' = Balances /\ SessionsOf' = SessionsOf
      BY <2>2, <2>6, <2>11 DEF AnswersTo, Denied, Granted
    <3>2. Reply(c)' = [ok |-> FALSE, balance |-> 0]
      <4>1. shared'.outcome = FALSE
        BY <2>11 DEF Denied, AnswersTo, RoundOf
      <4>2. QED
        BY <2>8, <4>1
    <3>3. Ledger!Refuse(c)
      BY <1>1, <2>5, <2>7, <2>8, <2>9, <2>11, <3>1, <3>2
      DEF Denied, Ledger!Refuse, Ledger!Answer
    <3>4. QED
      BY <3>3 DEF Ledger!Next
  <2>12. CASE Granted(c)
    <3> DEFINE nr == con[c].accountNR
    <3>1. Balances' = Ledger!Effect(Balances, nr, call[c])
      BY <2>2, <2>12
      DEF AnswersTo, Granted, Effect, Ledger!Effect, Move, Ledger!Move,
          Wrap, Ledger!Wrap
    <3>2. call[c].action = "GET_BALANCE" => shared'.data = Balances[nr]
      <4>1. SUFFICES ASSUME call[c].action = "GET_BALANCE"
                     PROVE  shared'.data = Balances[nr]
        OBVIOUS
      <4>2. Balances' = Balances
        BY <2>2, <2>12, <4>1 DEF AnswersTo, Granted, Effect
      <4>3. Answer(c)' = shared' /\ Owed(c)'
        BY <2>2, <2>12 DEF AnswersTo, Granted, Owed
      <4>4. shared'.data = list'[nr].balance
        BY <1>1, <2>2, <4>1, <4>3 DEF AnswersTo, RoundOf
      <4>5. Balances'[nr] = list'[nr].balance
        BY <2>12 DEF Balances, Granted, Grantable
      <4>6. QED
        BY <4>2, <4>4, <4>5
    <3>3. Reply(c)' = [ok |-> TRUE,
                       balance |-> IF call[c].action = "GET_BALANCE"
                                     THEN Balances[nr] ELSE 0]
      <4>1. shared'.outcome = TRUE
        BY <2>12 DEF Granted
      <4>2. QED
        BY <2>8, <3>2, <4>1
    <3>4. Ledger!Grant(c)
      BY <1>1, <2>5, <2>6, <2>7, <2>8, <2>9, <2>10, <2>12, <3>1, <3>3
      DEF Granted, Ledger!Grant, Ledger!Answer
    <3>5. QED
      BY <3>4 DEF Ledger!Next
  <2>13. QED
    BY <2>3, <2>11, <2>12
<1>4. QED
  BY <1>2, <1>3

(* Behind its semaphores, shared memory and secrets the bank is a ledger:  *)
(* a request takes effect at once, exactly once, between its call and its  *)
(* return, and its reply is the outcome; an account serves whoever         *)
(* connected last, until they disconnect.                                  *)
THEOREM CalmLedger == CalmSpec => ImplementsLedger
<1>1. /\ TypeOK /\ CalmInv /\ RoundInv /\ ActionInv /\ SessionInv
      /\ (TypeOK /\ CalmInv /\ RoundInv)' /\ [CalmNext \/ Finished]_vars
      => [Ledger!Next]_(Ledger!vars)
  <2>1. SUFFICES ASSUME TypeOK, CalmInv, RoundInv, ActionInv, SessionInv,
                        RoundInv', [CalmNext \/ Finished]_vars
                 PROVE  [Ledger!Next]_(Ledger!vars)
    OBVIOUS
  <2>2. CASE (ServerStep \/ SrvSignal) /\ UNCHANGED <<clientVars, books>>
    BY <2>1, <2>2, LedgerServerStep
  <2>3. ASSUME NEW c \in Clients, UNCHANGED srvVars,
               ClientStep(c) \/ UserStep(c) \/ ClientSignal(c)
        PROVE  [Ledger!Next]_(Ledger!vars)
    BY <2>1, <2>3, LedgerClientStep
  <2>4. CASE UNCHANGED vars
    <3>1. /\ AccountOf' = AccountOf /\ call' = call /\ Open' = Open
          /\ Balances' = Balances
      BY <2>4 DEF vars, srvVars, clientVars, AccountOf, Open, Balances
    <3>2. StatusOf' = StatusOf /\ ReplyOf' = ReplyOf /\ SessionsOf' = SessionsOf
      BY <2>4
      DEF vars, sems, srvVars, clientVars, StatusOf, ReplyOf, SessionsOf,
          Session, SecretOf, Reply, Status, Answer, Awaiting, Executed
    <3>3. QED
      BY <3>1, <3>2 DEF Ledger!vars
  <2>5. QED
    BY <2>1, <2>2, <2>3, <2>4 DEF CalmNext, Finished
<1>2. QED
  BY LedgerInit, CalmSession, <1>1, PTL
  DEF CalmSpec, ImplementsLedger, Ledger!Spec

================================================================================
