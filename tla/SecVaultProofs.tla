---------------------------- MODULE SecVaultProofs -----------------------------
(***************************************************************************)
(* Theorems about the list of vaults for any number of threads, users,     *)
(* numbers and creations, whatever system calls run at the same time.      *)
(***************************************************************************)
EXTENDS SecVault, SequenceTheorems, FiniteSetTheorems, TLAPS

(* The parts of the inductive invariant; SecVault defines them.            *)
Inv == TypeOK /\ CallInv /\ LockInv /\ ListInv /\ DeviceInv

-----------------------------------------------------------------------------
(* Positions of the list                                                   *)

(* The first of some positions is one of them.                             *)
LEMMA FirstIsThere ==
    ASSUME NEW S, S \subseteq Nat, S # {}
    PROVE  First(S) \in S
<1>1. \A j, k \in Nat : <<j, k>> \in OpToRel(<, Nat) <=> j < k
  BY DEF OpToRel
<1>2. PICK R : /\ IsWellFoundedOn(R, Nat)
               /\ \A j, k \in Nat : <<j, k>> \in R <=> j < k
  BY <1>1, NatLessThanWellFounded, Zenon
<1>3. PICK k \in S : \A j \in S : ~ (<<j, k>> \in R)
  <2>1. IsWellFoundedOn(R, Nat) /\ S \subseteq Nat /\ S # {}
    BY <1>2
  <2>2. QED
    BY <2>1, WFMin, Zenon
<1>4. ASSUME NEW j \in S PROVE k <= j
  <2>1. j \in Nat /\ k \in Nat /\ ~ (<<j, k>> \in R)
    BY <1>3
  <2>2. ~ (j < k)
    BY <2>1, <1>2
  <2>3. QED
    BY <2>1, <2>2
<1>5. QED
  BY <1>3, <1>4, Zenon DEF First

(* A vault is in the list once: two positions have two numbers.            *)
LEMMA ListedOnce ==
    ASSUME UniqueIds, NEW j \in 1 .. Len(list), NEW k \in 1 .. Len(list),
           list[j] = list[k]
    PROVE  j = k
  BY DEF UniqueIds

(* Every position has a node of its own, because Root is not a vault.      *)
LEMMA NodeOnce ==
    ASSUME TypeOK, UniqueIds,
           NEW j \in 1 .. Len(list), NEW k \in 1 .. Len(list),
           NodeAt(j) = NodeAt(k)
    PROVE  j = k
<1>1. list[j] \in Vaults /\ list[k] \in Vaults
  BY ElementOfSeq DEF TypeOK
<1>2. list[j] # Root /\ list[k] # Root
  BY <1>1, VaultAssumption DEF Vaults, Root
<1>3. QED
  BY <1>2, ListedOnce DEF NodeAt

LEMMA PositionOf ==
    ASSUME TypeOK, UniqueIds, NEW k \in 1 .. Len(list)
    PROVE  Position(NodeAt(k)) = {k}
<1>1. \A j \in 1 .. Len(list) : list[j] # Root
  BY ElementOfSeq, VaultAssumption DEF TypeOK, Vaults, Root
<1>2. k \in Position(NodeAt(k))
  BY <1>1 DEF Position, NodeAt
<1>3. ASSUME NEW j \in Position(NodeAt(k)) PROVE j = k
  BY <1>1, <1>3, ListedOnce DEF Position, NodeAt
<1>4. QED
  BY <1>2, <1>3

(* The vault of a number is the only one with it.                          *)
LEMMA FirstWithId ==
    ASSUME TypeOK, UniqueIds, NEW k \in 1 .. Len(list)
    PROVE  First(WithId(vault[list[k]].id)) = k
<1>1. WithId(vault[list[k]].id) \subseteq Nat /\ k \in WithId(vault[list[k]].id)
  BY LenProperties DEF TypeOK, WithId
<1>2. First(WithId(vault[list[k]].id)) \in WithId(vault[list[k]].id)
  BY <1>1, FirstIsThere
<1>3. QED
  BY <1>1, <1>2 DEF WithId, UniqueIds

(* Linking after the last node appends, whoever is first.                  *)
LEMMA AppendedIsAppend ==
    ASSUME TypeOK, UniqueIds, NEW n, NEW v,
           n = IF list = << >> THEN Root ELSE NodeAt(Len(list))
    PROVE  Appended(n, v) = Append(list, v)
<1>1. CASE list = << >>
  BY <1>1 DEF Appended
<1>2. CASE list # << >>
  <2>1. Len(list) \in Nat \ {0} /\ SubSeq(list, 1, Len(list)) = list
    BY <1>2, EmptySeq, SubSeqFull DEF TypeOK
  <2>2. Position(n) = {Len(list)}
    BY <1>2, <2>1, PositionOf
  <2>3. First(Position(n)) = Len(list)
    BY <2>1, <2>2, FirstIsThere
  <2>4. QED
    BY <1>2, <2>1, <2>2, <2>3 DEF Appended
<1>3. QED
  BY <1>1, <1>2

(* Taking out position k moves the positions behind it by one.             *)
LEMMA WithoutIs ==
    ASSUME NEW S, list \in Seq(S), NEW k \in 1 .. Len(list)
    PROVE  /\ Without(k) \in Seq(S)
           /\ Len(Without(k)) = Len(list) - 1
           /\ \A j \in 1 .. Len(list) - 1 :
                Without(k)[j] = IF j < k THEN list[j] ELSE list[j + 1]
<1>0. Len(list) \in Nat /\ \A i \in 1 .. Len(list) : list[i] \in S
  BY LenProperties, ElementOfSeq
<1>1. /\ SubSeq(list, 1, k - 1) \in Seq(S)
      /\ Len(SubSeq(list, 1, k - 1)) = k - 1
      /\ \A i \in 1 .. k - 1 : SubSeq(list, 1, k - 1)[i] = list[i]
  <2>1. \A i \in 1 .. k - 1 : list[i] \in S
    BY <1>0
  <2>2. /\ SubSeq(list, 1, k - 1) \in Seq(S)
        /\ Len(SubSeq(list, 1, k - 1)) = IF 1 <= k - 1 THEN k - 1 - 1 + 1 ELSE 0
        /\ \A i \in 1 .. k - 1 - 1 + 1 :
             SubSeq(list, 1, k - 1)[i] = list[1 + i - 1]
    BY <1>0, <2>1, SubSeqProperties
  <2>3. QED
    BY <1>0, <2>2
<1>2. /\ SubSeq(list, k + 1, Len(list)) \in Seq(S)
      /\ Len(SubSeq(list, k + 1, Len(list))) = Len(list) - k
      /\ \A i \in 1 .. Len(list) - k :
           SubSeq(list, k + 1, Len(list))[i] = list[k + i]
  <2>1. \A i \in k + 1 .. Len(list) : list[i] \in S
    BY <1>0
  <2>2. /\ SubSeq(list, k + 1, Len(list)) \in Seq(S)
        /\ Len(SubSeq(list, k + 1, Len(list))) =
             IF k + 1 <= Len(list) THEN Len(list) - (k + 1) + 1 ELSE 0
        /\ \A i \in 1 .. Len(list) - (k + 1) + 1 :
             SubSeq(list, k + 1, Len(list))[i] = list[k + 1 + i - 1]
    BY <1>0, <2>1, SubSeqProperties
  <2>3. QED
    BY <1>0, <2>2
<1>3. /\ Without(k) \in Seq(S)
      /\ Len(Without(k)) = k - 1 + (Len(list) - k)
      /\ \A i \in 1 .. k - 1 + (Len(list) - k) :
           Without(k)[i] = IF i <= k - 1 THEN SubSeq(list, 1, k - 1)[i]
                           ELSE SubSeq(list, k + 1, Len(list))[i - (k - 1)]
  <2>1. PICK front, back :
          /\ front = SubSeq(list, 1, k - 1)
          /\ back = SubSeq(list, k + 1, Len(list))
    OBVIOUS
  <2>2. front \in Seq(S) /\ back \in Seq(S)
    BY <1>1, <1>2, <2>1
  <2>3. /\ front \o back \in Seq(S)
        /\ Len(front \o back) = Len(front) + Len(back)
        /\ \A i \in 1 .. Len(front) + Len(back) : (front \o back)[i] =
             IF i <= Len(front) THEN front[i] ELSE back[i - Len(front)]
    BY <2>2, ConcatProperties
  <2>4. Len(front) = k - 1 /\ Len(back) = Len(list) - k
    BY <1>1, <1>2, <2>1
  <2>5. Without(k) = front \o back
    BY <2>1 DEF Without
  <2>6. QED
    BY <2>1, <2>3, <2>4, <2>5
<1>4. ASSUME NEW j \in 1 .. Len(list) - 1
      PROVE  Without(k)[j] = IF j < k THEN list[j] ELSE list[j + 1]
  <2>1. CASE j < k
    BY <1>0, <1>1, <1>3, <2>1
  <2>2. CASE ~ (j < k)
    <3>1. j - (k - 1) \in 1 .. Len(list) - k /\ k + (j - (k - 1)) = j + 1
      BY <1>0, <2>2
    <3>2. Without(k)[j] = SubSeq(list, k + 1, Len(list))[j - (k - 1)]
      BY <1>0, <1>3, <2>2
    <3>3. QED
      BY <1>2, <2>2, <3>1, <3>2
  <2>3. QED
    BY <2>1, <2>2
<1>5. QED
  BY <1>0, <1>3, <1>4

-----------------------------------------------------------------------------
(* Types                                                                   *)

LEMMA InitType == Init => TypeOK
<1>1. ASSUME Init PROVE TypeOK
  <2>1. list \in Seq(Vaults) /\ made \in 0 .. MaxVaults
    BY <1>1, VaultAssumption, EmptySeq DEF Init
  <2>2. vault \in [1 .. made -> Vault]
    BY <1>1 DEF Init
  <2>3. call \in [Threads -> Call]
    BY <1>1 DEF Init, Call
  <2>4. QED
    BY <1>1, <2>1, <2>2, <2>3 DEF Init, TypeOK
<1>2. QED
  BY <1>1

(* Whatever a call finds at its node is a vault, or nothing.               *)
LEMMA TargetType ==
    ASSUME TypeOK, NEW t \in Threads
    PROVE  Target(t) \subseteq Vaults \cup {None}
<1>1. list # << >> => list[1] \in Vaults
  BY EmptySeq, ElementOfSeq DEF TypeOK
<1>2. 1 .. made \subseteq Vaults
  BY VaultAssumption DEF TypeOK, Vaults
<1>3. fd[t] \in Vaults \cup {None} /\ node[t] \in Vaults \cup {None, Root}
  BY DEF TypeOK
<1>4. VaultOf(node[t]) \subseteq Vaults \cup {None}
  BY <1>1, <1>2, <1>3 DEF VaultOf
<1>5. QED
  BY <1>3, <1>4 DEF Target

LEMMA NodeAtType ==
    ASSUME TypeOK, NEW k \in 1 .. Len(list)
    PROVE  NodeAt(k) \in Vaults \cup {Root} /\ list[k] \in Vaults
  BY ElementOfSeq DEF TypeOK, NodeAt

(* Locking, unlocking and counting write fields of one vault.              *)
LEMMA VaultType ==
    ASSUME TypeOK, NEW v
    PROVE  /\ Up(v) => vault' \in [1 .. made -> Vault]
           /\ Down(v) /\ vault[v].lock > 0 => vault' \in [1 .. made -> Vault]
           /\ \A x : (v \in 1 .. made => x \in Int) =>
                [vault EXCEPT ![v].usage = x % UsageLimit, ![v].lock = @ + 1]
                  \in [1 .. made -> Vault]
<1>1. ASSUME NEW w, v \in 1 .. made => w \in Vault
      PROVE  [vault EXCEPT ![v] = w] \in [1 .. made -> Vault]
  BY <1>1 DEF TypeOK
<1>2. ASSUME v \in 1 .. made
      PROVE  /\ [vault[v] EXCEPT !.lock = @ + 1] \in Vault
             /\ vault[v].lock > 0 => [vault[v] EXCEPT !.lock = @ - 1] \in Vault
             /\ \A x \in Int :
                  [vault[v] EXCEPT !.usage = x % UsageLimit, !.lock = @ + 1]
                    \in Vault
  <2>1. vault[v] \in Vault
    BY <1>2 DEF TypeOK
  <2>2. ASSUME NEW x \in Int PROVE x % UsageLimit \in 0 .. UsageLimit - 1
    BY VaultAssumption
  <2>3. [vault[v] EXCEPT !.lock = @ + 1] \in Vault
    BY <2>1 DEF Vault
  <2>4. vault[v].lock > 0 => [vault[v] EXCEPT !.lock = @ - 1] \in Vault
    BY <2>1 DEF Vault
  <2>5. \A y \in 0 .. UsageLimit - 1 :
          [vault[v] EXCEPT !.usage = y, !.lock = @ + 1] \in Vault
    <3>1. SUFFICES ASSUME NEW y \in 0 .. UsageLimit - 1
          PROVE  [vault[v] EXCEPT !.usage = y, !.lock = vault[v].lock + 1]
                   \in Vault
      OBVIOUS
    <3>2. [vault[v] EXCEPT !.usage = y] \in Vault
      BY <2>1 DEF Vault
    <3>3. vault[v].lock + 1 \in Nat
      BY <2>1 DEF Vault
    <3>4. \A r \in Vault, n \in Nat : [r EXCEPT !.lock = n] \in Vault
      BY DEF Vault
    <3>5. QED
      BY <3>2, <3>3, <3>4
  <2>6. QED
    BY <2>2, <2>3, <2>4, <2>5
<1>3. Up(v) => vault' \in [1 .. made -> Vault]
  BY <1>1, <1>2 DEF Up
<1>4. Down(v) /\ vault[v].lock > 0 => vault' \in [1 .. made -> Vault]
  BY <1>1, <1>2 DEF Down
<1>5. ASSUME NEW x, v \in 1 .. made => x \in Int
      PROVE  [vault EXCEPT ![v].usage = x % UsageLimit, ![v].lock = @ + 1]
               \in [1 .. made -> Vault]
  BY <1>1, <1>2, <1>5
<1>6. QED
  BY <1>3, <1>4, <1>5

(* The two halves of the type invariant: what the threads share, and what  *)
(* each of them keeps.                                                     *)
SharedTypeOK ==
    /\ vault_lock \in Nat
    /\ list \in Seq(Vaults)
    /\ freed \subseteq Vaults
    /\ made \in 0 .. MaxVaults
    /\ vault \in [1 .. made -> Vault]
    /\ device \in [Ids -> Vaults \cup {None}]

LocalTypeOK ==
    /\ pc \in [Threads -> {"idle", "get", "lock", "asleep", "work", "delete",
                           "unlock", "create", "link", "unlink", "alloc",
                           "oops"}]
    /\ call \in [Threads -> Call]
    /\ node \in [Threads -> Vaults \cup {None, Root}]
    /\ at \in [Threads -> Vaults \cup {None}]
    /\ fd \in [Threads -> Vaults \cup {None}]

LEMMA TypeHalves == TypeOK <=> SharedTypeOK /\ LocalTypeOK
  BY DEF TypeOK, SharedTypeOK, LocalTypeOK

LEMMA TypeHalvesNext == TypeOK' <=> SharedTypeOK' /\ LocalTypeOK'
  BY DEF TypeOK, SharedTypeOK, LocalTypeOK

LEMMA SharedTypeKept ==
    ASSUME SharedTypeOK, UNCHANGED shared
    PROVE  SharedTypeOK'
  BY DEF SharedTypeOK, shared

LEMMA ReturnType ==
    ASSUME LocalTypeOK, NEW t \in Threads, NEW f \in Vaults \cup {None},
           Return(t, f)
    PROVE  LocalTypeOK'
<1>1. NoCall \in Call
  BY DEF Call
<1>2. QED
  BY <1>1 DEF LocalTypeOK, Return, Goto

LEMMA StartType ==
    ASSUME TypeOK, NEW t \in Threads, Start(t)
    PROVE  TypeOK'
<1>1. ASSUME NEW there \in {"get", "lock"}, NEW op, NEW id, NEW cdev,
             [op |-> op, id |-> id, cdev |-> cdev] \in Call,
             Begin(t, there, op, id, cdev)
      PROVE  TypeOK'
  <2>1. LocalTypeOK'
    BY <1>1, TypeHalves DEF LocalTypeOK, Begin, Goto
  <2>2. SharedTypeOK'
    BY <1>1, TypeHalves, SharedTypeKept DEF Begin
  <2>3. QED
    BY <2>1, <2>2, TypeHalvesNext
<1>2. CASE CallControl(t)
  <2>1. \A op \in Control, id \in Ids :
          [op |-> op, id |-> id, cdev |-> None] \in Call
    BY DEF Call
  <2>2. QED
    BY <1>1, <1>2, <2>1 DEF CallControl
<1>3. CASE CallOpen(t)
  <2>1. \A id \in Ids : device[id] # None =>
          [op |-> "OPEN", id |-> id, cdev |-> device[id]] \in Call
    BY DEF Call, TypeOK
  <2>2. QED
    BY <1>1, <1>3, <2>1 DEF CallOpen
<1>4. CASE CallOnFile(t)
  <2>1. \A op \in OnFile : [op |-> op, id |-> None, cdev |-> None] \in Call
    BY DEF Call
  <2>2. QED
    BY <1>1, <1>4, <2>1 DEF CallOnFile
<1>5. QED
  BY <1>2, <1>3, <1>4 DEF Start

LEMMA GetType ==
    ASSUME TypeOK, NEW t \in Threads, Get(t)
    PROVE  TypeOK'
<1>1. PICK found : /\ found \subseteq 1 .. Len(list)
                   /\ \/ /\ found # {}
                         /\ node' = [node EXCEPT ![t] = NodeAt(First(found))]
                         /\ Goto(t, "lock")
                         /\ UNCHANGED <<call, at, fd>>
                      \/ Goto(t, "create") /\ UNCHANGED <<call, node, at, fd>>
                      \/ Goto(t, "oops") /\ UNCHANGED <<call, node, at, fd>>
                      \/ Return(t, fd[t])
  BY DEF Get, WithCdev, WithId
<1>2. found # {} => NodeAt(First(found)) \in Vaults \cup {Root}
  <2>1. found \subseteq Nat
    BY <1>1
  <2>2. found # {} => First(found) \in 1 .. Len(list)
    BY <1>1, <2>1, FirstIsThere
  <2>3. QED
    BY <2>2, NodeAtType
<1>3. LocalTypeOK'
  <2>1. CASE Return(t, fd[t])
    BY <2>1, TypeHalves, ReturnType DEF TypeOK
  <2>2. QED
    BY <1>1, <1>2, <2>1, TypeHalves DEF LocalTypeOK, Goto
<1>4. SharedTypeOK'
  BY TypeHalves, SharedTypeKept DEF Get
<1>5. QED
  BY <1>3, <1>4, TypeHalvesNext

LEMMA LockType ==
    ASSUME TypeOK, NEW t \in Threads, Lock(t) \/ Wake(t) \/ Unlock(t)
    PROVE  TypeOK'
<1>1. LocalTypeOK'
  <2>1. CASE \E f \in {fd[t]} : Return(t, f)
    BY <2>1, TypeHalves, ReturnType DEF TypeOK
  <2>2. CASE ~ \E f \in {fd[t]} : Return(t, f)
    BY <2>2, TypeHalves, TargetType DEF LocalTypeOK, Goto, Lock, Wake, Unlock
  <2>3. QED
    BY <2>1, <2>2
<1>2. vault' \in [1 .. made -> Vault]
  <2>1. vault' = vault \/ \E v : Up(v) \/ (Down(v) /\ vault[v].lock > 0)
    BY DEF Lock, Wake, Unlock
  <2>2. QED
    BY <2>1, VaultType DEF TypeOK
<1>3. SharedTypeOK'
  BY <1>2, TypeHalves DEF SharedTypeOK, Lock, Wake, Unlock
<1>4. QED
  BY <1>1, <1>3, TypeHalvesNext

(* The new vault, its device and its place at the end of the list.         *)
LEMMA FinishType ==
    ASSUME Inv, NEW t \in Threads, CreateFinish(t)
    PROVE  TypeOK'
<1> DEFINE v == made + 1
           new == [id |-> call[t].id, owner |-> User[t],
                   lock |-> 1, usage |-> 0]
<1>0. v \in Vaults /\ made \in Nat
  BY VaultAssumption DEF Inv, TypeOK, CreateFinish, Vaults
<1>1. new \in Vault
  <2>1. call[t].id \in Ids
    BY DEF Inv, TypeOK, CallInv, CreateFinish, Call, NoCall, OnFile
  <2>2. QED
    BY <2>1, VaultAssumption DEF Vault
<1>2. vault' \in [1 .. v -> Vault]
  <2>1. vault \in Seq(Vault) /\ Len(vault) = made
    BY <1>0, LenProperties DEF Inv, TypeOK
  <2>2. vault' \in Seq(Vault) /\ Len(vault') = v
    BY <1>1, <2>1, AppendProperties DEF CreateFinish
  <2>3. QED
    BY <2>2, LenProperties
<1>3. list' \in Seq(Vaults)
  <2>1. list' = Append(list, v)
    BY AppendedIsAppend DEF Inv, ListInv, CreateFinish
  <2>2. QED
    BY <1>0, <2>1, AppendProperties DEF Inv, TypeOK
<1>4. SharedTypeOK'
  <2>1. made' = v /\ v \in 0 .. MaxVaults
    BY <1>0, VaultAssumption DEF CreateFinish, Vaults
  <2>2. device' \in [Ids -> Vaults \cup {None}]
    BY <1>0 DEF Inv, TypeOK, CreateFinish
  <2>3. freed' \subseteq Vaults /\ vault_lock' \in Nat
    BY <1>0 DEF Inv, TypeOK, CreateFinish
  <2>4. QED
    BY <1>2, <1>3, <2>1, <2>2, <2>3 DEF SharedTypeOK
<1>5. LocalTypeOK'
  BY TypeHalves, ReturnType DEF Inv, TypeOK, CreateFinish
<1>6. QED
  BY <1>4, <1>5, TypeHalvesNext

LEMMA CreateType ==
    ASSUME TypeOK, NEW t \in Threads, CreateEnter(t) \/ CreateFails(t)
    PROVE  TypeOK'
<1>1. CASE CreateEnter(t)
  <2>1. list # << >> => NodeAt(Len(list)) \in Vaults \cup {Root}
    <3>1. list # << >> => Len(list) \in 1 .. Len(list)
      BY EmptySeq DEF TypeOK
    <3>2. QED
      BY <3>1, NodeAtType
  <2>2. QED
    BY <1>1, <2>1 DEF TypeOK, CreateEnter, Goto
<1>2. CASE CreateFails(t)
  <2>1. LocalTypeOK'
    BY <1>2, TypeHalves, ReturnType DEF TypeOK, CreateFails
  <2>2. SharedTypeOK'
    BY <1>2, TypeHalves DEF SharedTypeOK, CreateFails
  <2>3. QED
    BY <2>1, <2>2, TypeHalvesNext
<1>3. QED
  BY <1>1, <1>2

(* What delete_node chooses has a position in the list.                    *)
LEMMA RemoveType ==
    ASSUME TypeOK, NEW t \in Threads, RemoveCheck(t) \/ RemoveEnter(t)
    PROVE  TypeOK'
<1>1. CASE RemoveCheck(t)
  BY <1>1, TypeHalves, TypeHalvesNext, SharedTypeKept
  DEF LocalTypeOK, RemoveCheck, Goto
<1>2. CASE RemoveEnter(t)
  <2>1. ASSUME WithId(call[t].id) # {}
        PROVE  /\ First(WithId(call[t].id)) \in 1 .. Len(list)
               /\ NodeAt(First(WithId(call[t].id))) \in Vaults \cup {Root}
    <3>1. WithId(call[t].id) \subseteq Nat
      BY DEF WithId
    <3>2. First(WithId(call[t].id)) \in 1 .. Len(list)
      BY <2>1, <3>1, FirstIsThere DEF WithId
    <3>3. QED
      BY <3>2, NodeAtType
  <2>2. ASSUME NEW k, NodeAt(k) \in Vaults \cup {Root}, Free(t, k)
        PROVE  /\ pc' \in [Threads -> {"idle", "get", "lock", "asleep",
                    "work", "delete", "unlock", "create", "link", "unlink",
                    "alloc", "oops"}]
               /\ node' \in [Threads -> Vaults \cup {None, Root}]
               /\ device' \in [Ids -> Vaults \cup {None}]
               /\ vault_lock' \in {vault_lock, vault_lock - 1}
    BY <2>2 DEF TypeOK, Free, Goto
  <2>3. QED
    BY <1>2, <2>1, <2>2 DEF TypeOK, RemoveEnter, Goto
<1>3. QED
  BY <1>1, <1>2

LEMMA UnlinkType ==
    ASSUME Inv, NEW t \in Threads, RemoveFinish(t)
    PROVE  TypeOK'
<1>1. PICK k \in 1 .. Len(list) : node[t] = NodeAt(k)
  BY DEF Inv, ListInv, RemoveFinish
<1>2. Position(node[t]) = {k}
  BY <1>1, PositionOf DEF Inv, ListInv
<1>3. list' = Without(k) /\ freed' = freed \cup FreedNode(k)
  BY <1>2 DEF RemoveFinish
<1>4. list' \in Seq(Vaults)
  BY <1>3, WithoutIs DEF Inv, TypeOK
<1>5. freed' \subseteq Vaults
  BY <1>3, ElementOfSeq, LenProperties DEF Inv, TypeOK, FreedNode
<1>6. SharedTypeOK'
  BY <1>4, <1>5 DEF Inv, TypeOK, SharedTypeOK, RemoveFinish
<1>7. LocalTypeOK'
  BY TypeHalves, ReturnType DEF Inv, TypeOK, RemoveFinish
<1>8. QED
  BY <1>6, <1>7, TypeHalvesNext

LEMMA OpenType ==
    ASSUME TypeOK, NEW t \in Threads, Count(t) \/ OpenFinish(t) \/ Close(t)
    PROVE  TypeOK'
<1>1. CASE Count(t)
  <2>1. PICK v \in Target(t) : \/ Goto(t, "oops") /\ UNCHANGED <<vault, at>>
                               \/ /\ v # None
                                  /\ vault' = [vault EXCEPT
                                       ![v].usage = (@ + 1) % UsageLimit,
                                       ![v].lock = @ + 1]
                                  /\ at' = [at EXCEPT ![t] = v]
                                  /\ Goto(t, "alloc")
    BY <1>1 DEF Count
  <2>2. LocalTypeOK'
    BY <1>1, <2>1, TypeHalves, TargetType DEF LocalTypeOK, Count, Goto
  <2>3. vault' \in [1 .. made -> Vault]
    <3>1. v \in 1 .. made => vault[v].usage + 1 \in Int
      BY DEF TypeOK, Vault
    <3>2. [vault EXCEPT ![v].usage = (@ + 1) % UsageLimit, ![v].lock = @ + 1]
            \in [1 .. made -> Vault]
      BY <3>1, VaultType
    <3>3. QED
      BY <2>1, <3>2 DEF TypeOK
  <2>4. QED
    BY <1>1, <2>2, <2>3, TypeHalves, TypeHalvesNext DEF SharedTypeOK, Count
<1>2. CASE OpenFinish(t)
  <2>1. LocalTypeOK'
    <3>1. CASE \E v \in Target(t) : v # None /\ Return(t, v)
      BY <3>1, TypeHalves, TargetType, ReturnType
    <3>2. CASE Goto(t, "oops") /\ UNCHANGED <<call, node, at, fd>>
      BY <3>2, TypeHalves DEF LocalTypeOK, Goto
    <3>3. QED
      BY <1>2, <3>1, <3>2 DEF OpenFinish
  <2>2. QED
    BY <1>2, <2>1, TypeHalves, TypeHalvesNext, SharedTypeKept DEF OpenFinish
<1>3. CASE Close(t)
  <2>1. vault' \in [1 .. made -> Vault]
    <3>1. fd[t] \in 1 .. made => vault[fd[t]].usage - 1 \in Int
      BY DEF TypeOK, Vault
    <3>2. QED
      BY <1>3, <3>1, VaultType DEF Close
  <2>2. LocalTypeOK'
    BY <1>3, TypeHalves, ReturnType DEF Close
  <2>3. QED
    BY <1>3, <2>1, <2>2, TypeHalves, TypeHalvesNext DEF SharedTypeOK, Close
<1>4. QED
  BY <1>1, <1>2, <1>3

-----------------------------------------------------------------------------
(* Steps outside the critical sections of create_new_vault and delete_node *)

Outside(t) ==
    /\ UNCHANGED <<vault_lock, list, made, device>>
    /\ \A v \in 1 .. made : vault'[v].id = vault[v].id
    /\ ~ InList(t) /\ ~ InList(t)'
    /\ \A u \in Threads \ {t} : pc'[u] = pc[u] /\ node'[u] = node[u]

(* Writing its lock or usage leaves the number of a vault as it is.        *)
LEMMA NumbersKept ==
    ASSUME TypeOK, NEW w
    PROVE  /\ Up(w) => \A v \in 1 .. made : vault'[v].id = vault[v].id
           /\ Down(w) => \A v \in 1 .. made : vault'[v].id = vault[v].id
           /\ \A x : vault' = [vault EXCEPT ![w].usage = x, ![w].lock = @ + 1]
                => \A v \in 1 .. made : vault'[v].id = vault[v].id
<1>1. ASSUME NEW v \in 1 .. made
      PROVE  /\ Up(w) => vault'[v].id = vault[v].id
             /\ Down(w) => vault'[v].id = vault[v].id
  BY DEF TypeOK, Up, Down, Vault
<1>2. ASSUME NEW v \in 1 .. made, NEW x,
             vault' = [vault EXCEPT ![w].usage = x, ![w].lock = @ + 1]
      PROVE  vault'[v].id = vault[v].id
  BY <1>2 DEF TypeOK, Vault
<1>3. QED
  BY <1>1, <1>2

LEMMA OutsideSteps ==
    ASSUME TypeOK, NEW t \in Threads,
           \/ Start(t) \/ Get(t) \/ Lock(t) \/ Wake(t) \/ Unlock(t)
           \/ RemoveCheck(t) \/ Count(t) \/ OpenFinish(t) \/ Close(t)
    PROVE  Outside(t)
<1>1. CASE Start(t)
  <2>1. PICK there, op, id, cdev :
          there \in {"get", "lock"} /\ Begin(t, there, op, id, cdev)
    BY <1>1 DEF Start, CallControl, CallOpen, CallOnFile
  <2>2. QED
    BY <2>1 DEF TypeOK, Begin, Goto, Outside, InList, shared
<1>2. CASE Get(t)
  BY <1>2 DEF TypeOK, Get, Goto, Return, Outside, InList, shared
<1>3. CASE Lock(t) \/ Wake(t) \/ Unlock(t)
  <2>1. vault' = vault \/ \E w : Up(w) \/ Down(w)
    BY <1>3 DEF Lock, Wake, Unlock
  <2>2. \A v \in 1 .. made : vault'[v].id = vault[v].id
    BY <2>1, NumbersKept
  <2>3. QED
    BY <1>3, <2>2
    DEF TypeOK, Lock, Wake, Unlock, Goto, Return, Outside, InList
<1>4. CASE RemoveCheck(t)
  BY <1>4 DEF TypeOK, RemoveCheck, Goto, Outside, InList, shared
<1>5. CASE Count(t) \/ Close(t)
  <2>1. ASSUME NEW v \in 1 .. made, Count(t) PROVE vault'[v].id = vault[v].id
    BY <2>1, NumbersKept DEF Count
  <2>2. ASSUME NEW v \in 1 .. made, Close(t) PROVE vault'[v].id = vault[v].id
    BY <2>2, NumbersKept DEF Close
  <2>3. QED
    BY <1>5, <2>1, <2>2 DEF TypeOK, Count, Close, Goto, Return, Outside, InList
<1>6. CASE OpenFinish(t)
  BY <1>6 DEF TypeOK, OpenFinish, Goto, Return, Outside, InList, shared
<1>7. QED
  BY <1>1, <1>2, <1>3, <1>4, <1>5, <1>6

LEMMA OutsideLock ==
    ASSUME LockInv, NEW t \in Threads, Outside(t)
    PROVE  LockInv'
<1>1. \A u \in Threads : InList(u)' <=> InList(u)
  BY DEF Outside, InList
<1>2. QED
  BY <1>1 DEF LockInv, Outside

LEMMA OutsideList ==
    ASSUME ListInv, NEW t \in Threads, Outside(t)
    PROVE  ListInv'
<1>1. UniqueIds'
  <2>1. \A k \in 1 .. Len(list) : list[k] \in 1 .. made
    BY ElementOfSeq DEF ListInv
  <2>2. QED
    BY <2>1 DEF ListInv, UniqueIds, Outside
<1>2. \A k : NodeAt(k)' = NodeAt(k)
  BY DEF NodeAt, Outside
<1>3. QED
  BY <1>1, <1>2 DEF ListInv, Outside, InList

LEMMA OutsideDevice ==
    ASSUME ListInv, DeviceInv, NEW t \in Threads, Outside(t)
    PROVE  DeviceInv'
<1>1. \A k \in 1 .. Len(list) : vault'[list[k]].id = vault[list[k]].id
  BY ElementOfSeq DEF ListInv, Outside
<1>2. \A k : Unlinking(k)' <=> Unlinking(k)
  BY DEF Unlinking, NodeAt, Outside, InList
<1>3. QED
  BY <1>1, <1>2 DEF DeviceInv, Outside

-----------------------------------------------------------------------------
(* Only a create gets to create_new_vault.                                 *)

LEMMA CallStep ==
    ASSUME TypeOK, CallInv, NEW t \in Threads, Start(t) \/ Run(t)
    PROVE  CallInv'
<1>1. \A u \in Threads \ {t} : pc'[u] = pc[u] /\ call'[u] = call[u]
  <2>1. ASSUME NEW f, Return(t, f)
        PROVE  \A u \in Threads \ {t} : pc'[u] = pc[u] /\ call'[u] = call[u]
    BY <2>1 DEF TypeOK, Return, Goto
  <2>2. CASE Start(t)
    BY <2>2 DEF TypeOK, Start, CallControl, CallOpen, CallOnFile, Begin, Goto
  <2>3. CASE Run(t)
    BY <2>1, <2>3 DEF TypeOK, Run, Get, Lock, Wake, Unlock, CreateEnter,
       CreateFails, CreateFinish, RemoveCheck, RemoveEnter, Free,
       RemoveFinish, Count, OpenFinish, Close, Goto
  <2>4. QED
    BY <2>2, <2>3
<1>2. pc'[t] \in {"create", "link"} => call'[t].op = "CREATE"
  <2>1. \A f : Return(t, f) => pc'[t] = "idle"
    BY DEF TypeOK, Return, Goto
  <2>2. CASE Start(t)
    BY <2>2 DEF TypeOK, Start, CallControl, CallOpen, CallOnFile, Begin, Goto
  <2>3. CASE Run(t)
    BY <2>1, <2>3 DEF TypeOK, CallInv, Run, Get, Lock, Wake, Unlock,
       CreateEnter, CreateFails, CreateFinish, RemoveCheck, RemoveEnter,
       Free, RemoveFinish, Count, OpenFinish, Close, Goto
  <2>4. QED
    BY <2>2, <2>3
<1>3. QED
  BY <1>1, <1>2 DEF CallInv

-----------------------------------------------------------------------------
(* Entering and leaving the critical sections                              *)

LEMMA Alone ==
    ASSUME LockInv, NEW t \in Threads, InList(t)
    PROVE  vault_lock = 0 /\ \A u \in Threads : InList(u) => u = t
  BY DEF LockInv

LEMMA LockStep ==
    ASSUME TypeOK, LockInv, NEW t \in Threads,
           \/ CreateEnter(t) \/ CreateFails(t) \/ CreateFinish(t)
           \/ RemoveEnter(t) \/ RemoveFinish(t)
    PROVE  LockInv'
<1>1. \A u \in Threads \ {t} : InList(u)' <=> InList(u)
  BY DEF TypeOK, CreateEnter, CreateFails, CreateFinish, RemoveEnter, Free,
     RemoveFinish, Return, Goto, InList
<1>2. CASE InList(t)' /\ vault_lock > 0 /\ vault_lock' = vault_lock - 1
  <2>1. vault_lock = 1 /\ \A u \in Threads : ~ InList(u)
    BY <1>2 DEF LockInv
  <2>2. QED
    BY <1>1, <1>2, <2>1 DEF LockInv
<1>3. CASE InList(t) /\ ~ InList(t)' /\ vault_lock' = vault_lock + 1
  <2>1. vault_lock = 0 /\ \A u \in Threads : InList(u) => u = t
    BY <1>3, Alone
  <2>2. QED
    BY <1>1, <1>3, <2>1 DEF LockInv
<1>4. CASE ~ InList(t) /\ ~ InList(t)' /\ UNCHANGED vault_lock
  BY <1>1, <1>4 DEF LockInv
<1>5. QED
  BY <1>2, <1>3, <1>4
  DEF TypeOK, CreateEnter, CreateFails, CreateFinish, RemoveEnter, Free,
      RemoveFinish, Return, Goto, InList

(* create_new_vault walks to the last node, or gives up and leaves.        *)
LEMMA CreateWalk ==
    ASSUME Inv, NEW t \in Threads, CreateEnter(t) \/ CreateFails(t)
    PROVE  ListInv' /\ DeviceInv'
<1>1. UNCHANGED <<list, made, vault, device>>
  BY DEF CreateEnter, CreateFails
<1>2. \A u \in Threads \ {t} : pc'[u] = pc[u] /\ node'[u] = node[u]
  BY DEF Inv, TypeOK, CreateEnter, CreateFails, Return, Goto
<1>3. /\ pc[t] # "unlink" /\ pc'[t] # "unlink"
      /\ pc'[t] = "link" =>
           node'[t] = IF list = << >> THEN Root ELSE NodeAt(Len(list))
  BY DEF Inv, TypeOK, CreateEnter, CreateFails, Return, Goto
<1>4. \A k : /\ NodeAt(k)' = NodeAt(k)
             /\ Unlinking(k)' <=> Unlinking(k)
  BY <1>1, <1>2, <1>3 DEF NodeAt, Unlinking
<1>5. ListInv'
  <2>1. UniqueIds'
    BY <1>1 DEF Inv, ListInv, UniqueIds
  <2>2. QED
    BY <1>1, <1>2, <1>3, <1>4, <2>1 DEF Inv, ListInv
<1>6. DeviceInv'
  BY <1>1, <1>4 DEF Inv, DeviceInv
<1>7. QED
  BY <1>5, <1>6

(* A number without a device has no vault, when nobody unlinks one.        *)
LEMMA FreeNumber ==
    ASSUME Inv, NEW id \in Ids, device[id] = None,
           \A u \in Threads : pc[u] # "unlink"
    PROVE  \A k \in 1 .. Len(list) : vault[list[k]].id # id
<1>1. ASSUME NEW k \in 1 .. Len(list), vault[list[k]].id = id PROVE FALSE
  <2>1. device[id] = list[k]
    BY <1>1 DEF Inv, DeviceInv, Unlinking
  <2>2. list[k] \in Vaults
    BY ElementOfSeq DEF Inv, TypeOK
  <2>3. QED
    BY <2>1, <2>2, VaultAssumption DEF Vaults, None
<1>2. QED
  BY <1>1

(* The list after create_new_vault, position by position.                  *)
LEMMA FinishList ==
    ASSUME Inv, NEW t \in Threads, CreateFinish(t)
    PROVE  /\ list' \in Seq(1 .. made')
           /\ Len(list') = Len(list) + 1
           /\ \A k \in 1 .. Len(list) :
                list'[k] = list[k] /\ vault'[list[k]].id = vault[list[k]].id
           /\ list'[Len(list) + 1] = made + 1
           /\ vault'[made + 1].id = call[t].id
           /\ call[t].id \in Ids
<1>0. made \in Nat /\ made' = made + 1
  BY DEF Inv, TypeOK, CreateFinish
<1>1. list' = Append(list, made + 1)
  BY AppendedIsAppend DEF Inv, ListInv, CreateFinish
<1>2. list \in Seq(1 .. made') /\ made + 1 \in 1 .. made'
  <2>1. 1 .. made \subseteq 1 .. made'
    BY <1>0
  <2>2. QED
    BY <1>0, <2>1, SeqMonotonic DEF Inv, ListInv
<1>3. /\ list' \in Seq(1 .. made')
      /\ Len(list') = Len(list) + 1
      /\ \A k \in 1 .. Len(list) : list'[k] = list[k]
      /\ list'[Len(list) + 1] = made + 1
  BY <1>1, <1>2, AppendProperties
<1>4. vault \in Seq(Vault) /\ Len(vault) = made
  BY <1>0, LenProperties DEF Inv, TypeOK
<1>5. call[t].id \in Ids
  BY DEF Inv, TypeOK, CallInv, CreateFinish, Call, NoCall, OnFile
<1>6. [id |-> call[t].id, owner |-> User[t], lock |-> 1, usage |-> 0] \in Vault
  BY <1>5, VaultAssumption DEF Vault
<1>7. /\ \A v \in 1 .. made : vault'[v] = vault[v]
      /\ vault'[made + 1].id = call[t].id
  BY <1>4, <1>6, AppendProperties DEF CreateFinish
<1>8. \A k \in 1 .. Len(list) : list[k] \in 1 .. made
  BY ElementOfSeq DEF Inv, ListInv
<1>9. QED
  BY <1>3, <1>5, <1>7, <1>8

LEMMA FinishStep ==
    ASSUME Inv, NEW t \in Threads, CreateFinish(t)
    PROVE  ListInv' /\ DeviceInv'
<1> DEFINE id == call[t].id
           v == made + 1
<1>0. Len(list) \in Nat /\ Len(list') = Len(list) + 1
  BY FinishList, LenProperties DEF Inv, TypeOK
<1>1. \A u \in Threads : ~ InList(u)'
  <2>1. InList(t) /\ ~ InList(t)'
    BY DEF Inv, TypeOK, CreateFinish, Return, Goto, InList
  <2>2. \A u \in Threads : InList(u) => u = t
    BY <2>1, Alone DEF Inv
  <2>3. \A u \in Threads \ {t} : pc'[u] = pc[u]
    BY DEF Inv, TypeOK, CreateFinish, Return, Goto
  <2>4. QED
    BY <2>1, <2>2, <2>3 DEF InList
<1>2. \A u \in Threads : pc[u] # "unlink"
  <2>1. InList(t) /\ pc[t] = "link"
    BY DEF CreateFinish, InList
  <2>2. QED
    BY <2>1, Alone DEF Inv, InList
<1>3. \A k \in 1 .. Len(list) : vault[list[k]].id # id
  BY <1>2, FinishList, FreeNumber DEF CreateFinish
<1>4. \A k \in 1 .. Len(list') :
        \/ /\ k \in 1 .. Len(list)
           /\ list'[k] = list[k]
           /\ vault'[list'[k]].id = vault[list[k]].id
           /\ vault'[list'[k]].id # id
        \/ /\ k = Len(list) + 1
           /\ list'[k] = v
           /\ vault'[list'[k]].id = id
  <2>1. ASSUME NEW k \in 1 .. Len(list)
        PROVE  /\ list'[k] = list[k]
               /\ vault'[list'[k]].id = vault[list[k]].id
               /\ vault'[list'[k]].id # id
    BY <1>3, FinishList
  <2>2. /\ list'[Len(list) + 1] = v
        /\ vault'[list'[Len(list) + 1]].id = id
    BY FinishList
  <2>3. QED
    BY <1>0, <2>1, <2>2
<1>5. ListInv'
  <2>1. UniqueIds'
    BY <1>4 DEF Inv, ListInv, UniqueIds
  <2>2. QED
    BY <1>1, <2>1, FinishList DEF ListInv, InList
<1>6. DeviceInv'
  <2>1. device' = [device EXCEPT ![id] = v] /\ id \in Ids
    BY FinishList DEF CreateFinish
  <2>2. device \in [Ids -> Vaults \cup {None}]
    BY DEF Inv, TypeOK
  <2>3. \A k : ~ Unlinking(k) /\ ~ Unlinking(k)'
    BY <1>1, <1>2 DEF Unlinking, InList
  <2>4. ASSUME NEW k \in 1 .. Len(list')
        PROVE  device'[vault'[list'[k]].id] = list'[k]
    <3>1. CASE /\ k \in 1 .. Len(list)
               /\ list'[k] = list[k]
               /\ vault'[list'[k]].id = vault[list[k]].id
               /\ vault'[list'[k]].id # id
      <4>1. device[vault[list[k]].id] = list[k]
        BY <2>3, <3>1 DEF Inv, DeviceInv
      <4>2. device'[vault[list[k]].id] = device[vault[list[k]].id]
        BY <2>1, <2>2, <3>1
      <4>3. QED
        BY <3>1, <4>1, <4>2
    <3>2. CASE list'[k] = v /\ vault'[list'[k]].id = id
      BY <2>1, <2>2, <3>2
    <3>3. QED
      BY <1>4, <3>1, <3>2
  <2>5. ASSUME NEW n \in Ids, \A k \in 1 .. Len(list') : vault'[list'[k]].id # n
        PROVE  device'[n] = None
    <3>1. n # id
      <4>1. Len(list) + 1 \in 1 .. Len(list')
        BY <1>0
      <4>2. QED
        BY <2>5, <4>1, FinishList
    <3>2. \A k \in 1 .. Len(list) : vault[list[k]].id # n
      <4>1. \A k \in 1 .. Len(list) : k \in 1 .. Len(list')
        BY <1>0
      <4>2. QED
        BY <2>5, <4>1, FinishList
    <3>3. QED
      BY <2>1, <2>2, <3>1, <3>2 DEF Inv, DeviceInv
  <2>6. QED
    BY <2>3, <2>4, <2>5 DEF DeviceInv
<1>7. QED
  BY <1>5, <1>6

(* delete_node deletes the device of the vault that it will unlink.        *)
LEMMA RemoveEnterStep ==
    ASSUME Inv, NEW t \in Threads, RemoveEnter(t)
    PROVE  ListInv' /\ DeviceInv'
<1>1. /\ UNCHANGED <<list, made, vault>>
      /\ \A u \in Threads : ~ InList(u)
      /\ \A u \in Threads \ {t} : pc'[u] = pc[u] /\ node'[u] = node[u]
  BY DEF Inv, TypeOK, LockInv, RemoveEnter, Free, Goto
<1>2. UniqueIds' /\ UniqueIds /\ \A k : NodeAt(k)' = NodeAt(k)
  BY <1>1 DEF Inv, ListInv, UniqueIds, NodeAt
<1>3. CASE Goto(t, "unlock") /\ UNCHANGED <<vault_lock, device, node>>
  <2>1. \A u \in Threads : ~ InList(u)'
    BY <1>1, <1>3 DEF Inv, TypeOK, Goto, InList
  <2>2. ListInv'
    BY <1>1, <1>2, <2>1 DEF Inv, ListInv, InList
  <2>3. \A k : ~ Unlinking(k) /\ ~ Unlinking(k)'
    BY <1>1, <2>1 DEF Unlinking, InList
  <2>4. QED
    BY <1>1, <1>3, <2>2, <2>3 DEF Inv, DeviceInv
<1>4. CASE ~ (Goto(t, "unlock") /\ UNCHANGED <<vault_lock, device, node>>)
  <2>1. PICK k \in 1 .. Len(list) :
          /\ Goto(t, "unlink")
          /\ device' = [device EXCEPT ![vault[list[k]].id] = None]
          /\ node' = [node EXCEPT ![t] = NodeAt(k)]
    <3>1. WithId(call[t].id) # {} /\ WithId(call[t].id) \subseteq Nat
      BY <1>4 DEF RemoveEnter, WithId
    <3>2. First(WithId(call[t].id)) \in 1 .. Len(list)
      BY <3>1, FirstIsThere DEF WithId
    <3>3. QED
      BY <1>4, <3>1, <3>2 DEF RemoveEnter, Free
  <2>2. /\ pc'[t] = "unlink" /\ node'[t] = NodeAt(k)
        /\ \A u \in Threads : InList(u)' => u = t
    BY <1>1, <2>1 DEF Inv, TypeOK, Goto, InList
  <2>3. ListInv'
    BY <1>1, <1>2, <2>2 DEF Inv, ListInv, InList
  <2>4. \A j \in 1 .. Len(list) : Unlinking(j)' <=> j = k
    BY <1>2, <2>2, NodeOnce DEF Inv, Unlinking, InList
  <2>5. \A j \in 1 .. Len(list) : device[vault[list[j]].id] = list[j]
    BY <1>1 DEF Inv, DeviceInv, Unlinking, InList
  <2>6. \A j \in 1 .. Len(list) : vault[list[j]].id \in Ids
    BY ElementOfSeq DEF Inv, ListInv, TypeOK, Vault
  <2>7. ASSUME NEW j \in 1 .. Len(list)
        PROVE  device'[vault[list[j]].id] = IF j = k THEN None ELSE list[j]
    BY <1>2, <2>1, <2>5, <2>6 DEF Inv, TypeOK, UniqueIds
  <2>8. ASSUME NEW n \in Ids, \A j \in 1 .. Len(list) : vault[list[j]].id # n
        PROVE  device'[n] = None
    BY <2>1, <2>8 DEF Inv, TypeOK, DeviceInv
  <2>9. DeviceInv'
    BY <1>1, <2>4, <2>7, <2>8 DEF DeviceInv
  <2>10. QED
    BY <2>3, <2>9
<1>5. QED
  BY <1>3, <1>4

(* delete_node unlinks the vault whose device is gone, and no other.       *)
LEMMA UnlinkStep ==
    ASSUME Inv, NEW t \in Threads, RemoveFinish(t)
    PROVE  ListInv' /\ DeviceInv'
<1>0. Len(list) \in Nat
  BY LenProperties DEF Inv, TypeOK
<1>1. PICK k \in 1 .. Len(list) : node[t] = NodeAt(k)
  BY DEF Inv, ListInv, RemoveFinish
<1>2. list' = Without(k) /\ UNCHANGED <<made, vault, device>>
  <2>1. Position(node[t]) = {k}
    BY <1>1, PositionOf DEF Inv, ListInv
  <2>2. QED
    BY <2>1 DEF RemoveFinish
<1>3. /\ list' \in Seq(1 .. made)
      /\ Len(list') = Len(list) - 1
      /\ \A j \in 1 .. Len(list) - 1 :
           list'[j] = IF j < k THEN list[j] ELSE list[j + 1]
  BY <1>2, WithoutIs DEF Inv, ListInv
<1>4. \A u \in Threads : ~ InList(u)'
  <2>1. InList(t) /\ ~ InList(t)'
    BY DEF Inv, TypeOK, RemoveFinish, Return, Goto, InList
  <2>2. \A u \in Threads : InList(u) => u = t
    BY <2>1, Alone DEF Inv
  <2>3. \A u \in Threads \ {t} : pc'[u] = pc[u]
    BY DEF Inv, TypeOK, RemoveFinish, Return, Goto
  <2>4. QED
    BY <2>1, <2>2, <2>3 DEF InList
<1>5. \A j \in 1 .. Len(list) : Unlinking(j) <=> j = k
  <2>1. InList(t) /\ pc[t] = "unlink"
    BY DEF RemoveFinish, InList
  <2>2. \A u \in Threads : pc[u] = "unlink" => u = t
    BY <2>1, Alone DEF Inv, InList
  <2>3. QED
    BY <1>1, <2>1, <2>2, NodeOnce DEF Inv, ListInv, Unlinking
<1>6. \A j \in 1 .. Len(list') :
        \E i \in 1 .. Len(list) :
          i # k /\ list'[j] = list[i] /\ i = IF j < k THEN j ELSE j + 1
  <2>1. ASSUME NEW j \in 1 .. Len(list') PROVE
          \E i \in 1 .. Len(list) :
            i # k /\ list'[j] = list[i] /\ i = IF j < k THEN j ELSE j + 1
    <3>1. j \in 1 .. Len(list) - 1
      BY <1>3
    <3>2. CASE j < k
      BY <1>0, <1>3, <3>1, <3>2
    <3>3. CASE ~ (j < k)
      BY <1>0, <1>3, <3>1, <3>3
    <3>4. QED
      BY <3>2, <3>3
  <2>2. QED
    BY <2>1
<1>7. ListInv'
  <2>1. UniqueIds'
    <3>1. SUFFICES ASSUME NEW j \in 1 .. Len(list'), NEW l \in 1 .. Len(list'),
                          vault[list'[j]].id = vault[list'[l]].id
                   PROVE  j = l
      BY <1>2 DEF UniqueIds
    <3>2. PICK i \in 1 .. Len(list) :
            list'[j] = list[i] /\ i = IF j < k THEN j ELSE j + 1
      BY <1>6
    <3>3. PICK m \in 1 .. Len(list) :
            list'[l] = list[m] /\ m = IF l < k THEN l ELSE l + 1
      BY <1>6
    <3>4. i = m
      BY <3>1, <3>2, <3>3 DEF Inv, ListInv, UniqueIds
    <3>5. QED
      BY <3>2, <3>3, <3>4
  <2>2. QED
    BY <1>2, <1>3, <1>4, <2>1 DEF ListInv, InList
<1>8. DeviceInv'
  <2>1. ASSUME NEW j \in 1 .. Len(list')
        PROVE  device[vault[list'[j]].id] = list'[j] /\ ~ Unlinking(j)'
    <3>1. PICK i \in 1 .. Len(list) : i # k /\ list'[j] = list[i]
      BY <1>6
    <3>2. device[vault[list[i]].id] = list[i]
      BY <1>5, <3>1 DEF Inv, DeviceInv
    <3>3. QED
      BY <1>4, <3>1, <3>2 DEF Unlinking, InList
  <2>2. ASSUME NEW n \in Ids, \A j \in 1 .. Len(list') : vault[list'[j]].id # n
        PROVE  device[n] = None
    <3>1. CASE n = vault[list[k]].id
      BY <1>5, <3>1 DEF Inv, DeviceInv
    <3>2. CASE n # vault[list[k]].id
      <4>1. ASSUME NEW i \in 1 .. Len(list), i # k
            PROVE  vault[list[i]].id # n
        <5>1. CASE i < k
          <6>1. i \in 1 .. Len(list') /\ list'[i] = list[i]
            BY <1>0, <1>3, <5>1
          <6>2. QED
            BY <2>2, <6>1
        <5>2. CASE i > k
          <6>1. i - 1 \in 1 .. Len(list') /\ list'[i - 1] = list[i]
            BY <1>0, <1>3, <5>2
          <6>2. QED
            BY <2>2, <6>1
        <5>3. QED
          BY <4>1, <5>1, <5>2
      <4>2. \A i \in 1 .. Len(list) : vault[list[i]].id # n
        BY <3>2, <4>1
      <4>3. QED
        BY <4>2 DEF Inv, DeviceInv
    <3>3. QED
      BY <3>1, <3>2
  <2>3. QED
    BY <1>2, <2>1, <2>2 DEF DeviceInv
<1>9. QED
  BY <1>7, <1>8

-----------------------------------------------------------------------------
(* The invariant                                                           *)

LEMMA InitInv == Init => Inv
<1>1. ASSUME Init PROVE Inv
  <2>1. TypeOK
    BY <1>1, InitType
  <2>2. CallInv /\ LockInv
    BY <1>1 DEF Init, CallInv, LockInv, InList
  <2>3. ListInv
    BY <1>1, EmptySeq DEF Init, ListInv, UniqueIds
  <2>4. DeviceInv
    BY <1>1, EmptySeq DEF Init, DeviceInv
  <2>5. QED
    BY <2>1, <2>2, <2>3, <2>4 DEF Inv
<1>2. QED
  BY <1>1

LEMMA StutterInv == Inv /\ UNCHANGED vars => Inv'
<1>1. ASSUME Inv, UNCHANGED vars PROVE Inv'
  <2>1. TypeOK' /\ CallInv'
    BY <1>1 DEF Inv, TypeOK, CallInv, vars, shared, local
  <2>2. \A t \in Threads : InList(t)' <=> InList(t)
    BY <1>1 DEF InList, vars, shared, local
  <2>3. \A k : /\ NodeAt(k)' = NodeAt(k)
               /\ Unlinking(k)' <=> Unlinking(k)
    BY <1>1 DEF NodeAt, Unlinking, vars, shared, local
  <2>4. LockInv'
    BY <1>1, <2>2 DEF Inv, LockInv, vars, shared
  <2>5. ListInv'
    BY <1>1, <2>3 DEF Inv, ListInv, UniqueIds, vars, shared, local
  <2>6. DeviceInv'
    BY <1>1, <2>3 DEF Inv, DeviceInv, vars, shared
  <2>7. QED
    BY <2>1, <2>4, <2>5, <2>6 DEF Inv
<1>2. QED
  BY <1>1

LEMMA StepInv ==
    ASSUME Inv, NEW t \in Threads, Start(t) \/ Run(t)
    PROVE  Inv'
<1>0. CallInv'
  BY CallStep DEF Inv
<1>1. CASE \/ Start(t) \/ Get(t) \/ Lock(t) \/ Wake(t) \/ Unlock(t)
           \/ RemoveCheck(t) \/ Count(t) \/ OpenFinish(t) \/ Close(t)
  <2>1. TypeOK'
    BY <1>1, StartType, GetType, LockType, RemoveType, OpenType DEF Inv
  <2>2. Outside(t)
    BY <1>1, OutsideSteps DEF Inv
  <2>3. LockInv' /\ ListInv' /\ DeviceInv'
    BY <2>2, OutsideLock, OutsideList, OutsideDevice DEF Inv
  <2>4. QED
    BY <1>0, <2>1, <2>3 DEF Inv
<1>2. CASE CreateEnter(t) \/ CreateFails(t)
  BY <1>0, <1>2, CreateType, LockStep, CreateWalk DEF Inv
<1>3. CASE CreateFinish(t)
  BY <1>0, <1>3, FinishType, LockStep, FinishStep DEF Inv
<1>4. CASE RemoveEnter(t)
  BY <1>0, <1>4, RemoveType, LockStep, RemoveEnterStep DEF Inv
<1>5. CASE RemoveFinish(t)
  BY <1>0, <1>5, UnlinkType, LockStep, UnlinkStep DEF Inv
<1>6. QED
  BY <1>1, <1>2, <1>3, <1>4, <1>5 DEF Run

(* The inductive invariant: types, the lock, the list and the devices hold *)
(* together, as each step of create_new_vault and delete_node needs all of *)
(* them.                                                                   *)
THEOREM CalmInv == CalmSpec => []Inv
<1>1. Inv /\ [CalmNext]_vars => Inv'
  BY StepInv, StutterInv DEF CalmNext, Stuck
<1>2. QED
  BY <1>1, InitInv, PTL DEF CalmSpec

(* Every variable keeps its type, whatever system calls run together: in   *)
(* particular only nodes of vaults are freed, never the static Root.       *)
THEOREM CalmTypes == CalmSpec => []TypeOK
  BY CalmInv, PTL DEF Inv

(* vault_lock is a mutex on every path through create_new_vault and        *)
(* delete_node, for any number of threads.                                 *)
THEOREM CalmListExclusive == CalmSpec => []ListExclusive
<1>1. Inv => ListExclusive
  <2>1. SUFFICES ASSUME Inv PROVE ListExclusive
    OBVIOUS
  <2>2. CASE vault_lock = 1 /\ \A t \in Threads : ~ InList(t)
    <3>1. {t \in Threads : InList(t)} = {}
      BY <2>2
    <3>2. QED
      BY <2>2, <3>1, FS_EmptySet DEF ListExclusive
  <2>3. CASE /\ vault_lock = 0
             /\ \E t \in Threads :
                  InList(t) /\ \A u \in Threads \ {t} : ~ InList(u)
    <3>1. PICK t \in Threads : {u \in Threads : InList(u)} = {t}
      BY <2>3
    <3>2. Cardinality({u \in Threads : InList(u)}) = 1
      BY <3>1, FS_Singleton
    <3>3. QED
      BY <2>3, <3>2 DEF ListExclusive
  <2>4. QED
    BY <2>1, <2>2, <2>3 DEF Inv, LockInv
<1>2. QED
  BY <1>1, CalmInv, PTL

(* No two vaults of the list ever share a number, although get_vault and   *)
(* create_new_vault take the lock one after the other.                     *)
THEOREM CalmUniqueIds == CalmSpec => []UniqueIds
<1>1. Inv => UniqueIds
  BY DEF Inv, ListInv
<1>2. QED
  BY <1>1, CalmInv, PTL

(* Between two changes of the list the devices are those of its vaults.    *)
THEOREM CalmDevicesMatchList == CalmSpec => []DevicesMatchList
<1>1. Inv => DevicesMatchList
  <2>1. SUFFICES ASSUME Inv, \A t \in Threads : pc[t] # "unlink", NEW id \in Ids
        PROVE  device[id] = IF WithId(id) = {} THEN None
                                               ELSE list[First(WithId(id))]
    BY DEF DevicesMatchList
  <2>2. CASE WithId(id) = {}
    BY <2>1, <2>2 DEF Inv, DeviceInv, WithId
  <2>3. CASE WithId(id) # {}
    <3>1. PICK k \in 1 .. Len(list) : vault[list[k]].id = id
      BY <2>3 DEF WithId
    <3>2. First(WithId(id)) = k
      BY <2>1, <3>1, FirstWithId DEF Inv, ListInv
    <3>3. device[id] = list[k]
      BY <2>1, <3>1 DEF Inv, DeviceInv, Unlinking
    <3>4. QED
      BY <2>3, <3>2, <3>3
  <2>4. QED
    BY <2>2, <2>3
<1>2. QED
  BY <1>1, CalmInv, PTL

(* A module whose removes run alone is a special case.                     *)
THEOREM QuietTypes == QuietSpec => []TypeOK
<1>1. QuietSpec => CalmSpec
  <2>1. [QuietNext]_vars => [CalmNext]_vars
    BY DEF QuietNext, CalmNext
  <2>2. QED
    BY <2>1, PTL DEF QuietSpec, CalmSpec
<1>2. QED
  BY <1>1, CalmTypes, PTL

-----------------------------------------------------------------------------
(* Vaults of the list                                                      *)

(* Listed vaults were made, and are no NULL pointer.                       *)
LEMMA ListedMade ==
    ASSUME Inv
    PROVE  /\ Listed \subseteq 1 .. made
           /\ \A k \in 1 .. Len(list) : list[k] \in 1 .. made
           /\ made \in Nat /\ 1 .. made \subseteq Vaults
           /\ None \notin 1 .. made
<1>1. made \in Nat /\ made <= MaxVaults
  BY VaultAssumption DEF Inv, TypeOK
<1>2. \A k \in 1 .. Len(list) : list[k] \in 1 .. made
  BY ElementOfSeq DEF Inv, ListInv
<1>3. QED
  BY <1>1, <1>2, VaultAssumption DEF Listed, Vaults, None

(* What a node of the list points to: its vault, and nothing else.         *)
LEMMA NodePointsTo ==
    ASSUME Inv, FreedInv, NEW k \in 1 .. Len(list)
    PROVE  VaultOf(NodeAt(k)) = {list[k]}
<1>1. list[k] \in 1 .. made /\ Len(list) \in Nat
  BY ListedMade, LenProperties DEF Inv, TypeOK
<1>2. list[k] # Root
  BY <1>1, ListedMade DEF Root, Vaults
<1>3. CASE k = 1
  <2>1. NodeAt(k) = Root
    BY <1>3 DEF NodeAt
  <2>2. list # << >>
    BY <1>3, EmptySeq
  <2>3. QED
    BY <1>3, <2>1, <2>2 DEF VaultOf
<1>4. CASE k # 1
  <2>1. NodeAt(k) = list[k] /\ list[k] \notin freed
    BY <1>1, <1>4 DEF NodeAt, FreedInv
  <2>2. QED
    BY <1>2, <2>1 DEF VaultOf
<1>5. QED
  BY <1>3, <1>4

-----------------------------------------------------------------------------
(* What a step leaves alone                                                *)

(* Nobody writes the locals of another thread.                             *)
OthersKept(t) ==
    \A u \in Threads \ {t} :
        /\ pc'[u] = pc[u] /\ call'[u] = call[u] /\ node'[u] = node[u]
        /\ at'[u] = at[u] /\ fd'[u] = fd[u]

LEMMA ReturnKeeps ==
    ASSUME TypeOK, NEW t \in Threads, NEW f, Return(t, f)
    PROVE  /\ OthersKept(t)
           /\ pc'[t] = "idle" /\ call'[t] = NoCall /\ node'[t] = None
           /\ at'[t] = None /\ fd'[t] = f
  BY DEF TypeOK, Return, Goto, OthersKept

LEMMA GotoKeeps ==
    ASSUME TypeOK, NEW t \in Threads, NEW there, Goto(t, there)
    PROVE  pc'[t] = there /\ \A u \in Threads \ {t} : pc'[u] = pc[u]
  BY DEF TypeOK, Goto

LEMMA StepKeeps ==
    ASSUME TypeOK, NEW t \in Threads, Start(t) \/ Run(t)
    PROVE  OthersKept(t)
<1>1. CASE Start(t)
  BY <1>1, GotoKeeps DEF TypeOK, Start, CallControl, CallOpen, CallOnFile,
     Begin, OthersKept
<1>2. CASE Get(t)
  BY <1>2, ReturnKeeps, GotoKeeps DEF TypeOK, Get, OthersKept
<1>3. CASE Lock(t) \/ Wake(t) \/ Unlock(t)
  BY <1>3, ReturnKeeps, GotoKeeps DEF TypeOK, Lock, Wake, Unlock, OthersKept
<1>4. CASE CreateEnter(t) \/ CreateFails(t) \/ CreateFinish(t)
  BY <1>4, ReturnKeeps, GotoKeeps DEF TypeOK, CreateEnter, CreateFails,
     CreateFinish, OthersKept
<1>5. CASE RemoveCheck(t) \/ RemoveEnter(t) \/ RemoveFinish(t)
  BY <1>5, ReturnKeeps, GotoKeeps DEF TypeOK, RemoveCheck, RemoveEnter, Free,
     RemoveFinish, OthersKept
<1>6. CASE Count(t) \/ OpenFinish(t) \/ Close(t)
  BY <1>6, ReturnKeeps, GotoKeeps DEF TypeOK, Count, OpenFinish, Close,
     OthersKept
<1>7. QED
  BY <1>1, <1>2, <1>3, <1>4, <1>5, <1>6 DEF Run

(* Positions and numbers stay, unless a vault is unlinked.                 *)
Grows ==
    /\ Len(list) \in Nat /\ Len(list') \in Nat /\ Len(list) <= Len(list')
    /\ \A k \in 1 .. Len(list) :
         list'[k] = list[k] /\ vault'[list[k]].id = vault[list[k]].id

LEMMA StepGrows ==
    ASSUME Inv, NEW t \in Threads, Start(t) \/ Run(t), ~ RemoveFinish(t)
    PROVE  Grows
<1>0. Len(list) \in Nat /\ \A k \in 1 .. Len(list) : list[k] \in 1 .. made
  BY ListedMade, LenProperties DEF Inv, TypeOK
<1>1. CASE \/ Start(t) \/ Get(t) \/ Lock(t) \/ Wake(t) \/ Unlock(t)
           \/ RemoveCheck(t) \/ Count(t) \/ OpenFinish(t) \/ Close(t)
  BY <1>0, <1>1, OutsideSteps DEF Inv, Outside, Grows
<1>2. CASE CreateEnter(t) \/ CreateFails(t) \/ RemoveEnter(t)
  BY <1>0, <1>2 DEF CreateEnter, CreateFails, RemoveEnter, Grows
<1>3. CASE CreateFinish(t)
  BY <1>0, <1>3, FinishList DEF Grows
<1>4. QED
  BY <1>1, <1>2, <1>3 DEF Run

LEMMA GrowsListed ==
    ASSUME Grows
    PROVE  /\ Listed \subseteq Listed'
           /\ \A k \in 1 .. Len(list) : NodeAt(k)' = NodeAt(k)
<1>1. \A k \in 1 .. Len(list) : k \in 1 .. Len(list') /\ list'[k] = list[k]
  BY DEF Grows
<1>2. QED
  BY <1>1 DEF Listed, NodeAt

-----------------------------------------------------------------------------
(* Who follows a bad pointer                                               *)

(* A number that has a device belongs to a vault that was made.            *)
LEMMA DeviceMade ==
    ASSUME Inv, NEW id \in Ids, device[id] # None
    PROVE  device[id] \in 1 .. made
<1>1. PICK k \in 1 .. Len(list) : vault[list[k]].id = id
  BY DEF Inv, DeviceInv
<1>2. device[id] = list[k]
  BY <1>1 DEF Inv, DeviceInv
<1>3. QED
  BY <1>2, ListedMade

(* Nodes of the list are no NULL pointers.                                 *)
LEMMA NodeNotNull ==
    ASSUME Inv, NEW k \in 1 .. Len(list)
    PROVE  NodeAt(k) # None
  BY ListedMade DEF NodeAt, Root, None

(* A call that finds no vault at its node has a node, and a vault was      *)
(* removed.                                                                *)
LEMMA NullTarget ==
    ASSUME Inv, OopsInv, NEW t \in Threads, Engaged(t), None \in Target(t)
    PROVE  ~ Whole /\ node[t] # None
<1>1. Settled(t)
  BY DEF OopsInv
<1>2. call[t].op \notin OnFile /\ node[t] # None
  BY <1>1 DEF Settled, Target
<1>3. ASSUME Whole PROVE FALSE
  <2>1. PICK k \in 1 .. Len(list) : node[t] = NodeAt(k)
    BY <1>1, <1>2, <1>3 DEF Settled
  <2>2. Target(t) = {list[k]}
    BY <1>2, <1>3, <2>1, NodePointsTo DEF Target, OopsInv
  <2>3. QED
    BY <2>2, ListedMade
<1>4. QED
  BY <1>2, <1>3

(* An open whose vault is not in the list has lost it to a remove.         *)
LEMMA OpenLost ==
    ASSUME Inv, OopsInv, NEW t \in Threads, call[t].op = "OPEN",
           WithCdev(call[t].cdev) = {}
    PROVE  ~ Whole /\ call[t].cdev \notin Listed
<1>1. call[t].cdev \notin Listed
  BY DEF WithCdev, Listed
<1>2. call[t].cdev \in 1 .. made
  BY DEF OopsInv
<1>3. ASSUME Whole PROVE FALSE
  <2>1. list[call[t].cdev] = call[t].cdev /\ call[t].cdev \in 1 .. Len(list)
    BY <1>2, <1>3 DEF OopsInv, Whole
  <2>2. QED
    BY <1>1, <2>1 DEF Listed
<1>4. QED
  BY <1>1, <1>3

(* A step that leaves the list alone, from what it does to its own thread. *)
LEMMA OopsFrame ==
    ASSUME Inv, OopsInv, NEW t \in Threads, OthersKept(t),
           UNCHANGED <<list, made, freed>>,
           Engaged(t)' => Settled(t)',
           pc'[t] = "get" => call'[t].op \notin OnFile,
           call'[t].op = "OPEN" => call'[t].cdev \in 1 .. made,
           pc'[t] = "oops" =>
               ~ Whole /\ (node'[t] = None => call'[t].cdev \notin Listed)
    PROVE  OopsInv'
<1>1. /\ Len(list) \in Nat /\ made \in Nat /\ Len(list) <= made
      /\ Whole' <=> Whole /\ \A k : NodeAt(k)' = NodeAt(k)
      /\ Listed' = Listed
  BY LenProperties, ListedMade DEF Inv, TypeOK, OopsInv, Whole, NodeAt, Listed
<1>2. Whole' => FreedInv' /\ \A k \in 1 .. Len(list') : list'[k] = k
  BY <1>1 DEF OopsInv, FreedInv
<1>3. ASSUME NEW u \in Threads
      PROVE  /\ Engaged(u)' => Settled(u)'
             /\ pc'[u] = "get" => call'[u].op \notin OnFile
             /\ call'[u].op = "OPEN" => call'[u].cdev \in 1 .. made'
             /\ pc'[u] = "oops" =>
                  ~ Whole' /\ (node'[u] = None => call'[u].cdev \notin Listed')
  <2>1. CASE u = t
    BY <1>1, <2>1
  <2>2. CASE u # t
    <3>1. /\ pc'[u] = pc[u] /\ call'[u] = call[u] /\ node'[u] = node[u]
          /\ fd'[u] = fd[u]
      BY <2>2 DEF OthersKept
    <3>2. Engaged(u)' => Settled(u)'
      BY <1>1, <3>1 DEF OopsInv, Engaged, Settled
    <3>3. pc[u] = "oops" =>
            ~ Whole /\ (node[u] = None => call[u].cdev \notin Listed)
      BY <1>1 DEF OopsInv, OopsFromRemove, Whole
    <3>4. QED
      BY <1>1, <3>1, <3>2, <3>3 DEF OopsInv
  <2>3. QED
    BY <2>1, <2>2
<1>4. ~ Whole' => Len(list') < made'
  BY <1>1 DEF Whole
<1>5. OopsFromRemove'
  BY <1>3, <1>4 DEF OopsFromRemove
<1>6. QED
  BY <1>1, <1>2, <1>3, <1>5 DEF OopsInv

(* A return to user space leaves nothing behind.                           *)
LEMMA OopsReturn ==
    ASSUME Inv, OopsInv, NEW t \in Threads, NEW f, Return(t, f),
           UNCHANGED <<list, made, freed>>
    PROVE  OopsInv'
<1>1. /\ OthersKept(t) /\ pc'[t] = "idle" /\ call'[t].op = "NONE"
  BY ReturnKeeps DEF Inv, NoCall
<1>2. ~ Engaged(t)'
  BY <1>1 DEF Engaged, Locking
<1>3. QED
  BY <1>1, <1>2, OopsFrame

(* A step of a call that has its vault: it goes on, or follows a bad       *)
(* pointer.                                                                *)
LEMMA OopsMove ==
    ASSUME Inv, OopsInv, NEW t \in Threads, OthersKept(t), Engaged(t),
           UNCHANGED <<list, made, freed>>,
           call'[t] = call[t], node'[t] = node[t], fd'[t] = fd[t],
           pc'[t] # "get", pc'[t] = "oops" => None \in Target(t)
    PROVE  OopsInv'
<1>1. Settled(t) /\ (call[t].op = "OPEN" => call[t].cdev \in 1 .. made)
  BY DEF OopsInv
<1>2. Settled(t)'
  BY <1>1 DEF Settled, Whole, NodeAt
<1>3. pc'[t] = "oops" => ~ Whole /\ node[t] # None
  BY NullTarget
<1>4. QED
  BY <1>1, <1>2, <1>3, OopsFrame

LEMMA OopsStart ==
    ASSUME Inv, OopsInv, NEW t \in Threads, Start(t)
    PROVE  OopsInv'
<1>0. TypeOK /\ OthersKept(t)
  BY StepKeeps DEF Inv
<1>1. CASE CallControl(t)
  <2>1. /\ pc'[t] = "get" /\ call'[t].op \in Control
        /\ UNCHANGED <<list, made, freed>>
    BY <1>0, <1>1, GotoKeeps DEF CallControl, Begin, TypeOK, shared
  <2>2. QED
    BY <1>0, <2>1, OopsFrame DEF Control, OnFile, Engaged, Locking
<1>2. CASE CallOpen(t)
  <2>1. PICK id \in Ids : /\ device[id] # None
                          /\ Begin(t, "get", "OPEN", id, device[id])
    BY <1>2 DEF CallOpen
  <2>2. /\ pc'[t] = "get" /\ call'[t].op = "OPEN" /\ call'[t].cdev = device[id]
        /\ UNCHANGED <<list, made, freed>>
    BY <1>0, <2>1, GotoKeeps DEF Begin, TypeOK, shared
  <2>3. call'[t].cdev \in 1 .. made
    BY <2>1, <2>2, DeviceMade
  <2>4. QED
    BY <1>0, <2>2, <2>3, OopsFrame DEF OnFile, Engaged, Locking
<1>3. CASE CallOnFile(t)
  <2>1. PICK op \in OnFile : fd[t] # None /\ Begin(t, "lock", op, None, None)
    BY <1>3 DEF CallOnFile
  <2>2. /\ pc'[t] = "lock" /\ call'[t].op = op /\ fd'[t] # None
        /\ UNCHANGED <<list, made, freed>>
    BY <1>0, <2>1, GotoKeeps DEF Begin, TypeOK, shared
  <2>3. Settled(t)' /\ call'[t].op # "OPEN"
    BY <2>1, <2>2 DEF Settled, OnFile
  <2>4. QED
    BY <1>0, <2>2, <2>3, OopsFrame
<1>4. QED
  BY <1>1, <1>2, <1>3 DEF Start

(* get_vault and get_vault_by_cdev.                                        *)
LEMMA OopsGet ==
    ASSUME Inv, OopsInv, NEW t \in Threads, Get(t)
    PROVE  OopsInv'
<1> DEFINE found == IF call[t].op = "OPEN" THEN WithCdev(call[t].cdev)
                                           ELSE WithId(call[t].id)
<1>0. /\ TypeOK /\ OthersKept(t) /\ UNCHANGED <<list, made, freed>>
      /\ pc[t] = "get" /\ call[t].op \notin OnFile
      /\ call[t].op = "OPEN" => call[t].cdev \in 1 .. made
  <2>1. TypeOK /\ OthersKept(t)
    BY StepKeeps DEF Inv, Run
  <2>2. UNCHANGED <<list, made, freed>> /\ pc[t] = "get"
    BY DEF Get, shared
  <2>3. QED
    BY <2>1, <2>2 DEF OopsInv
<1>1. CASE /\ found # {} /\ node' = [node EXCEPT ![t] = NodeAt(First(found))]
           /\ Goto(t, "lock") /\ UNCHANGED <<call, at, fd>>
  <2>1. found \subseteq 1 .. Len(list) /\ found \subseteq Nat
    BY DEF WithCdev, WithId
  <2>2. First(found) \in 1 .. Len(list)
    BY <1>1, <2>1, FirstIsThere
  <2>3. node'[t] = NodeAt(First(found)) /\ pc'[t] = "lock" /\ call' = call
    BY <1>0, <1>1, GotoKeeps DEF TypeOK
  <2>4. Settled(t)'
    <3>1. NodeAt(First(found)) # None
      BY <2>2, NodeNotNull
    <3>2. NodeAt(First(found)) = NodeAt(First(found))'
      BY <1>0, <2>3 DEF NodeAt, First, WithCdev, WithId, Get, shared
    <3>3. \E k \in 1 .. Len(list') : node'[t] = NodeAt(k)'
      BY <1>0, <2>2, <2>3 DEF NodeAt
    <3>4. QED
      BY <1>0, <2>3, <3>1, <3>3 DEF Settled
  <2>5. QED
    BY <1>0, <2>3, <2>4, OopsFrame
<1>2. CASE /\ found = {} /\ call[t].op = "CREATE" /\ Goto(t, "create")
           /\ UNCHANGED <<call, node, at, fd>>
  <2>1. pc'[t] = "create" /\ call' = call
    BY <1>0, <1>2, GotoKeeps
  <2>2. QED
    BY <1>0, <2>1, OopsFrame DEF Engaged, Locking
<1>3. CASE /\ found = {} /\ call[t].op = "OPEN" /\ Goto(t, "oops")
           /\ UNCHANGED <<call, node, at, fd>>
  <2>1. pc'[t] = "oops" /\ call' = call /\ ~ Engaged(t)'
    BY <1>0, <1>3, GotoKeeps DEF Engaged, Locking
  <2>2. ~ Whole /\ call[t].cdev \notin Listed
    BY <1>3, OpenLost
  <2>3. QED
    BY <1>0, <2>1, <2>2, OopsFrame
<1>4. CASE Return(t, fd[t])
  BY <1>0, <1>4, OopsReturn
<1>5. QED
  BY <1>1, <1>2, <1>3, <1>4 DEF Get

(* The steps with the lock of the vault, but for the end of a remove.      *)
LEMMA OopsLocked ==
    ASSUME Inv, OopsInv, NEW t \in Threads,
           \/ Lock(t) \/ Wake(t) \/ Unlock(t) \/ RemoveCheck(t)
           \/ Count(t) \/ OpenFinish(t) \/ Close(t)
    PROVE  OopsInv'
<1>1. TypeOK /\ OthersKept(t)
  BY StepKeeps DEF Inv, Run
<1>2. UNCHANGED <<list, made, freed>>
  BY DEF Lock, Wake, Unlock, RemoveCheck, Count, OpenFinish, Close, shared
<1>3. Engaged(t)
  BY DEF Lock, Wake, Unlock, RemoveCheck, Count, OpenFinish, Close, Engaged,
         Locking
<1>4. CASE \E f : Return(t, f)
  BY <1>2, <1>4, OopsReturn
<1>5. CASE \A f : ~ Return(t, f)
  <2>1. UNCHANGED <<call, node, fd>>
    BY <1>5 DEF Lock, Wake, Unlock, RemoveCheck, Count, OpenFinish, Close
  <2>2. PICK p : Goto(t, p) /\ p # "get" /\ (p = "oops" => None \in Target(t))
    <3>1. CASE Lock(t) \/ Wake(t) \/ Unlock(t)
      BY <1>5, <3>1 DEF Lock, Wake, Unlock
    <3>2. CASE RemoveCheck(t)
      <4>1. PICK v \in Target(t) :
              Goto(t, IF v = None THEN "oops"
                      ELSE IF Denied(t, v) THEN "unlock" ELSE "delete")
        BY <3>2 DEF RemoveCheck
      <4>2. CASE v = None
        <5>1. Goto(t, "oops") /\ None \in Target(t)
          BY <4>1, <4>2
        <5>2. QED
          BY <5>1
      <4>3. CASE v # None /\ Denied(t, v)
        <5>1. Goto(t, "unlock")
          BY <4>1, <4>3
        <5>2. QED
          BY <5>1
      <4>4. CASE v # None /\ ~ Denied(t, v)
        <5>1. Goto(t, "delete")
          BY <4>1, <4>4
        <5>2. QED
          BY <5>1
      <4>5. QED
        BY <4>2, <4>3, <4>4
    <3>3. CASE Count(t) \/ OpenFinish(t)
      <4>1. PICK v \in Target(t) :
              \/ v = None /\ Goto(t, "oops")
              \/ v # None /\ Goto(t, "alloc")
        BY <1>5, <3>3 DEF Count, OpenFinish
      <4>2. QED
        BY <4>1
    <3>4. CASE Close(t)
      BY <1>5, <3>4 DEF Close
    <3>5. QED
      BY <3>1, <3>2, <3>3, <3>4
  <2>3. pc'[t] = p
    BY <1>1, <2>2, GotoKeeps
  <2>4. QED
    BY <1>1, <1>2, <1>3, <2>1, <2>2, <2>3, OopsMove
<1>6. QED
  BY <1>4, <1>5

(* delete_node has its node, and the list, until it unlinks.               *)
LEMMA OopsEnter ==
    ASSUME Inv, OopsInv, NEW t \in Threads,
           CreateEnter(t) \/ CreateFails(t) \/ RemoveEnter(t)
    PROVE  OopsInv'
<1>1. TypeOK /\ OthersKept(t) /\ UNCHANGED <<list, made, freed>>
  <2>1. TypeOK /\ OthersKept(t)
    BY StepKeeps DEF Inv, Run
  <2>2. QED
    BY <2>1 DEF CreateEnter, CreateFails, RemoveEnter
<1>2. CASE CreateFails(t)
  BY <1>1, <1>2, OopsReturn DEF CreateFails
<1>3. CASE CreateEnter(t)
  <2>1. pc'[t] = "link" /\ call' = call
    BY <1>1, <1>3, GotoKeeps DEF CreateEnter
  <2>2. QED
    BY <1>1, <2>1, OopsFrame DEF Engaged, Locking, OopsInv
<1>4. CASE RemoveEnter(t)
  <2>1. /\ UNCHANGED <<call, fd>> /\ pc'[t] \in {"unlock", "unlink"}
        /\ Engaged(t)
    BY <1>1, <1>4, GotoKeeps DEF RemoveEnter, Free, Engaged, Locking
  <2>2. CASE node' = node
    BY <1>1, <2>1, <2>2, OopsMove
  <2>3. CASE node' # node
    <3>1. WithId(call[t].id) # {} /\ WithId(call[t].id) \subseteq Nat
      BY <1>4, <2>3 DEF RemoveEnter, WithId
    <3>2. First(WithId(call[t].id)) \in 1 .. Len(list)
      BY <3>1, FirstIsThere DEF WithId
    <3>3. PICK k \in 1 .. Len(list) : node' = [node EXCEPT ![t] = NodeAt(k)]
      BY <1>4, <2>3, <3>2 DEF RemoveEnter, Free
    <3>4. node'[t] = NodeAt(k) /\ node'[t] # None
      BY <1>1, <3>3, NodeNotNull DEF TypeOK
    <3>5. Settled(t)
      BY <2>1 DEF OopsInv
    <3>6. Settled(t)'
      BY <1>1, <2>1, <3>4, <3>5 DEF Settled, NodeAt
    <3>7. QED
      BY <1>1, <2>1, <3>6, OopsFrame DEF OopsInv
  <2>4. QED
    BY <2>2, <2>3
<1>5. QED
  BY <1>2, <1>3, <1>4

(* A new vault goes behind the others, and has a number of its own.        *)
LEMMA OopsFinish ==
    ASSUME Inv, OopsInv, NEW t \in Threads, CreateFinish(t)
    PROVE  OopsInv'
<1>0. /\ TypeOK /\ OthersKept(t) /\ Grows
      /\ Len(list) \in Nat /\ made \in Nat /\ made' = made + 1
      /\ Len(list') = Len(list) + 1 /\ list'[Len(list) + 1] = made + 1
      /\ \A k \in 1 .. Len(list) : list'[k] = list[k]
  <2>1. OthersKept(t)
    BY StepKeeps DEF Inv, Run
  <2>2. ~ RemoveFinish(t)
    BY DEF CreateFinish, RemoveFinish
  <2>3. Grows
    BY <2>2, StepGrows DEF Run
  <2>4. TypeOK /\ made \in Nat /\ made' = made + 1 /\ Len(list) \in Nat
    BY LenProperties DEF Inv, TypeOK, CreateFinish
  <2>5. /\ Len(list') = Len(list) + 1 /\ list'[Len(list) + 1] = made + 1
        /\ \A k \in 1 .. Len(list) : list'[k] = list[k]
    BY FinishList
  <2>6. QED
    BY <2>1, <2>3, <2>4, <2>5
<1>1. Len(list') <= made' /\ (Whole' <=> Whole)
  BY <1>0 DEF OopsInv, Whole
<1>2. ASSUME Whole'
      PROVE  FreedInv' /\ \A k \in 1 .. Len(list') : list'[k] = k
  <2>1. /\ FreedInv /\ \A k \in 1 .. Len(list) : list[k] = k
        /\ Len(list) = made
    BY <1>1, <1>2 DEF OopsInv, Whole
  <2>2. \A k \in 1 .. Len(list') : list'[k] = k
    BY <1>0, <2>1
  <2>3. freed' \subseteq 1 .. made'
    BY <1>0, <2>1 DEF FreedInv, CreateFinish
  <2>4. ASSUME NEW k \in 2 .. Len(list') PROVE k \notin freed'
    <3>1. CASE list = << >>
      BY <1>0, <2>4, <3>1
    <3>2. CASE list # << >>
      <4>1. freed' = freed
        BY <3>2 DEF CreateFinish
      <4>2. QED
        BY <1>0, <2>1, <2>4, <4>1 DEF FreedInv
    <3>3. QED
      BY <3>1, <3>2
  <2>5. QED
    BY <2>2, <2>3, <2>4 DEF FreedInv
<1>3. pc'[t] = "idle" /\ call'[t].op = "NONE" /\ ~ Engaged(t)'
  BY <1>0, ReturnKeeps DEF CreateFinish, NoCall, Engaged, Locking
<1>4. \A k \in 1 .. Len(list) : NodeAt(k)' = NodeAt(k) /\ k \in 1 .. Len(list')
  BY <1>0, GrowsListed
<1>5. Listed' = Listed \cup {made + 1}
  <2>1. 1 .. Len(list') = 1 .. Len(list) \cup {Len(list) + 1}
    BY <1>0
  <2>2. QED
    BY <1>0, <2>1 DEF Listed
<1>6. ASSUME NEW u \in Threads, u # t
      PROVE  /\ Engaged(u)' => Settled(u)'
             /\ pc'[u] = "get" => call'[u].op \notin OnFile
             /\ call'[u].op = "OPEN" => call'[u].cdev \in 1 .. made'
             /\ pc'[u] = "oops" =>
                  /\ ~ Whole'
                  /\ node'[u] = None => call'[u].cdev \notin Listed'
  <2>1. /\ pc'[u] = pc[u] /\ call'[u] = call[u] /\ node'[u] = node[u]
        /\ fd'[u] = fd[u]
    BY <1>0, <1>6 DEF OthersKept
  <2>2. Engaged(u)' => Settled(u)'
    BY <1>1, <1>4, <2>1 DEF OopsInv, Engaged, Settled
  <2>3. call[u].op = "OPEN" => call[u].cdev \in 1 .. made
    BY DEF OopsInv
  <2>4. call[u].cdev # made + 1
    <3>1. call[u].op # "OPEN" => call[u].cdev = None
      BY <1>0 DEF TypeOK, Call, NoCall, Control, OnFile
    <3>2. QED
      BY <1>0, <2>3, <3>1 DEF None
  <2>5. pc[u] = "oops" =>
          ~ Whole /\ (node[u] = None => call[u].cdev \notin Listed)
    BY <1>0 DEF OopsInv, OopsFromRemove, Whole
  <2>6. pc'[u] = "get" => call'[u].op \notin OnFile
    BY <2>1 DEF OopsInv
  <2>7. call'[u].op = "OPEN" => call'[u].cdev \in 1 .. made'
    BY <1>0, <2>1, <2>3
  <2>8. QED
    BY <1>1, <1>5, <2>1, <2>2, <2>4, <2>5, <2>6, <2>7
<1>7. ~ Whole' => Len(list') < made'
  BY <1>0, <1>1 DEF Whole
<1>8. OopsFromRemove'
  BY <1>3, <1>6, <1>7 DEF OopsFromRemove
<1>9. QED
  BY <1>1, <1>2, <1>3, <1>6, <1>8 DEF OopsInv

(* From the first remove on the list is shorter than what was made.        *)
LEMMA OopsUnlink ==
    ASSUME Inv, OopsInv, NEW t \in Threads, RemoveFinish(t)
    PROVE  OopsInv'
<1>1. PICK k \in 1 .. Len(list) : node[t] = NodeAt(k)
  BY DEF Inv, ListInv, RemoveFinish
<1>2. list' = Without(k) /\ made' = made
  <2>1. Position(node[t]) = {k}
    BY <1>1, PositionOf DEF Inv, ListInv
  <2>2. QED
    BY <2>1 DEF RemoveFinish
<1>3. /\ Len(list) \in Nat /\ made \in Nat /\ Len(list') = Len(list) - 1
      /\ \A j \in 1 .. Len(list) - 1 :
           list'[j] = IF j < k THEN list[j] ELSE list[j + 1]
  BY <1>2, WithoutIs, LenProperties, ListedMade DEF Inv, ListInv, TypeOK
<1>4. Len(list') < made' /\ ~ Whole'
  BY <1>2, <1>3 DEF OopsInv, Whole
<1>5. Listed' \subseteq Listed
  BY <1>3 DEF Listed
<1>6. OthersKept(t) /\ pc'[t] = "idle" /\ call'[t].op = "NONE"
  BY ReturnKeeps DEF Inv, RemoveFinish, NoCall
<1>7. ~ Engaged(t)'
  BY <1>6 DEF Engaged, Locking
<1>8. ASSUME NEW u \in Threads, u # t
      PROVE  /\ Engaged(u)' => Settled(u)'
             /\ pc'[u] = "get" => call'[u].op \notin OnFile
             /\ call'[u].op = "OPEN" => call'[u].cdev \in 1 .. made'
             /\ pc'[u] = "oops" =>
                  (node'[u] = None => call'[u].cdev \notin Listed')
  <2>1. /\ pc'[u] = pc[u] /\ call'[u] = call[u] /\ node'[u] = node[u]
        /\ fd'[u] = fd[u]
    BY <1>6, <1>8 DEF OthersKept
  <2>2. Engaged(u)' => Settled(u)'
    BY <1>4, <2>1 DEF OopsInv, Engaged, Settled
  <2>3. pc[u] = "oops" => (node[u] = None => call[u].cdev \notin Listed)
    BY DEF OopsInv, OopsFromRemove
  <2>4. QED
    BY <1>2, <1>5, <2>1, <2>2, <2>3 DEF OopsInv
<1>9. Len(list') <= made'
  BY <1>2, <1>3, <1>4
<1>10. \A u \in Threads :
         /\ Engaged(u)' => Settled(u)'
         /\ pc'[u] = "get" => call'[u].op \notin OnFile
         /\ call'[u].op = "OPEN" => call'[u].cdev \in 1 .. made'
  BY <1>6, <1>7, <1>8
<1>11. OopsFromRemove'
  BY <1>4, <1>6, <1>8 DEF OopsFromRemove
<1>12. QED
  BY <1>4, <1>9, <1>10, <1>11 DEF OopsInv

LEMMA OopsInit == Init => OopsInv
<1>1. ASSUME Init PROVE OopsInv
  <2>1. Len(list) = 0 /\ made = 0 /\ freed = {}
    BY <1>1, EmptySeq DEF Init
  <2>2. \A t \in Threads : pc[t] = "idle" /\ call[t].op = "NONE"
    BY <1>1 DEF Init, NoCall
  <2>3. QED
    BY <2>1, <2>2 DEF OopsInv, FreedInv, Engaged, Locking, OopsFromRemove
<1>2. QED
  BY <1>1

LEMMA OopsStutter == OopsInv /\ UNCHANGED vars => OopsInv'
<1>1. ASSUME OopsInv, UNCHANGED vars PROVE OopsInv'
  <2>1. UNCHANGED <<list, freed, made, pc, call, node, fd>>
    BY <1>1 DEF vars, shared, local
  <2>2. QED
    BY <1>1, <2>1 DEF OopsInv, Whole, FreedInv, Engaged, Settled, NodeAt,
                      OopsFromRemove, Listed
<1>2. QED
  BY <1>1

(* Without a remove no thread follows a NULL or freed pointer, however     *)
(* creates, opens, closes and uses of vaults race; and an open for which   *)
(* get_vault_by_cdev found no vault has lost its own vault to a remove.    *)
THEOREM CalmOopsFromRemove == CalmSpec => []OopsFromRemove
<1>1. ASSUME Inv, OopsInv, NEW t \in Threads, Start(t) \/ Run(t)
      PROVE  OopsInv'
  BY <1>1, OopsStart, OopsGet, OopsLocked, OopsEnter, OopsFinish, OopsUnlink
  DEF Run
<1>2. Inv /\ OopsInv /\ [CalmNext]_vars => OopsInv'
  BY <1>1, OopsStutter DEF CalmNext, Stuck
<1>3. CalmSpec => []OopsInv
  BY <1>2, CalmInv, OopsInit, PTL DEF CalmSpec
<1>4. OopsInv => OopsFromRemove
  BY DEF OopsInv
<1>5. QED
  BY <1>3, <1>4, PTL

================================================================================
