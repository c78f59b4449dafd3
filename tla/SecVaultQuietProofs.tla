-------------------------- MODULE SecVaultQuietProofs --------------------------
(***************************************************************************)
(* Theorems about vaults in use, for any number of threads, users, numbers *)
(* and creations, when removes run alone: the locks and counters of the    *)
(* vaults, and what a system call works on.                                *)
(***************************************************************************)
EXTENDS SecVaultProofs

(* The inductive invariant; SecVault defines its parts.                    *)
QuietInv ==
    /\ Inv /\ AimInv /\ FreedInv /\ HoldInv /\ UsageCounts
    /\ OpenStaysListed /\ UnlinkInv /\ RemovesAlone /\ NoOops

-----------------------------------------------------------------------------
(* What a system call works on                                             *)

(* A call that wants or has the lock of a vault has one vault to work on,  *)
(* which is in the list, and the lock is that one's.                       *)
LEMMA TargetIs ==
    ASSUME QuietInv, NEW t \in Threads, pc[t] \in {"lock"} \cup Locking
    PROVE  \E v \in Listed :
             /\ Target(t) = {v}
             /\ pc[t] # "lock" => at[t] = v
             /\ call[t].op \in Control => vault[v].id = call[t].id
             /\ call[t].op = "OPEN" => v = call[t].cdev
             /\ call[t].op \in OnFile => v = fd[t]
<1>1. Place(t) /\ Aim(t)
  BY DEF QuietInv, AimInv
<1>2. CASE call[t].op \in OnFile
  <2>1. fd[t] \in Listed
    BY <1>1, <1>2 DEF Place, QuietInv, OpenStaysListed
  <2>2. Target(t) = {fd[t]} /\ (pc[t] # "lock" => at[t] = fd[t])
    BY <1>1, <1>2 DEF Target, Aim
  <2>3. QED
    BY <1>2, <2>1, <2>2 DEF OnFile, Control
<1>3. CASE call[t].op \notin OnFile
  <2>1. PICK k \in 1 .. Len(list) : AimedAt(t, k)
    BY <1>1, <1>3 DEF Aim
  <2>2. Target(t) = {list[k]}
    BY <1>3, <2>1, NodePointsTo DEF AimedAt, Target, QuietInv
  <2>3. list[k] \in Listed
    BY DEF Listed
  <2>4. QED
    BY <1>3, <2>1, <2>2, <2>3 DEF AimedAt, Control
<1>4. QED
  BY <1>2, <1>3

(* A thread has or wants no lock but that of a vault in the list.          *)
LEMMA AtIsListed ==
    ASSUME QuietInv, NEW t \in Threads
    PROVE  /\ at[t] \in Listed \cup {None}
           /\ pc[t] \in Locking => at[t] \in Listed
           /\ pc[t] \notin Locking => at[t] = None
<1>1. CASE pc[t] \in Locking
  <2>1. pc[t] # "lock"
    BY <1>1 DEF Locking
  <2>2. QED
    BY <1>1, <2>1, TargetIs
<1>2. CASE pc[t] \notin Locking
  BY <1>2 DEF QuietInv, AimInv, Place
<1>3. QED
  BY <1>1, <1>2

-----------------------------------------------------------------------------
(* Removes alone                                                           *)

(* While a remove goes on, every other thread is in user space.            *)
LEMMA OthersIdle ==
    ASSUME QuietInv, NEW t \in Threads, call[t].op = "REMOVE",
           NEW u \in Threads, u # t
    PROVE  pc[u] = "idle" /\ at[u] = None /\ call[u].op = "NONE"
<1>1. pc[u] = "idle"
  BY DEF QuietInv, RemovesAlone
<1>2. QED
  BY <1>1 DEF QuietInv, AimInv, Place, Locking

(* While another call goes on, no remove does.                             *)
LEMMA NoRemove ==
    ASSUME TypeOK, RemovesAlone, NEW t \in Threads, pc[t] # "idle",
           call[t].op # "REMOVE", NEW u \in Threads
    PROVE  call[u].op # "REMOVE"
  BY DEF RemovesAlone

-----------------------------------------------------------------------------
(* What system calls know                                                  *)

(* What another thread knows stays right.                                  *)
LEMMA OthersAim ==
    ASSUME QuietInv, NEW t \in Threads, OthersKept(t), Grows,
           NEW u \in Threads, u # t
    PROVE  Place(u)' /\ Aim(u)'
<1>1. /\ pc'[u] = pc[u] /\ call'[u] = call[u] /\ node'[u] = node[u]
      /\ at'[u] = at[u] /\ fd'[u] = fd[u]
  BY DEF OthersKept
<1>2. Place(u) /\ Aim(u)
  BY DEF QuietInv, AimInv
<1>3. Place(u)'
  BY <1>1, <1>2, GrowsListed DEF Place
<1>4. ASSUME NEW k \in 1 .. Len(list), AimedAt(u, k) PROVE AimedAt(u, k)'
  BY <1>1, <1>4, GrowsListed DEF AimedAt, Grows
<1>5. \A k \in 1 .. Len(list) : k \in 1 .. Len(list')
  BY DEF Grows
<1>6. Aim(u)'
  BY <1>1, <1>2, <1>4, <1>5 DEF Aim
<1>7. QED
  BY <1>3, <1>6

-----------------------------------------------------------------------------
(* What a system call knows after each step of its own                     *)

LEMMA ReturnAims ==
    ASSUME TypeOK, NEW t \in Threads, NEW f, Return(t, f)
    PROVE  Place(t)' /\ Aim(t)'
  BY ReturnKeeps DEF Place, Aim, NoCall, OnFile, Locking

(* A number has a device only if a vault of the list has it.               *)
LEMMA DeviceListed ==
    ASSUME Inv, NEW id \in Ids, device[id] # None
    PROVE  device[id] \in Listed
<1>1. PICK k \in 1 .. Len(list) : vault[list[k]].id = id
  BY DEF Inv, DeviceInv
<1>2. device[id] = list[k]
  BY <1>1 DEF Inv, DeviceInv
<1>3. QED
  BY <1>2 DEF Listed

LEMMA StartAims ==
    ASSUME QuietInv, NEW t \in Threads, Start(t)
    PROVE  Place(t)' /\ Aim(t)'
<1>0. TypeOK /\ Place(t)
  BY DEF QuietInv, Inv, AimInv
<1>1. ASSUME NEW there \in {"get", "lock"}, NEW op, NEW id, NEW cdev,
             Begin(t, there, op, id, cdev)
      PROVE  /\ pc'[t] = there /\ at'[t] = None /\ fd'[t] = fd[t]
             /\ call'[t].op = op /\ call'[t].cdev = cdev
             /\ Listed' = Listed
  <2>1. at[t] = None
    BY <1>0, <1>1 DEF Begin, Place, Locking
  <2>2. Listed' = Listed
    BY <1>1 DEF Begin, shared, Listed
  <2>3. QED
    BY <1>0, <1>1, <2>1, <2>2, GotoKeeps DEF Begin, TypeOK
<1>2. CASE CallControl(t)
  <2>1. PICK op \in Control, id \in Ids : Begin(t, "get", op, id, None)
    BY <1>2 DEF CallControl
  <2>2. QED
    <3>1. /\ pc'[t] = "get" /\ at'[t] = None
          /\ call'[t].op \in {"CREATE", "REMOVE", "USE"}
      BY <1>1, <2>1 DEF Control
    <3>2. QED
      BY <3>1 DEF Place, Aim, OnFile, Locking
<1>3. CASE CallOpen(t)
  <2>1. PICK id \in Ids : /\ fd[t] = None /\ device[id] # None
                          /\ Begin(t, "get", "OPEN", id, device[id])
    BY <1>3 DEF CallOpen
  <2>2. device[id] \in Listed
    BY <2>1, DeviceListed DEF QuietInv
  <2>3. QED
    <3>1. /\ pc'[t] = "get" /\ at'[t] = None /\ fd'[t] = None
          /\ call'[t].op = "OPEN" /\ call'[t].cdev \in Listed'
      BY <1>1, <2>1, <2>2
    <3>2. QED
      BY <3>1 DEF Place, Aim, OnFile, Locking
<1>4. CASE CallOnFile(t)
  <2>1. PICK op \in OnFile : fd[t] # None /\ Begin(t, "lock", op, None, None)
    BY <1>4 DEF CallOnFile
  <2>2. QED
    <3>1. /\ pc'[t] = "lock" /\ at'[t] = None /\ fd'[t] # None
          /\ call'[t].op \in {"IO", "CLOSE"}
      BY <1>1, <2>1 DEF OnFile
    <3>2. QED
      BY <3>1 DEF Place, Aim, OnFile, Locking
<1>5. QED
  BY <1>2, <1>3, <1>4 DEF Start

LEMMA GetAims ==
    ASSUME QuietInv, NEW t \in Threads, Get(t)
    PROVE  Place(t)' /\ Aim(t)' /\ pc'[t] # "oops"
<1> DEFINE found == IF call[t].op = "OPEN" THEN WithCdev(call[t].cdev)
                                           ELSE WithId(call[t].id)
<1>0. TypeOK /\ Place(t) /\ pc[t] = "get" /\ UNCHANGED shared
  BY DEF QuietInv, Inv, AimInv, Get
<1>1. call[t].op \notin OnFile /\ call[t].op # "NONE" /\ at[t] = None
  BY <1>0 DEF Place, Locking
<1>2. Listed' = Listed /\ list' = list /\ vault' = vault
  BY <1>0 DEF shared, Listed
<1>3. call[t].op = "OPEN" => found # {}
  BY <1>0 DEF Place, Listed, WithCdev
<1>4. CASE /\ found # {}
           /\ node' = [node EXCEPT ![t] = NodeAt(First(found))]
           /\ Goto(t, "lock")
           /\ UNCHANGED <<call, at, fd>>
  <2>1. found \subseteq 1 .. Len(list) /\ 1 .. Len(list) \subseteq Nat
    BY <1>0, LenProperties DEF WithCdev, WithId, TypeOK
  <2>2. PICK k \in found : k = First(found)
    BY <1>4, <2>1, FirstIsThere
  <2>3. IF call[t].op = "OPEN" THEN list[k] = call[t].cdev
                               ELSE vault[list[k]].id = call[t].id
    BY <2>2 DEF WithCdev, WithId
  <2> HIDE DEF found
  <2>4. node'[t] = NodeAt(k) /\ pc'[t] = "lock"
    BY <1>0, <1>4, <2>2, GotoKeeps DEF TypeOK
  <2>5. k \in 1 .. Len(list') /\ NodeAt(k)' = NodeAt(k)
    BY <1>2, <2>1, <2>2 DEF NodeAt
  <2>6. AimedAt(t, k)'
    BY <1>2, <1>4, <2>3, <2>4, <2>5 DEF AimedAt
  <2>7. Place(t)'
    BY <1>0, <1>1, <1>2, <1>4, <2>4 DEF Place, Locking
  <2>8. Aim(t)'
    BY <1>1, <1>4, <2>5, <2>6 DEF Aim
  <2>9. QED
    BY <2>4, <2>7, <2>8
<1>5. CASE Return(t, fd[t])
  BY <1>0, <1>5, ReturnAims, ReturnKeeps
<1>6. CASE call[t].op = "CREATE" /\ Goto(t, "create")
           /\ UNCHANGED <<call, node, at, fd>>
  <2>1. pc'[t] = "create"
    BY <1>0, <1>6, GotoKeeps
  <2>2. QED
    BY <1>1, <1>6, <2>1 DEF Place, Aim, Locking, OnFile
<1>7. QED
  BY <1>3, <1>4, <1>5, <1>6 DEF Get

(* The locals of t after a step that only moves it and sets its lock; w is *)
(* the vault of that lock.                                                 *)
LEMMA MoveAims ==
    ASSUME QuietInv, NEW t \in Threads, Grows,
           pc[t] \in {"lock"} \cup Locking, pc'[t] \in Locking,
           call'[t] = call[t], node'[t] = node[t], fd'[t] = fd[t],
           Target(t) = {at'[t]},
           pc'[t] \in {"delete", "unlock", "unlink"} =>
               call[t].op = "REMOVE",
           pc'[t] = "alloc" => call[t].op = "OPEN",
           call[t].op \in OnFile => pc'[t] \in {"asleep", "work"}
    PROVE  Place(t)' /\ Aim(t)'
<1>1. Place(t) /\ Aim(t)
  BY DEF QuietInv, AimInv
<1>2. pc'[t] # "idle" /\ pc'[t] # "lock" /\ pc[t] # "idle"
  BY DEF Locking
<1>3. Place(t)'
  BY <1>1, <1>2, GrowsListed DEF Place
<1>4. CASE call[t].op \in OnFile
  <2>1. at'[t] = fd[t]
    BY <1>4 DEF Target
  <2>2. QED
    BY <1>3, <1>4, <2>1 DEF Aim
<1>5. CASE call[t].op \notin OnFile
  <2>1. PICK k \in 1 .. Len(list) : AimedAt(t, k)
    BY <1>1, <1>5 DEF Aim
  <2>2. at'[t] = list[k]
    <3>1. VaultOf(NodeAt(k)) = {list[k]}
      BY NodePointsTo DEF QuietInv
    <3>2. Target(t) = VaultOf(NodeAt(k))
      BY <1>5, <2>1, Zenon DEF AimedAt, Target
    <3>3. {at'[t]} = {list[k]}
      BY <3>1, <3>2
    <3>4. QED
      BY <3>3
  <2>3. k \in 1 .. Len(list') /\ AimedAt(t, k)'
    BY <2>1, <2>2, GrowsListed DEF AimedAt, Grows
  <2>4. QED
    BY <1>3, <1>5, <2>3 DEF Aim
<1>6. QED
  BY <1>4, <1>5

LEMMA LockAims ==
    ASSUME QuietInv, NEW t \in Threads, Lock(t) \/ Wake(t) \/ Unlock(t)
    PROVE  Place(t)' /\ Aim(t)' /\ pc'[t] # "oops"
<1>0. TypeOK /\ Inv /\ Grows
  <2>1. ~ RemoveFinish(t)
    BY DEF Lock, Wake, Unlock, RemoveFinish
  <2>2. Inv
    BY DEF QuietInv
  <2>3. QED
    BY <2>1, <2>2, StepGrows DEF Run, Inv
<1>1. pc[t] \in {"lock"} \cup Locking
  BY DEF Lock, Wake, Unlock, Locking
<1>2. PICK v \in Listed : Target(t) = {v} /\ (pc[t] # "lock" => at[t] = v)
  BY <1>1, TargetIs
<1>3. v # None
  BY <1>0, ListedMade
<1>4. CASE \E f : Return(t, f)
  BY <1>0, <1>4, ReturnAims, ReturnKeeps
<1>5. CASE Lock(t) /\ ~ \E f : Return(t, f)
  <2>1. /\ pc[t] = "lock"
        /\ at' = [at EXCEPT ![t] = v]
        /\ Goto(t, "work") \/ Goto(t, "asleep")
        /\ UNCHANGED <<call, node, fd>>
    BY <1>2, <1>3, <1>5 DEF Lock
  <2>2. at'[t] = v /\ pc'[t] \in {"work", "asleep"}
    BY <1>0, <2>1, GotoKeeps DEF TypeOK
  <2>3. QED
    BY <1>0, <1>1, <1>2, <2>1, <2>2, MoveAims DEF Locking
<1>6. CASE Wake(t)
  <2>1. pc'[t] = "work" /\ UNCHANGED <<call, node, at, fd>> /\ at[t] = v
    BY <1>0, <1>2, <1>6, GotoKeeps DEF Wake
  <2>2. QED
    BY <1>0, <1>1, <1>2, <2>1, MoveAims DEF Locking
<1>7. CASE Unlock(t)
  BY <1>2, <1>3, <1>4, <1>7 DEF Unlock
<1>8. QED
  BY <1>4, <1>5, <1>6, <1>7

LEMMA CreateAims ==
    ASSUME QuietInv, NEW t \in Threads,
           CreateEnter(t) \/ CreateFails(t) \/ CreateFinish(t)
    PROVE  Place(t)' /\ Aim(t)' /\ pc'[t] # "oops"
<1>0. TypeOK /\ Place(t)
  BY DEF QuietInv, Inv, AimInv
<1>1. CASE Return(t, fd[t])
  BY <1>0, <1>1, ReturnAims, ReturnKeeps
<1>2. CASE CreateEnter(t)
  <2>1. /\ pc[t] = "create" /\ pc'[t] = "link" /\ Listed' = Listed
        /\ UNCHANGED <<call, at, fd>>
    BY <1>0, <1>2, GotoKeeps DEF CreateEnter, Listed
  <2>2. call[t].op = "CREATE"
    BY <2>1 DEF QuietInv, Inv, CallInv
  <2>3. QED
    BY <1>0, <2>1, <2>2 DEF Place, Aim, Locking, OnFile
<1>3. QED
  BY <1>1, <1>2 DEF CreateFails, CreateFinish

(* ioctl_delete_vault finds the vault that it holds once more.             *)
LEMMA RemoveFindsAgain ==
    ASSUME QuietInv, NEW t \in Threads, pc[t] \in Locking,
           call[t].op = "REMOVE"
    PROVE  \E k \in 1 .. Len(list) :
             /\ AimedAt(t, k) /\ at[t] = list[k]
             /\ WithId(call[t].id) # {} /\ First(WithId(call[t].id)) = k
<1>1. PICK k \in 1 .. Len(list) : AimedAt(t, k)
  BY DEF QuietInv, AimInv, Aim, OnFile
<1>2. at[t] = list[k] /\ vault[list[k]].id = call[t].id
  BY <1>1 DEF AimedAt, Locking
<1>3. First(WithId(vault[list[k]].id)) = k
  BY FirstWithId DEF QuietInv, Inv, ListInv
<1>4. k \in WithId(call[t].id)
  BY <1>2 DEF WithId
<1>5. QED
  BY <1>1, <1>2, <1>3, <1>4

(* What t's call is, from where it stands.                                 *)
LEMMA PlaceKnown == ASSUME QuietInv, NEW t \in Threads PROVE Place(t)
  BY DEF QuietInv, AimInv

LEMMA RemoveAims ==
    ASSUME QuietInv, NEW t \in Threads,
           RemoveCheck(t) \/ RemoveEnter(t) \/ RemoveFinish(t)
    PROVE  Place(t)' /\ Aim(t)' /\ pc'[t] # "oops"
<1>0. TypeOK /\ Inv
  BY DEF QuietInv, Inv
<1>1. CASE RemoveFinish(t)
  BY <1>0, <1>1, ReturnAims, ReturnKeeps DEF RemoveFinish
<1>2. CASE RemoveCheck(t) \/ RemoveEnter(t)
  <2>1. /\ pc[t] \in {"work", "delete"} /\ call[t].op = "REMOVE"
        /\ pc[t] \in Locking
    BY <1>2, PlaceKnown DEF RemoveCheck, RemoveEnter, Locking, Place
  <2>2. PICK v \in Listed : Target(t) = {v} /\ at[t] = v
    BY <2>1, TargetIs DEF Locking
  <2>3. v # None
    BY <1>0, ListedMade
  <2>4. Grows
    BY <1>0, <1>2, <2>1, StepGrows DEF Run, RemoveFinish
  <2>5. PICK k \in 1 .. Len(list) :
          /\ AimedAt(t, k) /\ WithId(call[t].id) # {}
          /\ First(WithId(call[t].id)) = k
    BY <2>1, RemoveFindsAgain
  <2>6. node'[t] = node[t] /\ UNCHANGED <<call, at, fd>>
    BY <1>0, <1>2, <2>5 DEF RemoveCheck, RemoveEnter, Free, AimedAt, TypeOK
  <2>7. pc'[t] \in {"delete", "unlock", "unlink"}
    <3>1. CASE RemoveCheck(t)
      BY <1>0, <2>2, <2>3, <3>1, GotoKeeps DEF RemoveCheck
    <3>2. CASE RemoveEnter(t)
      BY <1>0, <3>2, GotoKeeps DEF RemoveEnter, Free
    <3>3. QED
      BY <1>2, <3>1, <3>2
  <2>8. QED
    BY <2>1, <2>2, <2>4, <2>6, <2>7, MoveAims DEF Locking, OnFile
<1>3. QED
  BY <1>1, <1>2

LEMMA OpenAims ==
    ASSUME QuietInv, NEW t \in Threads, Count(t) \/ OpenFinish(t) \/ Close(t)
    PROVE  Place(t)' /\ Aim(t)' /\ pc'[t] # "oops"
<1>0. TypeOK /\ Inv
  BY DEF QuietInv, Inv
<1>1. pc[t] \in Locking
  BY DEF Count, OpenFinish, Close, Locking
<1>2. PICK v \in Listed : Target(t) = {v}
  BY <1>1, TargetIs
<1>3. v # None
  BY <1>0, ListedMade
<1>4. CASE Count(t)
  <2>1. /\ call[t].op = "OPEN" /\ UNCHANGED <<call, node, fd>>
        /\ at' = [at EXCEPT ![t] = v] /\ Goto(t, "alloc")
    BY <1>2, <1>3, <1>4 DEF Count
  <2>2. at'[t] = v /\ pc'[t] = "alloc"
    BY <1>0, <2>1, GotoKeeps DEF TypeOK
  <2>3. Grows
    BY <1>0, <1>4, <2>1, StepGrows DEF Run, RemoveFinish, Count
  <2>4. QED
    BY <1>1, <1>2, <2>1, <2>2, <2>3, MoveAims DEF Locking, OnFile
<1>5. CASE OpenFinish(t) \/ Close(t)
  <2>1. \E f : Return(t, f)
    BY <1>2, <1>3, <1>5 DEF OpenFinish, Close
  <2>2. QED
    BY <1>0, <2>1, ReturnAims, ReturnKeeps
<1>6. QED
  BY <1>4, <1>5

(* Every step keeps what the calls know, and follows no NULL pointer.      *)
LEMMA StepAims ==
    ASSUME QuietInv, NEW t \in Threads, Start(t) \/ Run(t)
    PROVE  AimInv' /\ NoOops'
<1>0. TypeOK /\ Inv /\ OthersKept(t)
  BY StepKeeps DEF QuietInv, Inv
<1>1. Place(t)' /\ Aim(t)' /\ pc'[t] # "oops"
  <2>1. CASE Start(t)
    <3>1. pc'[t] # "oops"
      BY <1>0, <2>1, GotoKeeps
      DEF Start, CallControl, CallOpen, CallOnFile, Begin
    <3>2. QED
      BY <2>1, <3>1, StartAims
  <2>2. CASE Run(t)
    BY <2>2, GetAims, LockAims, CreateAims, RemoveAims, OpenAims DEF Run
  <2>3. QED
    BY <2>1, <2>2
<1>2. ASSUME NEW u \in Threads, u # t
      PROVE  Place(u)' /\ Aim(u)' /\ pc'[u] # "oops"
  <2>1. pc'[u] # "oops"
    BY <1>0, <1>2 DEF OthersKept, QuietInv, NoOops
  <2>2. CASE RemoveFinish(t)
    <3>1. pc[t] = "unlink" /\ call[t].op = "REMOVE"
      BY <2>2 DEF RemoveFinish, QuietInv, AimInv, Place
    <3>2. pc'[u] = "idle" /\ at'[u] = None /\ call'[u].op = "NONE"
      BY <1>0, <1>2, <3>1, OthersIdle DEF OthersKept
    <3>3. QED
      BY <2>1, <3>2 DEF Place, Aim, Locking, OnFile
  <2>3. CASE ~ RemoveFinish(t)
    BY <1>0, <1>2, <2>1, <2>3, StepGrows, OthersAim
  <2>4. QED
    BY <2>2, <2>3
<1>3. QED
  BY <1>1, <1>2 DEF AimInv, NoOops

-----------------------------------------------------------------------------
(* The nodes of the list                                                   *)

(* What delete_node leaves of the list: everything but the vault that the  *)
(* call has locked.                                                        *)
LEMMA RemoveIs ==
    ASSUME QuietInv, NEW t \in Threads, RemoveFinish(t)
    PROVE  \E k \in 1 .. Len(list) :
             /\ at[t] = list[k] /\ vault[list[k]].id = call[t].id
             /\ vault[list[k]].usage = 0
             /\ list' = Without(k) /\ freed' = freed \cup FreedNode(k)
             /\ Len(list') = Len(list) - 1 /\ Len(list) \in Nat
             /\ \A j \in 1 .. Len(list) - 1 :
                  list'[j] = IF j < k THEN list[j] ELSE list[j + 1]
             /\ Listed' = Listed \ {list[k]}
<1>0. Inv /\ TypeOK /\ UniqueIds /\ pc[t] = "unlink"
  BY DEF QuietInv, Inv, ListInv, RemoveFinish
<1>1. call[t].op = "REMOVE" /\ pc[t] \in Locking
  BY <1>0 DEF QuietInv, AimInv, Place, Locking
<1>2. PICK k \in 1 .. Len(list) : AimedAt(t, k) /\ at[t] = list[k]
  BY <1>1, RemoveFindsAgain
<1>3. Position(node[t]) = {k}
  BY <1>0, <1>2, PositionOf DEF AimedAt
<1>4. list' = Without(k) /\ freed' = freed \cup FreedNode(k)
  BY <1>3 DEF RemoveFinish
<1>5. list \in Seq(Vaults) /\ Len(list) \in Nat
  BY <1>0, LenProperties DEF TypeOK
<1>6. /\ Len(list') = Len(list) - 1
      /\ \A j \in 1 .. Len(list) - 1 :
           list'[j] = IF j < k THEN list[j] ELSE list[j + 1]
  BY <1>4, <1>5, WithoutIs
<1>7. Listed' = Listed \ {list[k]}
  <2>1. ASSUME NEW j \in 1 .. Len(list) - 1
        PROVE  list'[j] \in Listed /\ list'[j] # list[k]
    <3>1. \E i \in 1 .. Len(list) : i # k /\ list'[j] = list[i]
      BY <1>5, <1>6
    <3>2. QED
      BY <1>0, <3>1, ListedOnce DEF Listed
  <2>2. ASSUME NEW i \in 1 .. Len(list), i # k
        PROVE  \E j \in 1 .. Len(list) - 1 : list'[j] = list[i]
    <3>1. CASE i < k
      BY <1>5, <1>6, <3>1
    <3>2. CASE i > k
      <4>1. i - 1 \in 1 .. Len(list) - 1 /\ ~ (i - 1 < k) /\ i - 1 + 1 = i
        BY <1>5, <3>2
      <4>2. QED
        BY <1>6, <4>1
    <3>3. QED
      BY <1>5, <2>2, <3>1, <3>2
  <2>3. Listed' = {list'[j] : j \in 1 .. Len(list) - 1}
    BY <1>6 DEF Listed
  <2>4. QED
    BY <2>1, <2>2, <2>3 DEF Listed
<1>8. vault[list[k]].id = call[t].id
  BY <1>1, <1>2 DEF AimedAt
<1>9. vault[list[k]].usage = 0
  BY <1>0, <1>2 DEF QuietInv, UnlinkInv
<1>10. QED
  BY <1>2, <1>4, <1>5, <1>6, <1>7, <1>8, <1>9

(* create_new_vault links the new vault and frees no node of another.      *)
LEMMA FinishIs ==
    ASSUME QuietInv, NEW t \in Threads, CreateFinish(t)
    PROVE  /\ Listed' = Listed \cup {made + 1}
           /\ made' = made + 1 /\ made + 1 \notin 1 .. made
           /\ \A v \in 1 .. made : vault'[v] = vault[v]
           /\ vault'[made + 1].lock = 1 /\ vault'[made + 1].usage = 0
           /\ vault'[made + 1].id = call[t].id
<1>0. Inv /\ made \in Nat /\ Len(list) \in Nat /\ made' = made + 1
  BY ListedMade, LenProperties DEF QuietInv, Inv, TypeOK, CreateFinish
<1>1. /\ Len(list') = Len(list) + 1
      /\ \A k \in 1 .. Len(list) : list'[k] = list[k]
      /\ list'[Len(list) + 1] = made + 1
      /\ call[t].id \in Ids
  BY <1>0, FinishList
<1>2. Listed' = Listed \cup {made + 1}
  <2>1. \A v \in Listed \cup {made + 1} : v \in Listed'
    <3>1. \A k \in 1 .. Len(list) : k \in 1 .. Len(list')
      BY <1>0, <1>1
    <3>2. Len(list) + 1 \in 1 .. Len(list')
      BY <1>0, <1>1
    <3>3. QED
      BY <1>1, <3>1, <3>2 DEF Listed
  <2>2. \A k \in 1 .. Len(list') : k \in 1 .. Len(list) \/ k = Len(list) + 1
    BY <1>0, <1>1
  <2>3. \A v \in Listed' : v \in Listed \cup {made + 1}
    BY <1>1, <2>2 DEF Listed
  <2>4. QED
    BY <2>1, <2>3
<1> DEFINE new == [id |-> call[t].id, owner |-> User[t], lock |-> 1, usage |-> 0]
<1>3. new \in Vault
  BY <1>1, VaultAssumption DEF Vault
<1>4. vault \in Seq(Vault) /\ Len(vault) = made
  BY <1>0, LenProperties DEF Inv, TypeOK
<1>5. vault' = Append(vault, new)
  BY DEF CreateFinish
<1> HIDE DEF new
<1>6. (\A v \in 1 .. made : vault'[v] = vault[v]) /\ vault'[made + 1] = new
  BY <1>3, <1>4, <1>5, AppendProperties
<1>7. QED
  BY <1>0, <1>2, <1>6 DEF new

LEMMA StepFreed ==
    ASSUME QuietInv, NEW t \in Threads, Start(t) \/ Run(t)
    PROVE  FreedInv'
<1>0. /\ Inv /\ TypeOK /\ UniqueIds /\ FreedInv /\ Len(list) \in Nat
      /\ \A k \in 1 .. Len(list) : list[k] \in 1 .. made
  BY ListedMade, LenProperties DEF QuietInv, Inv, ListInv, TypeOK
<1>1. CASE RemoveFinish(t)
  <2>1. PICK k \in 1 .. Len(list) :
          /\ freed' = freed \cup FreedNode(k)
          /\ Len(list') = Len(list) - 1
          /\ \A j \in 1 .. Len(list) - 1 :
               list'[j] = IF j < k THEN list[j] ELSE list[j + 1]
    BY <1>1, RemoveIs
  <2>2. \A v \in FreedNode(k) :
          \E i \in 1 .. Len(list) : /\ v = list[i]
                                    /\ i = k \/ (k = 1 /\ i = 2)
    BY <1>0 DEF FreedNode
  <2>3. ASSUME NEW j \in 2 .. Len(list')
        PROVE  \E i \in 2 .. Len(list) :
                 list'[j] = list[i] /\ i # k /\ ~ (k = 1 /\ i = 2)
    BY <1>0, <2>1
  <2>4. ASSUME NEW j \in 2 .. Len(list'), list'[j] \in FreedNode(k)
        PROVE  FALSE
    <3>1. PICK i \in 2 .. Len(list) :
            list'[j] = list[i] /\ i # k /\ ~ (k = 1 /\ i = 2)
      BY <2>3
    <3>2. PICK h \in 1 .. Len(list) :
            list[i] = list[h] /\ (h = k \/ (k = 1 /\ h = 2))
      BY <2>2, <2>4, <3>1
    <3>3. i \in 1 .. Len(list)
      BY <1>0
    <3>4. i = h
      BY <1>0, <3>2, <3>3, ListedOnce
    <3>5. QED
      BY <3>1, <3>2, <3>4
  <2>5. \A j \in 2 .. Len(list') : list'[j] \notin freed
    BY <1>0, <2>3 DEF FreedInv
  <2>6. \A v \in FreedNode(k) : v \in 1 .. made
    BY <1>0, <2>2
  <2>7. freed' \subseteq 1 .. made'
    BY <1>0, <1>1, <2>1, <2>6 DEF FreedInv, RemoveFinish
  <2>8. QED
    BY <2>1, <2>4, <2>5, <2>7 DEF FreedInv
<1>2. CASE CreateFinish(t)
  <2>1. /\ Len(list') = Len(list) + 1
        /\ \A k \in 1 .. Len(list) : list'[k] = list[k]
        /\ list'[Len(list) + 1] = made + 1
    BY <1>0, <1>2, FinishList
  <2>0. freed' \subseteq 1 .. made' /\ made + 1 \notin freed
    <3>1. made' = made + 1 /\ made \in Nat
      BY <1>0, <1>2, ListedMade DEF CreateFinish
    <3>2. freed' \subseteq freed \cup {made + 1}
      BY <1>2 DEF CreateFinish
    <3>3. QED
      BY <1>0, <3>1, <3>2 DEF FreedInv
  <2>2. CASE list = << >>
    <3>1. Len(list') = 1
      BY <2>1, <2>2
    <3>2. QED
      BY <2>0, <3>1 DEF FreedInv
  <2>3. CASE list # << >>
    <3>1. freed' = freed /\ node[t] = NodeAt(Len(list))
      BY <1>2, <2>3 DEF CreateFinish, QuietInv, Inv, ListInv
    <3>2. ASSUME NEW k \in 2 .. Len(list') PROVE list'[k] \notin freed'
      <4>1. CASE k = Len(list) + 1
        BY <2>0, <2>1, <3>1, <4>1
      <4>2. CASE k # Len(list) + 1
        <5>1. k \in 2 .. Len(list) /\ k \in 1 .. Len(list)
          BY <1>0, <2>1, <4>2
        <5>2. QED
          BY <1>0, <2>1, <3>1, <5>1 DEF FreedInv
      <4>3. QED
        BY <4>1, <4>2
    <3>3. QED
      BY <2>0, <3>2 DEF FreedInv
  <2>4. QED
    BY <2>2, <2>3
<1>3. CASE ~ RemoveFinish(t) /\ ~ CreateFinish(t)
  <2>1. list' = list /\ freed' = freed /\ made' = made
    BY <1>3 DEF Start, CallControl, CallOpen, CallOnFile, Begin, Run, Get,
       Lock, Wake, Unlock, CreateEnter, CreateFails, RemoveCheck,
       RemoveEnter, Count, OpenFinish, Close, shared
  <2>2. QED
    BY <1>0, <2>1 DEF FreedInv
<1>4. QED
  BY <1>1, <1>2, <1>3

-----------------------------------------------------------------------------
(* The lock of a vault                                                     *)

(* What the writes of the lock and the counter of a vault do.              *)
LEMMA Written ==
    ASSUME TypeOK, NEW v \in 1 .. made
    PROVE  /\ Down(v) => /\ vault'[v].lock = vault[v].lock - 1
                         /\ vault'[v].usage = vault[v].usage
                         /\ \A w \in (1 .. made) \ {v} : vault'[w] = vault[w]
           /\ Up(v) => /\ vault'[v].lock = vault[v].lock + 1
                       /\ vault'[v].usage = vault[v].usage
                       /\ \A w \in (1 .. made) \ {v} : vault'[w] = vault[w]
           /\ \A x : vault' = [vault EXCEPT ![v].usage = x, ![v].lock = @ + 1]
                => /\ vault'[v].lock = vault[v].lock + 1
                   /\ vault'[v].usage = x
                   /\ \A w \in (1 .. made) \ {v} : vault'[w] = vault[w]
<1>1. DOMAIN vault = 1 .. made /\ vault[v] \in Vault
  BY DEF TypeOK
<1>2. Down(v) => /\ vault'[v].lock = vault[v].lock - 1
                 /\ vault'[v].usage = vault[v].usage
                 /\ \A w \in (1 .. made) \ {v} : vault'[w] = vault[w]
  BY <1>1 DEF TypeOK, Vault, Down
<1>3. Up(v) => /\ vault'[v].lock = vault[v].lock + 1
               /\ vault'[v].usage = vault[v].usage
               /\ \A w \in (1 .. made) \ {v} : vault'[w] = vault[w]
  BY <1>1 DEF TypeOK, Vault, Up
<1>4. ASSUME NEW x,
             vault' = [vault EXCEPT ![v].usage = x, ![v].lock = @ + 1]
      PROVE  /\ vault'[v].lock = vault[v].lock + 1
             /\ vault'[v].usage = x
             /\ \A w \in (1 .. made) \ {v} : vault'[w] = vault[w]
  BY <1>1, <1>4 DEF TypeOK, Vault
<1>5. QED
  BY <1>2, <1>3, <1>4

(* A step that moves no holder of a vault and does not write its lock.     *)
LEMMA HeldKept ==
    ASSUME NEW v, HeldOnce(v), vault'[v].lock = vault[v].lock,
           \A u \in Threads : Holds(u, v)' <=> Holds(u, v)
    PROVE  HeldOnce(v)'
  BY DEF HeldOnce

(* Thread t takes the lock of v.                                           *)
LEMMA HeldTaken ==
    ASSUME NEW v, NEW t \in Threads, HeldOnce(v), vault[v].lock > 0,
           vault'[v].lock = vault[v].lock - 1, Holds(t, v)',
           \A u \in Threads \ {t} : Holds(u, v)' <=> Holds(u, v)
    PROVE  HeldOnce(v)'
  BY DEF HeldOnce

(* Thread t gives it back.                                                 *)
LEMMA HeldGiven ==
    ASSUME NEW v, NEW t \in Threads, HeldOnce(v), Holds(t, v),
           vault'[v].lock = vault[v].lock + 1, ~ Holds(t, v)',
           \A u \in Threads \ {t} : Holds(u, v)' <=> Holds(u, v)
    PROVE  HeldOnce(v)'
<1>1. vault[v].lock = 0 /\ \A u \in Threads \ {t} : ~ Holds(u, v)
  BY DEF HeldOnce
<1>2. QED
  BY <1>1 DEF HeldOnce

LEMMA OthersHold ==
    ASSUME NEW t \in Threads, OthersKept(t), NEW u \in Threads \ {t}, NEW v
    PROVE  Holds(u, v)' <=> Holds(u, v)
  BY DEF OthersKept, Holds

(* A step of t with all the locks of listed vaults as they are, that takes *)
(* or gives back none.                                                     *)
LEMMA HoldKept ==
    ASSUME QuietInv, NEW t \in Threads, OthersKept(t), Listed' \subseteq Listed,
           \A v \in Listed' : /\ vault'[v].lock = vault[v].lock
                              /\ Holds(t, v)' <=> Holds(t, v)
    PROVE  HoldInv'
<1>1. SUFFICES ASSUME NEW v \in Listed' PROVE HeldOnce(v)'
  BY DEF HoldInv
<1>2. HeldOnce(v)
  BY <1>1 DEF QuietInv, HoldInv
<1>3. \A u \in Threads : Holds(u, v)' <=> Holds(u, v)
  BY <1>1, OthersHold
<1>4. QED
  BY <1>1, <1>2, <1>3, HeldKept

(* A step of t that takes or gives back the lock of v alone.               *)
LEMMA HoldMoved ==
    ASSUME QuietInv, NEW t \in Threads, OthersKept(t), Listed' = Listed,
           NEW v \in Listed,
           \A w \in (1 .. made) \ {v} :
               vault'[w] = vault[w] /\ ~ Holds(t, w) /\ ~ Holds(t, w)',
           \/ /\ vault[v].lock > 0 /\ vault'[v].lock = vault[v].lock - 1
              /\ Holds(t, v)'
           \/ /\ vault'[v].lock = vault[v].lock + 1
              /\ Holds(t, v) /\ ~ Holds(t, v)'
    PROVE  HoldInv'
<1>1. SUFFICES ASSUME NEW w \in Listed PROVE HeldOnce(w)'
  BY DEF HoldInv
<1>2. HeldOnce(w) /\ w \in 1 .. made
  BY <1>1, ListedMade DEF QuietInv, HoldInv
<1>3. \A u \in Threads \ {t} : Holds(u, w)' <=> Holds(u, w)
  BY OthersHold
<1>4. CASE w = v
  BY <1>2, <1>3, <1>4, HeldTaken, HeldGiven
<1>5. CASE w # v
  <2>1. vault'[w].lock = vault[w].lock /\ (Holds(t, w)' <=> Holds(t, w))
    BY <1>2, <1>5
  <2>2. QED
    BY <1>2, <1>3, <2>1, HeldKept
<1>6. QED
  BY <1>4, <1>5

(* down_interruptible and up on the lock of a vault.                       *)
LEMMA LockHold ==
    ASSUME QuietInv, NEW t \in Threads, Lock(t) \/ Wake(t) \/ Unlock(t)
    PROVE  HoldInv'
<1>0. /\ TypeOK /\ Inv /\ OthersKept(t)
      /\ Listed' = Listed /\ Listed \subseteq 1 .. made
  BY StepKeeps, ListedMade
  DEF QuietInv, Inv, Run, Lock, Wake, Unlock, Listed
<1>1. pc[t] \in {"lock"} \cup Locking
  BY DEF Lock, Wake, Unlock, Locking
<1>2. PICK v \in Listed : Target(t) = {v} /\ (pc[t] # "lock" => at[t] = v)
  BY <1>1, TargetIs
<1>3. v # None /\ v \in 1 .. made
  BY <1>0, ListedMade
<1>4. CASE Lock(t)
  <2>1. pc[t] = "lock" /\ \A w : ~ Holds(t, w)
    BY <1>4 DEF Lock, Holds
  <2>2. CASE Return(t, fd[t]) /\ UNCHANGED vault
    <3>1. pc'[t] = "idle"
      BY <1>0, <2>2, ReturnKeeps
    <3>2. \A w : ~ Holds(t, w)'
      BY <3>1 DEF Holds
    <3>3. QED
      BY <1>0, <2>1, <2>2, <3>2, HoldKept
  <2>3. CASE /\ at' = [at EXCEPT ![t] = v]
             /\ IF vault[v].lock > 0 THEN Goto(t, "work") /\ Down(v)
                                     ELSE Goto(t, "asleep") /\ UNCHANGED vault
    <3>1. at'[t] = v
      BY <1>0, <2>3 DEF TypeOK
    <3>2. CASE vault[v].lock > 0
      <4>1. pc'[t] = "work" /\ Down(v)
        BY <1>0, <2>3, <3>2, GotoKeeps
      <4>2. Holds(t, v)' /\ \A w : w # v => ~ Holds(t, w)'
        BY <3>1, <4>1 DEF Holds
      <4>3. /\ vault'[v].lock = vault[v].lock - 1
            /\ \A w \in (1 .. made) \ {v} : vault'[w] = vault[w]
        BY <1>0, <1>3, <4>1, Written
      <4>4. QED
        BY <1>0, <2>1, <3>2, <4>2, <4>3, HoldMoved
    <3>3. CASE ~ (vault[v].lock > 0)
      <4>1. pc'[t] = "asleep" /\ vault' = vault
        BY <1>0, <2>3, <3>3, GotoKeeps
      <4>2. \A w : ~ Holds(t, w)'
        BY <4>1 DEF Holds
      <4>3. QED
        BY <1>0, <2>1, <4>1, <4>2, HoldKept
    <3>4. QED
      BY <3>2, <3>3
  <2>4. QED
    BY <1>2, <1>3, <1>4, <2>2, <2>3 DEF Lock
<1>5. CASE Wake(t)
  <2>1. pc[t] = "asleep" /\ at[t] = v /\ pc'[t] = "work" /\ at'[t] = v
    BY <1>0, <1>2, <1>5, GotoKeeps DEF Wake
  <2>2. Down(v) /\ vault[v].lock > 0
    BY <1>5, <2>1 DEF Wake
  <2>3. (\A w : ~ Holds(t, w)) /\ Holds(t, v)' /\ \A w : w # v => ~ Holds(t, w)'
    BY <2>1 DEF Holds
  <2>4. /\ vault'[v].lock = vault[v].lock - 1
        /\ \A w \in (1 .. made) \ {v} : vault'[w] = vault[w]
    BY <1>0, <1>3, <2>2, Written
  <2>5. QED
    BY <1>0, <2>2, <2>3, <2>4, HoldMoved
<1>6. CASE Unlock(t)
  <2>1. Up(v) /\ Return(t, fd[t]) /\ pc[t] \in {"work", "unlock"} /\ at[t] = v
    BY <1>2, <1>3, <1>6 DEF Unlock
  <2>2. pc'[t] = "idle"
    BY <1>0, <2>1, ReturnKeeps
  <2>3. /\ Holds(t, v) /\ \A w : w # v => ~ Holds(t, w)
        /\ \A w : ~ Holds(t, w)'
    BY <2>1, <2>2 DEF Holds
  <2>4. /\ vault'[v].lock = vault[v].lock + 1
        /\ \A w \in (1 .. made) \ {v} : vault'[w] = vault[w]
    BY <1>0, <1>3, <2>1, Written
  <2>5. QED
    BY <1>0, <2>3, <2>4, HoldMoved
<1>7. QED
  BY <1>4, <1>5, <1>6

(* secvault_open and secvault_release give the lock back as they count.    *)
LEMMA OpenHold ==
    ASSUME QuietInv, NEW t \in Threads, Count(t) \/ OpenFinish(t) \/ Close(t)
    PROVE  HoldInv'
<1>0. /\ TypeOK /\ Inv /\ OthersKept(t)
      /\ Listed' = Listed /\ Listed \subseteq 1 .. made
  <2>1. TypeOK /\ Inv /\ Run(t)
    BY DEF QuietInv, Inv, Run
  <2>2. list' = list
    BY DEF Count, OpenFinish, Close, shared
  <2>3. QED
    BY <2>1, <2>2, StepKeeps, ListedMade DEF Listed
<1>1. pc[t] \in Locking
  BY DEF Count, OpenFinish, Close, Locking
<1>2. PICK v \in Listed : /\ Target(t) = {v} /\ (pc[t] # "lock" => at[t] = v)
                          /\ (call[t].op \in OnFile => v = fd[t])
  BY <1>1, TargetIs
<1>3. v # None /\ v \in 1 .. made
  BY <1>0, ListedMade
<1>4. CASE OpenFinish(t)
  <2>1. Return(t, v) /\ pc[t] = "alloc" /\ vault' = vault
    BY <1>2, <1>3, <1>4 DEF OpenFinish, shared
  <2>2. pc'[t] = "idle"
    BY <1>0, <2>1, ReturnKeeps
  <2>3. (\A w : ~ Holds(t, w)) /\ \A w : ~ Holds(t, w)'
    BY <2>1, <2>2 DEF Holds
  <2>4. QED
    BY <1>0, <2>1, <2>3, HoldKept
<1>5. CASE Count(t) \/ Close(t)
  <2>1. /\ pc[t] = "work" /\ at[t] = v
        /\ \E x : vault' = [vault EXCEPT ![v].usage = x, ![v].lock = @ + 1]
    BY <1>2, <1>3, <1>5 DEF Count, Close, OnFile
  <2>2. pc'[t] \in {"alloc", "idle"}
    BY <1>0, <1>2, <1>3, <1>5, GotoKeeps, ReturnKeeps DEF Count, Close
  <2>3. /\ Holds(t, v) /\ \A w : w # v => ~ Holds(t, w)
        /\ \A w : ~ Holds(t, w)'
    BY <2>1, <2>2 DEF Holds
  <2>4. /\ vault'[v].lock = vault[v].lock + 1
        /\ \A w \in (1 .. made) \ {v} : vault'[w] = vault[w]
    BY <1>0, <1>3, <2>1, Written
  <2>5. QED
    BY <1>0, <2>3, <2>4, HoldMoved
<1>6. QED
  BY <1>4, <1>5

(* A new vault is not locked; the deleted one leaves the list locked.      *)
LEMMA ListHold ==
    ASSUME QuietInv, NEW t \in Threads, CreateFinish(t) \/ RemoveFinish(t)
    PROVE  HoldInv'
<1>0. TypeOK /\ Inv /\ OthersKept(t) /\ pc'[t] = "idle"
  BY StepKeeps, ReturnKeeps DEF QuietInv, Inv, Run, CreateFinish, RemoveFinish
<1>1. \A w : ~ Holds(t, w)'
  BY <1>0 DEF Holds
<1>2. CASE RemoveFinish(t)
  <2>1. Listed' = Listed \ {at[t]}
    BY <1>2, RemoveIs
  <2>2. vault' = vault
    BY <1>2 DEF RemoveFinish
  <2>3. \A w \in Listed' : ~ Holds(t, w)
    BY <2>1 DEF Holds
  <2>4. QED
    BY <1>0, <1>1, <2>1, <2>2, <2>3, HoldKept
<1>3. CASE CreateFinish(t)
  <2>1. /\ Listed' = Listed \cup {made + 1} /\ made + 1 \notin 1 .. made
        /\ \A v \in 1 .. made : vault'[v] = vault[v]
        /\ vault'[made + 1].lock = 1
    BY <1>3, FinishIs
  <2>2. pc[t] = "link"
    BY <1>3 DEF CreateFinish
  <2>3. \A w : ~ Holds(t, w)
    BY <2>2 DEF Holds
  <2>4. \A u \in Threads : \A w : Holds(u, w)' <=> Holds(u, w)
    BY <1>0, <1>1, <2>3, OthersHold
  <2>5. ASSUME NEW w \in Listed PROVE HeldOnce(w)'
    <3>1. vault'[w] = vault[w] /\ HeldOnce(w)
      BY <1>0, <2>1, ListedMade DEF QuietInv, HoldInv
    <3>2. QED
      BY <2>4, <3>1, HeldKept
  <2>6. ASSUME NEW w, w = made + 1 PROVE HeldOnce(w)'
    <3>1. w # None /\ w \notin Listed
      BY <1>0, <2>1, <2>6, ListedMade DEF None
    <3>2. \A u \in Threads : ~ Holds(u, w)
      BY <3>1, AtIsListed DEF Holds
    <3>3. \A u \in Threads : ~ Holds(u, w)'
      BY <2>4, <3>2
    <3>4. vault'[w].lock = 1
      BY <2>1, <2>6
    <3>5. QED
      BY <3>3, <3>4 DEF HeldOnce
  <2>7. QED
    BY <2>1, <2>5, <2>6 DEF HoldInv
<1>4. QED
  BY <1>2, <1>3

(* The steps that write no vault and do not change the list: get_vault,    *)
(* the walk of create_new_vault, a remove that fails or finds its vault.   *)
LookAround(t) ==
    \/ Start(t) \/ Get(t) \/ CreateEnter(t) \/ CreateFails(t)
    \/ RemoveCheck(t) \/ RemoveEnter(t)

LEMMA LookKeeps ==
    ASSUME QuietInv, NEW t \in Threads, LookAround(t)
    PROVE  /\ vault' = vault /\ list' = list /\ made' = made
           /\ fd'[t] = fd[t] /\ pc[t] # "alloc" /\ pc'[t] # "alloc"
           /\ \A v : Holds(t, v)' <=> Holds(t, v)
<1>0. TypeOK
  BY DEF QuietInv, Inv
<1>1. CASE Start(t)
  <2>1. /\ pc[t] = "idle" /\ pc'[t] \in {"get", "lock"}
        /\ UNCHANGED <<vault, list, made, fd>>
    BY <1>0, <1>1, GotoKeeps
    DEF Start, CallControl, CallOpen, CallOnFile, Begin, shared
  <2>2. QED
    BY <2>1 DEF Holds
<1>2. CASE Get(t) \/ CreateEnter(t) \/ CreateFails(t)
  <2>1. /\ pc[t] \in {"get", "create", "link"}
        /\ pc'[t] \in {"lock", "create", "oops", "idle", "link"}
        /\ UNCHANGED <<vault, list, made>> /\ fd'[t] = fd[t]
    BY <1>0, <1>2, GotoKeeps, ReturnKeeps
    DEF Get, CreateEnter, CreateFails, shared
  <2>2. QED
    BY <2>1 DEF Holds
<1>3. CASE RemoveCheck(t) \/ RemoveEnter(t)
  <2>1. /\ pc[t] \in {"work", "delete"}
        /\ UNCHANGED <<vault, list, made, fd, at>>
    BY <1>3 DEF RemoveCheck, RemoveEnter, shared
  <2>2. /\ pc'[t] \in {"oops", "delete", "unlock", "unlink"}
        /\ pc'[t] # "oops"
    BY <1>0, <1>3, GotoKeeps, RemoveAims DEF RemoveCheck, RemoveEnter, Free
  <2>3. QED
    BY <2>1, <2>2 DEF Holds
<1>4. QED
  BY <1>1, <1>2, <1>3 DEF LookAround

LEMMA StepHold ==
    ASSUME QuietInv, NEW t \in Threads, Start(t) \/ Run(t)
    PROVE  HoldInv'
<1>1. CASE LookAround(t)
  <2>1. OthersKept(t) /\ Listed' = Listed
    BY <1>1, LookKeeps, StepKeeps DEF QuietInv, Inv, Listed
  <2>2. QED
    BY <1>1, <2>1, LookKeeps, HoldKept
<1>2. QED
  BY <1>1, LockHold, OpenHold, ListHold DEF Run, LookAround

-----------------------------------------------------------------------------
(* The counters of the vaults                                              *)

(* A thread has one file, so a counter never gets to its limit.            *)
LEMMA UsersFinite ==
    ASSUME NEW v
    PROVE  /\ IsFiniteSet(Users(v)) /\ Cardinality(Users(v)) \in Nat
           /\ Cardinality(Users(v)) < UsageLimit
<1>1. Users(v) \subseteq Threads
  BY DEF Users
<1>2. IsFiniteSet(Threads) /\ Cardinality(Threads) < UsageLimit
  BY UsageAssumption
<1>3. IsFiniteSet(Users(v)) /\ Cardinality(Users(v)) <= Cardinality(Threads)
  BY <1>1, <1>2, FS_Subset
<1>4. Cardinality(Users(v)) \in Nat /\ Cardinality(Threads) \in Nat
  BY <1>2, <1>3, FS_CardinalityType
<1>5. QED
  BY <1>2, <1>3, <1>4, VaultAssumption

IsUser(t, v) == fd[t] = v \/ (pc[t] = "alloc" /\ at[t] = v)

LEMMA UsersAre ==
    ASSUME NEW v
    PROVE  /\ Users(v) = {t \in Threads : IsUser(t, v)}
           /\ Users(v)' = {t \in Threads : IsUser(t, v)'}
  BY DEF Users, IsUser

LEMMA OthersUse ==
    ASSUME NEW t \in Threads, OthersKept(t), NEW u \in Threads \ {t}, NEW v
    PROVE  IsUser(u, v)' <=> IsUser(u, v)
  BY DEF OthersKept, IsUser

(* A step of t changes the users of a vault by t at most.                  *)
LEMMA UsersChange ==
    ASSUME NEW t \in Threads, OthersKept(t), NEW v
    PROVE  /\ (IsUser(t, v)' <=> IsUser(t, v)) => Users(v)' = Users(v)
           /\ IsUser(t, v)' => Users(v)' = Users(v) \cup {t}
           /\ ~ IsUser(t, v)' => Users(v)' = Users(v) \ {t}
<1>1. \A u \in Threads \ {t} : IsUser(u, v)' <=> IsUser(u, v)
  BY OthersUse
<1>2. QED
  BY <1>1, UsersAre

(* A step of t that changes neither the users nor the counter of a vault.  *)
LEMMA UsageKept ==
    ASSUME QuietInv, NEW t \in Threads, OthersKept(t), made' = made,
           \A v \in 1 .. made : /\ vault'[v].usage = vault[v].usage
                                /\ IsUser(t, v)' <=> IsUser(t, v)
    PROVE  UsageCounts'
<1>1. SUFFICES ASSUME NEW v \in 1 .. made
               PROVE  vault'[v].usage = Cardinality(Users(v)')
  BY DEF UsageCounts
<1>2. Users(v)' = Users(v)
  BY <1>1, UsersChange
<1>3. QED
  BY <1>1, <1>2 DEF QuietInv, UsageCounts

(* A step of t that becomes a user of v, or no longer is, and counts.      *)
LEMMA UsageMoved ==
    ASSUME QuietInv, NEW t \in Threads, OthersKept(t), made' = made,
           NEW v \in 1 .. made,
           \A w \in (1 .. made) \ {v} :
               vault'[w] = vault[w] /\ (IsUser(t, w)' <=> IsUser(t, w)),
           \/ /\ ~ IsUser(t, v) /\ IsUser(t, v)'
              /\ vault'[v].usage = (vault[v].usage + 1) % UsageLimit
           \/ /\ IsUser(t, v) /\ ~ IsUser(t, v)'
              /\ vault'[v].usage = (vault[v].usage - 1) % UsageLimit
    PROVE  UsageCounts'
<1>1. SUFFICES ASSUME NEW w \in 1 .. made
               PROVE  vault'[w].usage = Cardinality(Users(w)')
  BY DEF UsageCounts
<1>2. CASE w # v
  <2>1. Users(w)' = Users(w) /\ vault'[w] = vault[w]
    BY <1>1, <1>2, UsersChange
  <2>2. QED
    BY <1>1, <2>1 DEF QuietInv, UsageCounts
<1>3. CASE w = v
  <2>1. vault[v].usage = Cardinality(Users(v))
    BY DEF QuietInv, UsageCounts
  <2>2. IsFiniteSet(Users(v)) /\ Cardinality(Users(v)) \in Nat
        /\ Cardinality(Users(v)) < UsageLimit
    BY UsersFinite
  <2>3. UsageLimit \in Nat \ {0}
    BY VaultAssumption
  <2>4. t \in Users(v) <=> IsUser(t, v)
    BY UsersAre
  <2>5. CASE /\ ~ IsUser(t, v) /\ IsUser(t, v)'
             /\ vault'[v].usage = (vault[v].usage + 1) % UsageLimit
    <3>1. Users(v)' = Users(v) \cup {t} /\ t \notin Users(v)
      BY <2>4, <2>5, UsersChange
    <3>2. Cardinality(Users(v)') = Cardinality(Users(v)) + 1
      BY <2>2, <3>1, FS_AddElement
    <3>3. Cardinality(Users(v)') < UsageLimit
      <4>1. Users(v)' \subseteq Threads
        BY DEF Users
      <4>2. IsFiniteSet(Threads) /\ Cardinality(Threads) < UsageLimit
        BY UsageAssumption
      <4>3. Cardinality(Users(v)') <= Cardinality(Threads)
        BY <4>1, <4>2, FS_Subset
      <4>4. Cardinality(Threads) \in Nat
        BY <4>2, FS_CardinalityType
      <4>5. QED
        BY <2>2, <2>3, <3>2, <4>2, <4>3, <4>4
    <3>4. (Cardinality(Users(v)) + 1) % UsageLimit = Cardinality(Users(v)) + 1
      BY <2>2, <2>3, <3>2, <3>3
    <3>5. QED
      BY <1>3, <2>1, <2>5, <3>2, <3>4
  <2>6. CASE /\ IsUser(t, v) /\ ~ IsUser(t, v)'
             /\ vault'[v].usage = (vault[v].usage - 1) % UsageLimit
    <3>1. Users(v)' = Users(v) \ {t} /\ t \in Users(v)
      BY <2>4, <2>6, UsersChange
    <3>2. Cardinality(Users(v)') = Cardinality(Users(v)) - 1
      BY <2>2, <3>1, FS_RemoveElement
    <3>3. Cardinality(Users(v)) # 0
      BY <2>2, <3>1, FS_EmptySet
    <3>4. (Cardinality(Users(v)) - 1) % UsageLimit = Cardinality(Users(v)) - 1
      BY <2>2, <2>3, <3>3
    <3>5. QED
      BY <1>3, <2>1, <2>6, <3>2, <3>4
  <2>7. QED
    BY <2>5, <2>6
<1>4. QED
  BY <1>2, <1>3

LEMMA LockUsage ==
    ASSUME QuietInv, NEW t \in Threads,
           LookAround(t) \/ Lock(t) \/ Wake(t) \/ Unlock(t) \/ RemoveFinish(t)
    PROVE  UsageCounts'
<1>0. TypeOK /\ OthersKept(t)
  BY StepKeeps DEF QuietInv, Inv, Run, LookAround
<1>1. CASE LookAround(t)
  BY <1>0, <1>1, LookKeeps, UsageKept DEF IsUser
<1>2. CASE Lock(t) \/ Wake(t) \/ Unlock(t)
  <2>1. pc[t] \in {"lock"} \cup Locking
    BY <1>2 DEF Lock, Wake, Unlock, Locking
  <2>2. PICK v \in Listed : Target(t) = {v} /\ (pc[t] # "lock" => at[t] = v)
    BY <2>1, TargetIs
  <2>3. v # None /\ v \in 1 .. made
    BY ListedMade DEF QuietInv
  <2>4. UNCHANGED vault \/ Down(v) \/ Up(v)
    BY <1>2, <2>2, <2>3 DEF Lock, Wake, Unlock
  <2>5. \A w \in 1 .. made : vault'[w].usage = vault[w].usage
    BY <1>0, <2>3, <2>4, Written
  <2>6. fd'[t] = fd[t] /\ pc[t] # "alloc" /\ pc'[t] # "alloc" /\ made' = made
    <3>1. pc'[t] \in {"idle", "oops", "work", "asleep"}
      BY <1>0, <1>2, GotoKeeps, ReturnKeeps DEF Lock, Wake, Unlock
    <3>2. fd'[t] = fd[t]
      BY <1>0, <1>2, ReturnKeeps DEF Lock, Wake, Unlock
    <3>3. QED
      BY <1>2, <3>1, <3>2 DEF Lock, Wake, Unlock
  <2>7. QED
    BY <1>0, <2>5, <2>6, UsageKept DEF IsUser
<1>3. CASE RemoveFinish(t)
  <2>1. /\ pc[t] = "unlink" /\ pc'[t] = "idle" /\ fd'[t] = fd[t]
        /\ vault' = vault /\ made' = made
    BY <1>0, <1>3, ReturnKeeps DEF RemoveFinish
  <2>2. QED
    BY <1>0, <2>1, UsageKept DEF IsUser
<1>4. QED
  BY <1>1, <1>2, <1>3

(* Nobody has a file of the vault that was just made.                      *)
LEMMA FinishUsage ==
    ASSUME QuietInv, NEW t \in Threads, CreateFinish(t)
    PROVE  UsageCounts'
<1>0. /\ TypeOK /\ OthersKept(t) /\ pc[t] = "link" /\ pc'[t] = "idle"
      /\ fd'[t] = fd[t]
  BY StepKeeps, ReturnKeeps DEF QuietInv, Inv, Run, CreateFinish
<1>1. \A v : IsUser(t, v)' <=> IsUser(t, v)
  BY <1>0 DEF IsUser
<1>2. \A v : Users(v)' = Users(v)
  BY <1>0, <1>1, UsersChange
<1>3. /\ made' = made + 1 /\ made + 1 \notin 1 .. made
      /\ \A v \in 1 .. made : vault'[v] = vault[v]
      /\ vault'[made + 1].usage = 0
  BY FinishIs
<1>4. ASSUME NEW v \in 1 .. made
      PROVE  vault'[v].usage = Cardinality(Users(v)')
  BY <1>2, <1>3 DEF QuietInv, UsageCounts
<1>5. ASSUME NEW v, v = made + 1
      PROVE  vault'[v].usage = Cardinality(Users(v)')
  <2>1. v # None /\ v \notin Listed
    BY <1>3, <1>5, ListedMade DEF None, QuietInv
  <2>2. \A u \in Threads : ~ IsUser(u, v)
    BY <2>1, AtIsListed DEF IsUser, QuietInv, OpenStaysListed
  <2>3. Users(v) = {}
    BY <2>2, UsersAre
  <2>4. QED
    BY <1>2, <1>3, <1>5, <2>3, FS_EmptySet
<1>6. \A v \in 1 .. made + 1 : v \in 1 .. made \/ v = made + 1
  BY ListedMade DEF QuietInv
<1>7. QED
  BY <1>3, <1>4, <1>5, <1>6 DEF UsageCounts

LEMMA OpenUsage ==
    ASSUME QuietInv, NEW t \in Threads, Count(t) \/ OpenFinish(t) \/ Close(t)
    PROVE  UsageCounts'
<1>0. /\ TypeOK /\ Inv /\ OthersKept(t) /\ Place(t)
      /\ Listed \subseteq 1 .. made /\ made' = made /\ None \notin 1 .. made
  BY StepKeeps, ListedMade
  DEF QuietInv, Inv, AimInv, Run, Count, OpenFinish, Close, shared
<1>1. pc[t] \in Locking
  BY DEF Count, OpenFinish, Close, Locking
<1>2. PICK v \in Listed : /\ Target(t) = {v} /\ (pc[t] # "lock" => at[t] = v)
                          /\ (call[t].op \in OnFile => v = fd[t])
  BY <1>1, TargetIs
<1>3. v # None /\ v \in 1 .. made
  BY <1>0, ListedMade
<1>4. CASE Count(t)
  <2>1. /\ pc[t] = "work" /\ call[t].op = "OPEN" /\ fd' = fd
        /\ vault' = [vault EXCEPT ![v].usage = (@ + 1) % UsageLimit,
                                  ![v].lock = @ + 1]
        /\ at' = [at EXCEPT ![t] = v] /\ Goto(t, "alloc")
    BY <1>2, <1>3, <1>4 DEF Count
  <2>2. at'[t] = v /\ pc'[t] = "alloc" /\ fd[t] = None
    BY <1>0, <2>1, GotoKeeps DEF TypeOK, Place
  <2>3. \A w \in 1 .. made : ~ IsUser(t, w) /\ (IsUser(t, w)' <=> w = v)
    BY <1>0, <2>1, <2>2 DEF IsUser
  <2>4. /\ vault'[v].usage = (vault[v].usage + 1) % UsageLimit
        /\ \A w \in (1 .. made) \ {v} : vault'[w] = vault[w]
    BY <1>0, <1>3, <2>1, Written
  <2>5. QED
    BY <1>0, <1>3, <2>3, <2>4, UsageMoved
<1>5. CASE OpenFinish(t)
  <2>1. /\ pc[t] = "alloc" /\ at[t] = v /\ call[t].op = "OPEN"
        /\ Return(t, v) /\ vault' = vault
    BY <1>0, <1>2, <1>3, <1>5 DEF OpenFinish, shared, Place
  <2>2. pc'[t] = "idle" /\ fd'[t] = v /\ fd[t] = None
    BY <1>0, <2>1, ReturnKeeps DEF Place
  <2>3. \A w \in 1 .. made : (IsUser(t, w)' <=> IsUser(t, w))
    BY <1>0, <2>1, <2>2 DEF IsUser
  <2>4. QED
    BY <1>0, <2>1, <2>3, UsageKept
<1>6. CASE Close(t)
  <2>1. /\ pc[t] = "work" /\ fd[t] = v /\ Return(t, None)
        /\ vault' = [vault EXCEPT ![v].usage = (@ - 1) % UsageLimit,
                                  ![v].lock = @ + 1]
    BY <1>2, <1>6 DEF Close, OnFile
  <2>2. pc'[t] = "idle" /\ fd'[t] = None
    BY <1>0, <2>1, ReturnKeeps
  <2>3. \A w \in 1 .. made : ~ IsUser(t, w)' /\ (IsUser(t, w) <=> w = v)
    BY <1>0, <2>1, <2>2 DEF IsUser
  <2>4. /\ vault'[v].usage = (vault[v].usage - 1) % UsageLimit
        /\ \A w \in (1 .. made) \ {v} : vault'[w] = vault[w]
    <3>1. \E x : /\ x = (vault[v].usage - 1) % UsageLimit
                 /\ vault' = [vault EXCEPT ![v].usage = x, ![v].lock = @ + 1]
      BY <2>1
    <3>2. QED
      BY <1>0, <1>3, <3>1, Written, Zenon
  <2>5. QED
    BY <1>0, <1>3, <2>3, <2>4, UsageMoved
<1>7. QED
  BY <1>4, <1>5, <1>6

LEMMA StepUsage ==
    ASSUME QuietInv, NEW t \in Threads, Start(t) \/ Run(t)
    PROVE  UsageCounts'
  BY LockUsage, FinishUsage, OpenUsage DEF Run, LookAround

-----------------------------------------------------------------------------
(* Open files and unlinked vaults                                          *)

(* Where a step of t puts the open file of t.                              *)
LEMMA FileIs ==
    ASSUME QuietInv, NEW t \in Threads, Start(t) \/ Run(t)
    PROVE  \/ fd'[t] = fd[t]
           \/ fd'[t] \in Listed \cup {None} /\ Listed' = Listed
<1>0. TypeOK
  BY DEF QuietInv, Inv
<1>1. CASE LookAround(t)
  BY <1>1, LookKeeps
<1>2. CASE Lock(t) \/ Wake(t) \/ Unlock(t) \/ CreateFinish(t) \/ RemoveFinish(t)
  BY <1>0, <1>2, ReturnKeeps
  DEF Lock, Wake, Unlock, CreateFinish, RemoveFinish
<1>3. CASE Count(t)
  BY <1>3 DEF Count
<1>4. CASE OpenFinish(t) \/ Close(t)
  <2>1. pc[t] \in Locking
    BY <1>4 DEF OpenFinish, Close, Locking
  <2>2. PICK v \in Listed : Target(t) = {v}
    BY <2>1, TargetIs
  <2>3. v # None
    BY ListedMade DEF QuietInv
  <2>4. fd'[t] \in {v, None}
    BY <1>0, <1>4, <2>2, <2>3, ReturnKeeps DEF OpenFinish, Close
  <2>5. Listed' = Listed
    BY <1>4 DEF OpenFinish, Close, Listed, shared
  <2>6. QED
    BY <2>4, <2>5
<1>5. QED
  BY <1>1, <1>2, <1>3, <1>4 DEF Run, LookAround

LEMMA StepOpen ==
    ASSUME QuietInv, NEW t \in Threads, Start(t) \/ Run(t)
    PROVE  OpenStaysListed'
<1>0. Inv /\ TypeOK /\ OthersKept(t) /\ OpenStaysListed
  BY StepKeeps DEF QuietInv, Inv
<1>1. CASE RemoveFinish(t)
  <2>1. PICK k \in 1 .. Len(list) : /\ at[t] = list[k]
                                    /\ vault[list[k]].usage = 0
                                    /\ Listed' = Listed \ {list[k]}
    BY <1>1, RemoveIs
  <2>2. Cardinality(Users(list[k])) = 0
    BY <1>0, <2>1, ListedMade DEF QuietInv, UsageCounts
  <2>3. Users(list[k]) = {}
    BY <2>2, UsersFinite, FS_EmptySet
  <2>4. \A u \in Threads : fd[u] # list[k]
    BY <2>3 DEF Users
  <2>5. fd'[t] = fd[t]
    BY <1>0, <1>1, ReturnKeeps DEF RemoveFinish
  <2>6. QED
    BY <1>0, <2>1, <2>4, <2>5 DEF OpenStaysListed, OthersKept
<1>2. CASE ~ RemoveFinish(t)
  <2>1. Listed \subseteq Listed'
    BY <1>0, <1>2, StepGrows, GrowsListed
  <2>2. QED
    BY <1>0, <2>1, FileIs DEF OpenStaysListed, OthersKept
<1>3. QED
  BY <1>1, <1>2

LEMMA StepUnlink ==
    ASSUME QuietInv, NEW t \in Threads, Start(t) \/ Run(t)
    PROVE  UnlinkInv'
<1>0. Inv /\ TypeOK /\ OthersKept(t)
  BY StepKeeps DEF QuietInv, Inv
<1>1. ASSUME NEW u \in Threads \ {t}, pc'[u] = "unlink"
      PROVE  vault'[at'[u]].usage = 0
  <2>1. pc[u] = "unlink" /\ at'[u] = at[u]
    BY <1>0, <1>1 DEF OthersKept
  <2>2. call[u].op = "REMOVE"
    BY <1>1, <2>1 DEF QuietInv, AimInv, Place
  <2>3. pc[t] = "idle"
    BY <1>1, <2>2, OthersIdle
  <2>4. Start(t)
    BY <2>3 DEF Run, Get, Lock, Wake, Unlock, CreateEnter, CreateFails,
       CreateFinish, RemoveCheck, RemoveEnter, RemoveFinish, Count,
       OpenFinish, Close
  <2>5. vault' = vault
    BY <2>4, LookKeeps DEF LookAround
  <2>6. QED
    BY <1>1, <2>1, <2>5 DEF QuietInv, UnlinkInv
<1>2. ASSUME pc'[t] = "unlink"
      PROVE  vault'[at'[t]].usage = 0
  <2>1. RemoveEnter(t)
    <3>1. \A f : ~ Return(t, f)
      BY <1>0, <1>2, ReturnKeeps
    <3>2. \A p : Goto(t, p) => p = "unlink"
      BY <1>0, <1>2, GotoKeeps
    <3>3. QED
      BY <3>1, <3>2 DEF Start, CallControl, CallOpen, CallOnFile, Begin, Run,
         Get, Lock, Wake, Unlock, CreateEnter, CreateFails, CreateFinish,
         RemoveCheck, RemoveFinish, Count, OpenFinish, Close
  <2>2. pc[t] = "delete" /\ call[t].op = "REMOVE" /\ pc[t] \in Locking
    BY <2>1, PlaceKnown DEF RemoveEnter, Locking, Place
  <2>3. PICK k \in 1 .. Len(list) :
          /\ at[t] = list[k]
          /\ WithId(call[t].id) # {} /\ First(WithId(call[t].id)) = k
    BY <2>2, RemoveFindsAgain
  <2>4. Free(t, k) /\ vault' = vault /\ at' = at
    BY <2>1, <2>3 DEF RemoveEnter
  <2>5. ~ (vault[list[k]].usage > 0)
    <3>1. ~ Goto(t, "unlock")
      BY <1>0, <1>2, GotoKeeps
    <3>2. QED
      BY <2>4, <3>1 DEF Free
  <2>6. vault[list[k]].usage \in Nat
    <3>1. list[k] \in 1 .. made
      BY <1>0, ListedMade
    <3>2. vault[list[k]].usage \in 0 .. UsageLimit - 1
      BY <1>0, <3>1 DEF TypeOK, Vault
    <3>3. QED
      BY <3>2, VaultAssumption
  <2>7. QED
    BY <2>3, <2>4, <2>5, <2>6
<1>3. QED
  BY <1>1, <1>2 DEF UnlinkInv

-----------------------------------------------------------------------------
(* The invariant                                                           *)

LEMMA InitQuiet == Init => QuietInv
<1>1. SUFFICES ASSUME Init PROVE QuietInv
  OBVIOUS
<1>2. Inv
  BY <1>1, InitInv
<1>3. made = 0 /\ list = << >> /\ Len(list) = 0 /\ Listed = {} /\ freed = {}
  BY <1>1, EmptySeq DEF Init, Listed
<1>4. /\ \A t \in Threads : /\ pc[t] = "idle" /\ call[t] = NoCall
                            /\ at[t] = None /\ fd[t] = None
  BY <1>1 DEF Init
<1>5. AimInv
  BY <1>4 DEF AimInv, Place, Aim, NoCall, OnFile, Locking
<1>6. FreedInv /\ HoldInv
  BY <1>3 DEF FreedInv, HoldInv
<1>7. UsageCounts
  BY <1>3 DEF UsageCounts
<1>8. OpenStaysListed /\ UnlinkInv /\ RemovesAlone /\ NoOops
  BY <1>4 DEF OpenStaysListed, UnlinkInv, RemovesAlone, NoOops, NoCall
<1>9. QED
  BY <1>2, <1>5, <1>6, <1>7, <1>8 DEF QuietInv

LEMMA StutterQuiet == QuietInv /\ UNCHANGED vars => QuietInv'
<1>1. SUFFICES ASSUME QuietInv, UNCHANGED vars PROVE QuietInv'
  OBVIOUS
<1>2. UNCHANGED <<vault_lock, list, freed, made, vault, device,
                  pc, call, node, at, fd>>
  BY <1>1 DEF vars, shared, local
<1>3. Inv'
  BY <1>1, StutterInv DEF QuietInv
<1>4. Listed' = Listed /\ \A k : NodeAt(k)' = NodeAt(k)
  BY <1>2 DEF Listed, NodeAt
<1>5. AimInv'
  <2>1. \A t \in Threads : Place(t)'
    BY <1>1, <1>2, <1>4 DEF QuietInv, AimInv, Place
  <2>2. \A t, k : AimedAt(t, k)' <=> AimedAt(t, k)
    BY <1>2, <1>4 DEF AimedAt
  <2>3. \A t \in Threads : Aim(t)'
    BY <1>1, <1>2, <2>2 DEF QuietInv, AimInv, Aim
  <2>4. QED
    BY <2>1, <2>3 DEF AimInv
<1>6. FreedInv' /\ UnlinkInv' /\ NoOops' /\ OpenStaysListed' /\ RemovesAlone'
  BY <1>1, <1>2, <1>4
  DEF QuietInv, FreedInv, UnlinkInv, NoOops, OpenStaysListed, RemovesAlone
<1>7. HoldInv'
  <2>1. \A t, v : Holds(t, v)' <=> Holds(t, v)
    BY <1>2 DEF Holds
  <2>2. QED
    BY <1>1, <1>2, <1>4, <2>1 DEF QuietInv, HoldInv, HeldOnce
<1>8. UsageCounts'
  <2>1. \A v : Users(v)' = Users(v)
    BY <1>2 DEF Users
  <2>2. QED
    BY <1>1, <1>2, <2>1 DEF QuietInv, UsageCounts
<1>9. QED
  BY <1>3, <1>5, <1>6, <1>7, <1>8 DEF QuietInv

(* The inductive invariant: the calls, the nodes, the locks, the counters  *)
(* and the open files keep one another right, as long as removes run alone.*)
THEOREM QuietInvariant == QuietSpec => []QuietInv
<1>1. QuietInv /\ [QuietNext]_vars => QuietInv'
  <2>1. ASSUME QuietInv, NEW t \in Threads, Start(t) \/ Run(t), RemovesAlone'
        PROVE  QuietInv'
    <3>1. Inv'
      BY <2>1, StepInv DEF QuietInv
    <3>2. QED
      BY <2>1, <3>1, StepAims, StepFreed, StepHold, StepUsage, StepOpen,
         StepUnlink
      DEF QuietInv
  <2>2. QED
    BY <2>1, StutterQuiet DEF QuietNext
<1>2. QED
  BY <1>1, InitQuiet, PTL DEF QuietSpec

(* Only one thread at a time works on a listed vault: every path through   *)
(* the file operations and the ioctls takes its lock once and releases it  *)
(* once, and up(&node->vault->lock) releases the one that was taken.       *)
THEOREM QuietVaultExclusive == QuietSpec => []VaultExclusive
<1>1. QuietInv => VaultExclusive
  <2>1. SUFFICES ASSUME QuietInv, NEW v \in Listed,
                        \A t \in Threads : ~ InList(t)
                 PROVE  vault[v].lock + Cardinality(Holding(v)) = 1
    BY DEF VaultExclusive
  <2>2. \A t \in Threads : t \in Holding(v) <=> Holds(t, v)
    BY <2>1 DEF Holding, Holds, InList
  <2>3. HeldOnce(v)
    BY <2>1 DEF QuietInv, HoldInv
  <2>4. CASE vault[v].lock = 1 /\ \A t \in Threads : ~ Holds(t, v)
    <3>1. Holding(v) = {}
      BY <2>2, <2>4 DEF Holding
    <3>2. QED
      BY <2>4, <3>1, FS_EmptySet
  <2>5. CASE /\ vault[v].lock = 0
             /\ \E t \in Threads :
                  Holds(t, v) /\ \A u \in Threads \ {t} : ~ Holds(u, v)
    <3>1. PICK t \in Threads : Holding(v) = {t}
      BY <2>2, <2>5 DEF Holding
    <3>2. QED
      BY <2>5, <3>1, FS_Singleton
  <2>6. QED
    BY <2>3, <2>4, <2>5 DEF HeldOnce
<1>2. QED
  BY <1>1, QuietInvariant, PTL

(* usage is the number of files that are open on a vault, or about to be:  *)
(* secvault_open and secvault_release count each file once.                *)
THEOREM QuietUsageCounts == QuietSpec => []UsageCounts
  BY QuietInvariant, PTL DEF QuietInv

(* ioctl_delete_vault never unlinks a vault that has an open file.         *)
THEOREM QuietOpenStaysListed == QuietSpec => []OpenStaysListed
  BY QuietInvariant, PTL DEF QuietInv

(* A thread that holds the lock of a vault works on the one that its call  *)
(* named by number or device, though the list changed since get_vault.     *)
THEOREM QuietRightVault == QuietSpec => []RightVault
<1>1. QuietInv => RightVault
  <2>1. SUFFICES ASSUME QuietInv, NEW t \in Threads,
                        pc[t] \in {"work", "delete"}
                 PROVE  /\ call[t].op \in Control =>
                             at[t] \in Listed /\ vault[at[t]].id = call[t].id
                        /\ call[t].op = "OPEN" => at[t] = call[t].cdev
    BY DEF RightVault
  <2>2. pc[t] \in {"lock"} \cup Locking /\ pc[t] # "lock"
    BY <2>1 DEF Locking
  <2>3. QED
    BY <2>1, <2>2, TargetIs
<1>2. QED
  BY <1>1, QuietInvariant, PTL

-----------------------------------------------------------------------------
(* The list of vaults implements the store.                                *)

(* What the store has for a number: the counter of the listed vault.       *)
StoreIs ==
    /\ \A v \in Listed : /\ vault[v].id \in Ids
                         /\ Opened[vault[v].id] = vault[v].usage
    /\ \A id \in Ids : (\A v \in Listed : vault[v].id # id) => Opened[id] = None

LEMMA OpenedIs == Inv => StoreIs
<1>1. SUFFICES ASSUME Inv PROVE StoreIs
  OBVIOUS
<1>2. ASSUME NEW v \in Listed
      PROVE  vault[v].id \in Ids /\ Opened[vault[v].id] = vault[v].usage
  <2>1. PICK k \in 1 .. Len(list) : v = list[k]
    BY <1>2 DEF Listed
  <2>2. vault[v].id \in Ids
    BY <1>1, <1>2, ListedMade DEF Inv, TypeOK, Vault
  <2>3. k \in WithId(vault[v].id) /\ First(WithId(vault[v].id)) = k
    BY <1>1, <2>1, FirstWithId DEF Inv, ListInv, WithId
  <2>4. QED
    BY <2>1, <2>2, <2>3 DEF Opened
<1>3. ASSUME NEW id \in Ids, \A v \in Listed : vault[v].id # id
      PROVE  Opened[id] = None
  <2>1. WithId(id) = {}
    BY <1>3 DEF WithId, Listed
  <2>2. QED
    BY <2>1 DEF Opened
<1>4. QED
  BY <1>2, <1>3 DEF StoreIs

LEMMA OpenedIsNext == Inv' => StoreIs'
  BY OpenedIs, PTL

(* A step that leaves numbers and counters alone is none of the store.     *)
LEMMA StoreKept ==
    ASSUME StoreIs, StoreIs', Listed' = Listed,
           \A v \in Listed : /\ vault'[v].id = vault[v].id
                             /\ vault'[v].usage = vault[v].usage
    PROVE  Opened' = Opened
<1>1. ASSUME NEW id \in Ids PROVE Opened'[id] = Opened[id]
  BY DEF StoreIs
<1>2. QED
  BY <1>1 DEF Opened

(* A step that writes the counter of vault v.                              *)
LEMMA StoreMoved ==
    ASSUME Inv, StoreIs, StoreIs', Listed' = Listed, NEW v \in Listed,
           \A w \in Listed : vault'[w].id = vault[w].id,
           \A w \in Listed \ {v} : vault'[w].usage = vault[w].usage
    PROVE  Opened' = [Opened EXCEPT ![vault[v].id] = vault'[v].usage]
<1>1. \A w \in Listed \ {v} : vault[w].id # vault[v].id
  BY DEF Inv, ListInv, UniqueIds, Listed
<1>2. ASSUME NEW id \in Ids
      PROVE  Opened'[id] = IF id = vault[v].id THEN vault'[v].usage
                                               ELSE Opened[id]
  <2>1. CASE id = vault[v].id
    BY <2>1 DEF StoreIs
  <2>2. CASE id # vault[v].id
    <3>1. CASE \E w \in Listed : vault[w].id = id
      BY <2>2, <3>1 DEF StoreIs
    <3>2. CASE \A w \in Listed : vault[w].id # id
      BY <2>2, <3>2 DEF StoreIs
    <3>3. QED
      BY <3>1, <3>2
  <2>3. QED
    BY <2>1, <2>2
<1>3. QED
  BY <1>2 DEF Opened

(* secvault_open counts without an overflow.                               *)
LEMMA CountOpens ==
    ASSUME QuietInv, QuietInv', NEW t \in Threads, Count(t)
    PROVE  Store!Next
<1>0. /\ TypeOK /\ Inv /\ Place(t) /\ StoreIs /\ StoreIs'
      /\ Listed' = Listed /\ Listed \subseteq 1 .. made /\ None \notin 1 .. made
  BY ListedMade, OpenedIs, OpenedIsNext
  DEF QuietInv, Inv, AimInv, Count, Listed
<1>1. pc[t] = "work" /\ call[t].op = "OPEN" /\ pc[t] \in Locking
  BY DEF Count, Locking
<1>2. PICK v \in Listed : Target(t) = {v}
  BY <1>1, TargetIs
<1>3. v # None /\ v \in 1 .. made
  BY <1>0
<1>4. vault' = [vault EXCEPT ![v].usage = (@ + 1) % UsageLimit,
                             ![v].lock = @ + 1]
  BY <1>2, <1>3 DEF Count
<1>5. /\ vault'[v].usage = (vault[v].usage + 1) % UsageLimit
      /\ \A w \in (1 .. made) \ {v} : vault'[w] = vault[w]
  BY <1>0, <1>3, <1>4, Written
<1>6. \A w \in 1 .. made : vault'[w].id = vault[w].id
  BY <1>0, <1>4, NumbersKept
<1>7. vault'[v].usage = vault[v].usage + 1 /\ vault[v].usage \in Nat
  <2>1. vault[v].usage = Cardinality(Users(v)) /\ t \notin Users(v)
    BY <1>0, <1>1, <1>3 DEF QuietInv, UsageCounts, Place, Users
  <2>2. IsFiniteSet(Users(v)) /\ Cardinality(Users(v)) \in Nat
    BY UsersFinite
  <2>3. Cardinality(Users(v) \cup {t}) = Cardinality(Users(v)) + 1
    BY <2>1, <2>2, FS_AddElement
  <2>4. Cardinality(Users(v) \cup {t}) <= Cardinality(Threads)
    <3>1. Users(v) \cup {t} \subseteq Threads
      BY DEF Users
    <3>2. QED
      BY <3>1, UsageAssumption, FS_Subset
  <2>5. Cardinality(Threads) \in Nat /\ Cardinality(Threads) < UsageLimit
    BY UsageAssumption, FS_CardinalityType
  <2>6. UsageLimit \in Nat \ {0}
    BY VaultAssumption
  <2>7. (Cardinality(Users(v)) + 1) % UsageLimit = Cardinality(Users(v)) + 1
    BY <2>2, <2>3, <2>4, <2>5, <2>6
  <2>8. QED
    BY <1>5, <2>1, <2>2, <2>7
<1>8. Opened' = [Opened EXCEPT ![vault[v].id] = vault'[v].usage]
  BY <1>0, <1>5, <1>6, StoreMoved
<1>9. vault[v].id \in Ids /\ Opened[vault[v].id] = vault[v].usage
  BY <1>0 DEF StoreIs
<1>10. Store!Open(vault[v].id)
  <2>1. Opened[vault[v].id] # None
    BY <1>7, <1>9 DEF None
  <2>2. Opened' = [Opened EXCEPT ![vault[v].id] = @ + 1]
    BY <1>7, <1>8, <1>9
  <2>3. QED
    BY <2>1, <2>2 DEF Store!Open
<1>11. QED
  BY <1>9, <1>10 DEF Store!Next

(* secvault_release counts down to zero at most.                           *)
LEMMA CloseCloses ==
    ASSUME QuietInv, QuietInv', NEW t \in Threads, Close(t)
    PROVE  Store!Next
<1>0. /\ TypeOK /\ Inv /\ StoreIs /\ StoreIs'
      /\ Listed' = Listed /\ Listed \subseteq 1 .. made
  BY ListedMade, OpenedIs, OpenedIsNext DEF QuietInv, Inv, Close, Listed
<1>1. pc[t] = "work" /\ call[t].op = "CLOSE" /\ pc[t] \in Locking
  BY DEF Close, Locking
<1>2. PICK v \in Listed : v = fd[t]
  BY <1>1, TargetIs DEF OnFile
<1>3. v \in 1 .. made
  BY <1>0
<1>4. vault' = [vault EXCEPT ![v].usage = (@ - 1) % UsageLimit,
                             ![v].lock = @ + 1]
  BY <1>2 DEF Close
<1>5. \E x : /\ x = (vault[v].usage - 1) % UsageLimit
             /\ vault' = [vault EXCEPT ![v].usage = x, ![v].lock = @ + 1]
  BY <1>4
<1>6. /\ vault'[v].usage = (vault[v].usage - 1) % UsageLimit
      /\ \A w \in (1 .. made) \ {v} : vault'[w] = vault[w]
  BY <1>0, <1>3, <1>5, Written, Zenon
<1>7. \A w \in 1 .. made : vault'[w].id = vault[w].id
  BY <1>0, <1>5, NumbersKept, Zenon
<1>8. vault'[v].usage = vault[v].usage - 1 /\ vault[v].usage \in Nat \ {0}
  <2>1. vault[v].usage = Cardinality(Users(v)) /\ t \in Users(v)
    BY <1>2, <1>3 DEF QuietInv, UsageCounts, Users
  <2>2. /\ IsFiniteSet(Users(v)) /\ Cardinality(Users(v)) \in Nat
        /\ Cardinality(Users(v)) < UsageLimit
    BY UsersFinite
  <2>3. Cardinality(Users(v)) # 0
    BY <2>1, <2>2, FS_EmptySet
  <2>4. UsageLimit \in Nat \ {0}
    BY VaultAssumption
  <2>5. (Cardinality(Users(v)) - 1) % UsageLimit = Cardinality(Users(v)) - 1
    BY <2>2, <2>3, <2>4
  <2>6. QED
    BY <1>6, <2>1, <2>2, <2>3, <2>5
<1>9. Opened' = [Opened EXCEPT ![vault[v].id] = vault'[v].usage]
  BY <1>0, <1>6, <1>7, StoreMoved
<1>10. vault[v].id \in Ids /\ Opened[vault[v].id] = vault[v].usage
  BY <1>0 DEF StoreIs
<1>11. Store!Close(vault[v].id)
  <2>1. Opened[vault[v].id] \notin {None, 0}
    BY <1>8, <1>10 DEF None
  <2>2. Opened' = [Opened EXCEPT ![vault[v].id] = @ - 1]
    BY <1>8, <1>9, <1>10
  <2>3. QED
    BY <2>1, <2>2 DEF Store!Close
<1>12. QED
  BY <1>10, <1>11 DEF Store!Next

(* create_new_vault makes a vault of a number that had none.               *)
LEMMA FinishCreates ==
    ASSUME QuietInv, QuietInv', NEW t \in Threads, CreateFinish(t)
    PROVE  Store!Next
<1>0. Inv /\ StoreIs /\ StoreIs' /\ Listed \subseteq 1 .. made
  BY ListedMade, OpenedIs, OpenedIsNext DEF QuietInv
<1>1. /\ pc[t] = "link" /\ call[t].id \in Ids /\ device[call[t].id] = None
  BY <1>0, FinishList DEF CreateFinish
<1>2. \A u \in Threads : pc[u] # "unlink"
  <2>1. \A u \in Threads : InList(u) => u = t
    BY <1>0, <1>1, Alone DEF Inv, InList
  <2>2. QED
    BY <1>1, <2>1 DEF InList
<1>3. \A w \in Listed : vault[w].id # call[t].id
  BY <1>0, <1>1, <1>2, FreeNumber DEF Listed
<1>4. /\ Listed' = Listed \cup {made + 1}
      /\ \A w \in 1 .. made : vault'[w] = vault[w]
      /\ vault'[made + 1].usage = 0 /\ vault'[made + 1].id = call[t].id
  BY FinishIs
<1>5. ASSUME NEW id \in Ids
      PROVE  Opened'[id] = IF id = call[t].id THEN 0 ELSE Opened[id]
  <2>1. CASE id = call[t].id
    BY <1>0, <1>4, <2>1 DEF StoreIs
  <2>2. CASE id # call[t].id
    <3>1. CASE \E w \in Listed : vault[w].id = id
      BY <1>0, <1>4, <2>2, <3>1 DEF StoreIs
    <3>2. CASE \A w \in Listed : vault[w].id # id
      BY <1>0, <1>4, <1>5, <2>2, <3>2 DEF StoreIs
    <3>3. QED
      BY <3>1, <3>2
  <2>3. QED
    BY <2>1, <2>2
<1>6. Opened[call[t].id] = None
  BY <1>0, <1>1, <1>3 DEF StoreIs
<1>7. Opened' = [Opened EXCEPT ![call[t].id] = 0]
  BY <1>5 DEF Opened
<1>8. QED
  BY <1>1, <1>6, <1>7 DEF Store!Create, Store!Next

(* delete_node removes a vault that has no open file.                      *)
LEMMA RemoveRemoves ==
    ASSUME QuietInv, QuietInv', NEW t \in Threads, RemoveFinish(t)
    PROVE  Store!Next
<1>0. Inv /\ StoreIs /\ StoreIs' /\ UniqueIds
  BY OpenedIs, OpenedIsNext DEF QuietInv, Inv, ListInv
<1>1. PICK k \in 1 .. Len(list) : /\ vault[list[k]].usage = 0
                                  /\ Listed' = Listed \ {list[k]}
  BY RemoveIs
<1>2. PICK v \in Listed : v = list[k]
  BY DEF Listed
<1>3. vault' = vault
  BY DEF RemoveFinish
<1>4. \A w \in Listed \ {v} : vault[w].id # vault[v].id
  BY <1>0, <1>2 DEF UniqueIds, Listed
<1>5. ASSUME NEW id \in Ids
      PROVE  Opened'[id] = IF id = vault[v].id THEN None ELSE Opened[id]
  <2>1. CASE id = vault[v].id
    BY <1>0, <1>1, <1>2, <1>3, <1>4, <1>5, <2>1 DEF StoreIs
  <2>2. CASE id # vault[v].id
    <3>1. CASE \E w \in Listed : vault[w].id = id
      BY <1>0, <1>1, <1>2, <1>3, <2>2, <3>1 DEF StoreIs
    <3>2. CASE \A w \in Listed : vault[w].id # id
      BY <1>0, <1>1, <1>3, <1>5, <2>2, <3>2 DEF StoreIs
    <3>3. QED
      BY <3>1, <3>2
  <2>3. QED
    BY <2>1, <2>2
<1>6. vault[v].id \in Ids /\ Opened[vault[v].id] = 0
  BY <1>0, <1>1, <1>2 DEF StoreIs
<1>7. Opened' = [Opened EXCEPT ![vault[v].id] = None]
  BY <1>5 DEF Opened
<1>8. QED
  BY <1>6, <1>7 DEF Store!Remove, Store!Next

(* Taking and releasing a lock changes no counter, and nothing else does.  *)
LEMMA OtherStepsKeepStore ==
    ASSUME QuietInv, QuietInv', NEW t \in Threads,
           \/ LookAround(t) \/ Lock(t) \/ Wake(t) \/ Unlock(t) \/ OpenFinish(t)
    PROVE  Opened' = Opened
<1>0. TypeOK /\ StoreIs /\ StoreIs' /\ Listed \subseteq 1 .. made
  BY ListedMade, OpenedIs, OpenedIsNext DEF QuietInv, Inv
<1>1. CASE LookAround(t) \/ OpenFinish(t)
  <2>1. vault' = vault /\ list' = list
    BY <1>1, LookKeeps DEF OpenFinish, shared
  <2>2. QED
    BY <1>0, <2>1, StoreKept DEF Listed
<1>2. CASE Lock(t) \/ Wake(t) \/ Unlock(t)
  <2>1. pc[t] \in {"lock"} \cup Locking
    BY <1>2 DEF Lock, Wake, Unlock, Locking
  <2>2. PICK v \in Listed : Target(t) = {v} /\ (pc[t] # "lock" => at[t] = v)
    BY <2>1, TargetIs
  <2>3. v # None /\ v \in 1 .. made
    BY ListedMade DEF QuietInv
  <2>4. UNCHANGED vault \/ Down(v) \/ Up(v)
    BY <1>2, <2>2, <2>3 DEF Lock, Wake, Unlock
  <2>5. \A w \in 1 .. made : /\ vault'[w].usage = vault[w].usage
                             /\ vault'[w].id = vault[w].id
    BY <1>0, <2>3, <2>4, Written, NumbersKept
  <2>6. Listed' = Listed
    BY <1>2 DEF Lock, Wake, Unlock, Listed
  <2>7. QED
    BY <1>0, <2>5, <2>6, StoreKept
<1>3. QED
  BY <1>1, <1>2

(* Whatever system calls run together, as long as removes run alone, the   *)
(* list and the counters are those of a store whose vaults are created,    *)
(* opened, closed and removed in one step each.                            *)
THEOREM QuietImplementsStore == QuietSpec => ImplementsStore
<1>1. Init => Store!Init
  <2>1. SUFFICES ASSUME Init PROVE Opened = [id \in Ids |-> None]
    BY DEF Store!Init
  <2>2. \A id \in Ids : WithId(id) = {}
    BY <2>1, EmptySeq DEF Init, WithId
  <2>3. QED
    BY <2>2 DEF Opened
<1>2. QuietInv /\ QuietInv' /\ [QuietNext]_vars => [Store!Next]_Opened
  <2>1. ASSUME QuietInv, QuietInv', NEW t \in Threads, Start(t) \/ Run(t)
        PROVE  Store!Next \/ Opened' = Opened
    BY <2>1, CountOpens, CloseCloses, FinishCreates, RemoveRemoves,
       OtherStepsKeepStore
    DEF Run, LookAround
  <2>2. ASSUME QuietInv, QuietInv', UNCHANGED vars PROVE Opened' = Opened
    <3>1. vault' = vault /\ list' = list
      BY <2>2 DEF vars, shared
    <3>2. QED
      BY <2>2, <3>1, OpenedIs, OpenedIsNext, StoreKept
      DEF Listed, QuietInv
  <2>3. QED
    BY <2>1, <2>2 DEF QuietNext
<1>3. QED
  BY <1>1, <1>2, QuietInvariant, PTL
  DEF QuietSpec, ImplementsStore, Store!Spec

================================================================================
