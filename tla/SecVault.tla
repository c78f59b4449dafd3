------------------------------- MODULE SecVault --------------------------------
(***************************************************************************)
(* The secure vault kernel module (Bonus Beispiel/module): the list of     *)
(* vaults, its lock, the locks and usage counters of the vaults, and the   *)
(* system calls of several threads on /dev/sv_ctl and /dev/sv_data*.       *)
(*                                                                         *)
(* pc[t] is where thread t stands:                                         *)
(*   idle          in user space                                           *)
(*   get           about to search the list (get_vault, get_vault_by_cdev) *)
(*   lock, asleep  about to take the lock of a vault, asleep in that call  *)
(*   work          holds that lock                                         *)
(*   delete        with it, past the check of the owner, about to enter    *)
(*                 delete_node                                             *)
(*   unlock        about to release it after a remove that failed          *)
(*   create, link  before and inside the critical section of               *)
(*                 create_new_vault                                        *)
(*   unlink        inside the critical section of delete_node              *)
(*   alloc         in secvault_open, after counting itself                 *)
(*   oops          followed a NULL pointer; never runs again               *)
(***************************************************************************)
EXTENDS Integers, Sequences, FiniteSets

CONSTANTS
    Threads,        \* user processes, one system call at a time each
    User,           \* the user of each thread
    Ids,            \* vault numbers
    MaxVaults,      \* how many vaults are ever created (a bound)
    UsageLimit      \* usage is an unsigned int: it wraps here, 2^32 in the code

ASSUME VaultAssumption ==
    /\ MaxVaults \in Nat
    /\ UsageLimit \in Nat \ {0}
    /\ Ids \subseteq Nat
    /\ DOMAIN User = Threads

(* A thread of this model has one file open.  Linux has at most 2^22       *)
(* threads, so that the counter, which the code never tests, does not wrap.*)
ASSUME UsageAssumption ==
    IsFiniteSet(Threads) /\ Cardinality(Threads) < UsageLimit

(* Addresses.  Vault v is the v-th struct secvault_data that was allocated *)
(* and node v the list node that was allocated with it; Root is the static *)
(* first node, None is NULL.                                               *)
Root == 0
None == -1
Vaults == 1 .. MaxVaults

VARIABLES
    vault_lock,     \* semaphore of the list
    list,           \* the vaults in list order; the first is in Root
    freed,          \* nodes that were freed
    made,           \* vaults allocated so far; they are never freed
    vault,          \* id, owner, lock and usage of every vault
    device,         \* the vault whose device has the given number
    pc,             \* control state, see above
    call,           \* the system call: operation, number, character device
    node,           \* the list node that the call works on
    at,             \* the vault whose lock the call waits for or holds
    fd              \* the vault of the open file, if any

shared == <<vault_lock, list, freed, made, vault, device>>
local == <<pc, call, node, at, fd>>
vars == <<shared, local>>

Control == {"CREATE", "REMOVE", "USE"}
OnFile == {"IO", "CLOSE"}

NoCall == [op |-> "NONE", id |-> None, cdev |-> None]

Call == {NoCall}
        \cup [op : Control, id : Ids, cdev : {None}]
        \cup [op : {"OPEN"}, id : Ids, cdev : Vaults]
        \cup [op : OnFile, id : {None}, cdev : {None}]

Vault == [id : Ids, owner : {User[t] : t \in Threads}, lock : Nat,
          usage : 0 .. UsageLimit - 1]

TypeOK ==
    /\ vault_lock \in Nat
    /\ list \in Seq(Vaults)
    /\ freed \subseteq Vaults
    /\ made \in 0 .. MaxVaults
    /\ vault \in [1 .. made -> Vault]
    /\ device \in [Ids -> Vaults \cup {None}]
    /\ pc \in [Threads -> {"idle", "get", "lock", "asleep", "work", "delete",
                           "unlock", "create", "link", "unlink", "alloc",
                           "oops"}]
    /\ call \in [Threads -> Call]
    /\ node \in [Threads -> Vaults \cup {None, Root}]
    /\ at \in [Threads -> Vaults \cup {None}]
    /\ fd \in [Threads -> Vaults \cup {None}]

(* secvault_init.                                                          *)
Init ==
    /\ vault_lock = 1
    /\ list = << >>
    /\ freed = {}
    /\ made = 0
    /\ vault = << >>
    /\ device = [id \in Ids |-> None]
    /\ pc = [t \in Threads |-> "idle"]
    /\ call = [t \in Threads |-> NoCall]
    /\ node = [t \in Threads |-> None]
    /\ at = [t \in Threads |-> None]
    /\ fd = [t \in Threads |-> None]

-----------------------------------------------------------------------------
(* The list                                                                *)

Listed == {list[k] : k \in 1 .. Len(list)}

(* The node of the k-th vault.                                             *)
NodeAt(k) == IF k = 1 THEN Root ELSE list[k]

(* What node n's vault pointer can be read as: a freed node holds anything *)
(* that was written there since.                                           *)
VaultOf(n) ==
    IF n = Root THEN {IF list = << >> THEN None ELSE list[1]}
    ELSE IF n \in freed THEN (1 .. made) \cup {None} ELSE {n}

(* The vault that call of thread t works on, as it finds it now.           *)
Target(t) == IF call[t].op \in OnFile THEN {fd[t]} ELSE VaultOf(node[t])

(* Wrong: the search stops at the last node.                               *)
WithIdOrLast(id) ==
    {k \in 1 .. Len(list) : vault[list[k]].id = id \/ k = Len(list)}

WithId(id) == {k \in 1 .. Len(list) : vault[list[k]].id = id}

(* Wrong: the search stops in front of the last node.                      *)
WithCdevButLast(v) == {k \in 1 .. Len(list) - 1 : list[k] = v}

WithCdev(v) == {k \in 1 .. Len(list) : list[k] = v}

First(positions) == CHOOSE k \in positions : \A j \in positions : k <= j

Without(k) == SubSeq(list, 1, k - 1) \o SubSeq(list, k + 1, Len(list))

(* Wrong: the static node is freed, too.                                   *)
FreedRoot(k) == {NodeAt(k)}

(* Removing the first vault moves the second one into Root.                *)
FreedNode(k) ==
    IF k > 1 THEN {list[k]} ELSE IF Len(list) > 1 THEN {list[2]} ELSE {}

-----------------------------------------------------------------------------
(* System calls begin and end.                                             *)

Goto(t, there) == pc' = [pc EXCEPT ![t] = there]

Begin(t, there, op, id, cdev) ==
    /\ pc[t] = "idle"
    /\ Goto(t, there)
    /\ call' = [call EXCEPT ![t] = [op |-> op, id |-> id, cdev |-> cdev]]
    /\ UNCHANGED <<shared, node, at, fd>>

(* Back to user space, with or without an error; f is the open file.       *)
Return(t, f) ==
    /\ Goto(t, "idle")
    /\ call' = [call EXCEPT ![t] = NoCall]
    /\ node' = [node EXCEPT ![t] = None]
    /\ at' = [at EXCEPT ![t] = None]
    /\ fd' = [fd EXCEPT ![t] = f]

(* An ioctl on the control device, for the vault that was selected.  USE   *)
(* is any request but IOCTL_CREATE and IOCTL_REMOVE.                       *)
CallControl(t) ==
    \E op \in Control, id \in Ids : Begin(t, "get", op, id, None)

(* The kernel knows the number, so it finds its character device.          *)
CallOpen(t) ==
    \E id \in Ids :
        /\ fd[t] = None
        /\ device[id] # None
        /\ Begin(t, "get", "OPEN", id, device[id])

(* IO is llseek, read, write or an ioctl.                                  *)
CallOnFile(t) ==
    \E op \in OnFile : fd[t] # None /\ Begin(t, "lock", op, None, None)

Start(t) == CallControl(t) \/ CallOpen(t) \/ CallOnFile(t)

-----------------------------------------------------------------------------
(* Finding the vault and taking its lock                                   *)

(* get_vault and get_vault_by_cdev take vault_lock and give it back.       *)
Get(t) ==
    LET found == IF call[t].op = "OPEN" THEN WithCdev(call[t].cdev)
                                        ELSE WithId(call[t].id)
    IN  /\ pc[t] = "get"
        /\ vault_lock > 0
        /\ UNCHANGED shared
        /\ \/ /\ found # {}
              /\ node' = [node EXCEPT ![t] = NodeAt(First(found))]
              /\ Goto(t, "lock")
              /\ UNCHANGED <<call, at, fd>>
           \/ /\ found = {} /\ call[t].op = "CREATE"
              /\ Goto(t, "create")
              /\ UNCHANGED <<call, node, at, fd>>
           \/ /\ found = {} /\ call[t].op = "OPEN"
              /\ Goto(t, "oops")
              /\ UNCHANGED <<call, node, at, fd>>
           \/ /\ found = {} /\ call[t].op \in {"REMOVE", "USE"}
              /\ Return(t, fd[t])

Denied(t, v) == vault[v].owner # User[t]

Down(v) == vault' = [vault EXCEPT ![v].lock = @ - 1]
Up(v)   == vault' = [vault EXCEPT ![v].lock = @ + 1]

(* Wrong: takes the lock without waiting for it.                           *)
LockTaken(t) ==
    /\ pc[t] = "lock"
    /\ \E v \in Target(t) \ {None} :
         /\ at' = [at EXCEPT ![t] = v]
         /\ Goto(t, "work")
    /\ UNCHANGED <<shared, call, node, fd>>

(* down_interruptible(&vault->lock), after the check of secvault_open.     *)
Lock(t) ==
    /\ pc[t] = "lock"
    /\ UNCHANGED <<vault_lock, list, freed, made, device>>
    /\ \E v \in Target(t) :
         \/ /\ v = None
            /\ Goto(t, "oops")
            /\ UNCHANGED <<vault, call, node, at, fd>>
         \/ /\ v # None /\ call[t].op = "OPEN" /\ Denied(t, v)
            /\ Return(t, fd[t])
            /\ UNCHANGED vault
         \/ /\ v # None /\ (call[t].op = "OPEN" => ~ Denied(t, v))
            /\ at' = [at EXCEPT ![t] = v]
            /\ IF vault[v].lock > 0 THEN Goto(t, "work") /\ Down(v)
                                    ELSE Goto(t, "asleep") /\ UNCHANGED vault
            /\ UNCHANGED <<call, node, fd>>

Wake(t) ==
    /\ pc[t] = "asleep"
    /\ vault[at[t]].lock > 0
    /\ Down(at[t])
    /\ Goto(t, "work")
    /\ UNCHANGED <<vault_lock, list, freed, made, device, call, node, at, fd>>

(* up(&node->vault->lock) follows the pointers once more.                  *)
Unlock(t) ==
    /\ \/ pc[t] = "work" /\ call[t].op \in {"USE", "CREATE", "IO"}
       \/ pc[t] = "unlock"
    /\ UNCHANGED <<vault_lock, list, freed, made, device>>
    /\ \E v \in Target(t) :
         \/ /\ v = None
            /\ Goto(t, "oops")
            /\ UNCHANGED <<vault, call, node, at, fd>>
         \/ /\ v # None
            /\ Up(v)
            /\ Return(t, fd[t])

-----------------------------------------------------------------------------
(* create_new_vault                                                        *)

(* Wrong: walks the list without taking vault_lock.                        *)
CreateUnlocked(t) ==
    /\ pc[t] = "create"
    /\ node' = [node EXCEPT ![t] = IF list = << >> THEN Root
                                                  ELSE NodeAt(Len(list))]
    /\ Goto(t, "link")
    /\ UNCHANGED <<shared, call, at, fd>>

(* Takes vault_lock and walks to the last node.                            *)
CreateEnter(t) ==
    /\ pc[t] = "create"
    /\ vault_lock > 0
    /\ vault_lock' = vault_lock - 1
    /\ node' = [node EXCEPT ![t] = IF list = << >> THEN Root
                                                  ELSE NodeAt(Len(list))]
    /\ Goto(t, "link")
    /\ UNCHANGED <<list, freed, made, vault, device, call, at, fd>>

(* Where node n is in the list.                                            *)
Position(n) ==
    {k \in 1 .. Len(list) : IF n = Root THEN k = 1 ELSE k > 1 /\ list[k] = n}

(* The new vault v becomes the first one or follows node n.                *)
Appended(n, v) ==
    IF list = << >> THEN <<v>>
    ELSE IF Position(n) = {} THEN list
    ELSE Append(SubSeq(list, 1, First(Position(n))), v)

(* cdev_alloc, device_create or cdev_add fails, as device_create does for  *)
(* a number that has a device: what was made until then is deleted.        *)
CreateFails(t) ==
    /\ pc[t] = "link"
    /\ vault_lock' = vault_lock + 1
    /\ Return(t, fd[t])
    /\ UNCHANGED <<list, freed, made, vault, device>>

(* Wrong: the result of create_secvault_device is not looked at.           *)
CreateAnyway(t) ==
    LET v == made + 1
        new == [id |-> call[t].id, owner |-> User[t], lock |-> 1, usage |-> 0]
    IN  /\ pc[t] = "link"
        /\ made < MaxVaults
        /\ made' = v
        /\ vault' = Append(vault, new)
        /\ device' = [device EXCEPT ![call[t].id] = v]
        /\ list' = Appended(node[t], v)
        /\ freed' = IF list = << >> THEN freed \cup {v} ELSE freed
        /\ vault_lock' = vault_lock + 1
        /\ Return(t, fd[t])

(* The first vault is copied to Root and its node freed at once.           *)
CreateFinish(t) ==
    LET v == made + 1
        new == [id |-> call[t].id, owner |-> User[t], lock |-> 1, usage |-> 0]
    IN  /\ pc[t] = "link"
        /\ device[call[t].id] = None
        /\ made < MaxVaults
        /\ made' = v
        /\ vault' = Append(vault, new)
        /\ device' = [device EXCEPT ![call[t].id] = v]
        /\ list' = Appended(node[t], v)
        /\ freed' = IF list = << >> THEN freed \cup {v} ELSE freed
        /\ vault_lock' = vault_lock + 1
        /\ Return(t, fd[t])

-----------------------------------------------------------------------------
(* ioctl_delete_vault, delete_node and free_node_data, with the lock of    *)
(* the vault that get_vault found                                          *)

(* validate_access.                                                        *)
RemoveCheck(t) ==
    /\ pc[t] = "work" /\ call[t].op = "REMOVE"
    /\ \E v \in Target(t) :
         Goto(t, IF v = None THEN "oops"
                 ELSE IF Denied(t, v) THEN "unlock" ELSE "delete")
    /\ UNCHANGED <<shared, call, node, at, fd>>

(* Wrong: the devices are deleted before usage is tested.                  *)
FreeUnchecked(t, k) ==
    /\ device' = [device EXCEPT ![vault[list[k]].id] = None]
    /\ IF vault[list[k]].usage > 0
         THEN Goto(t, "unlock") /\ UNCHANGED <<vault_lock, node>>
         ELSE /\ Goto(t, "unlink")
              /\ vault_lock' = vault_lock - 1
              /\ node' = [node EXCEPT ![t] = NodeAt(k)]

(* Wrong: does not look at usage.                                          *)
FreeForced(t, k) ==
    /\ device' = [device EXCEPT ![vault[list[k]].id] = None]
    /\ Goto(t, "unlink")
    /\ vault_lock' = vault_lock - 1
    /\ node' = [node EXCEPT ![t] = NodeAt(k)]

(* A vault that is in use stays, another one loses its devices.            *)
Free(t, k) ==
    IF vault[list[k]].usage > 0
      THEN Goto(t, "unlock") /\ UNCHANGED <<vault_lock, device, node>>
      ELSE /\ Goto(t, "unlink")
           /\ vault_lock' = vault_lock - 1
           /\ device' = [device EXCEPT ![vault[list[k]].id] = None]
           /\ node' = [node EXCEPT ![t] = NodeAt(k)]

(* delete_node searches the list again, and does not ask who owns the      *)
(* vault that it finds.                                                    *)
RemoveEnter(t) ==
    /\ pc[t] = "delete"
    /\ vault_lock > 0
    /\ IF WithId(call[t].id) = {}
         THEN Goto(t, "unlock") /\ UNCHANGED <<vault_lock, device, node>>
         ELSE Free(t, First(WithId(call[t].id)))
    /\ UNCHANGED <<list, freed, made, vault, call, at, fd>>

(* Wrong: keeps vault_lock.                                                *)
RemoveKeepsLock(t) ==
    /\ pc[t] = "unlink"
    /\ \E k \in Position(node[t]) :
         list' = Without(k) /\ freed' = freed \cup FreedNode(k)
    /\ Return(t, fd[t])
    /\ UNCHANGED <<vault_lock, made, vault, device>>

(* Nobody releases the lock of the vault; its memory stays allocated.      *)
RemoveFinish(t) ==
    /\ pc[t] = "unlink"
    /\ IF Position(node[t]) = {}
         THEN freed' = freed \cup {node[t]} /\ UNCHANGED list
         ELSE \E k \in Position(node[t]) :
                list' = Without(k) /\ freed' = freed \cup FreedNode(k)
    /\ vault_lock' = vault_lock + 1
    /\ Return(t, fd[t])
    /\ UNCHANGED <<made, vault, device>>

-----------------------------------------------------------------------------
(* secvault_open and secvault_release                                      *)

Count(t) ==
    /\ pc[t] = "work" /\ call[t].op = "OPEN"
    /\ UNCHANGED <<vault_lock, list, freed, made, device, call, node, fd>>
    /\ \E v \in Target(t) :
         \/ v = None /\ Goto(t, "oops") /\ UNCHANGED <<vault, at>>
         \/ /\ v # None
            /\ vault' = [vault EXCEPT ![v].usage = (@ + 1) % UsageLimit,
                                      ![v].lock = @ + 1]
            /\ at' = [at EXCEPT ![t] = v]
            /\ Goto(t, "alloc")

(* The pointer is followed again after kmalloc.  A file without a vault    *)
(* would fail at its first use.                                            *)
OpenFinish(t) ==
    /\ pc[t] = "alloc"
    /\ UNCHANGED shared
    /\ \E v \in Target(t) :
         \/ v = None /\ Goto(t, "oops") /\ UNCHANGED <<call, node, at, fd>>
         \/ v # None /\ Return(t, v)

(* Wrong: a closed file stays counted.                                     *)
CloseUncounted(t) ==
    /\ pc[t] = "work" /\ call[t].op = "CLOSE"
    /\ Up(fd[t])
    /\ Return(t, None)
    /\ UNCHANGED <<vault_lock, list, freed, made, device>>

Close(t) ==
    /\ pc[t] = "work" /\ call[t].op = "CLOSE"
    /\ vault' = [vault EXCEPT ![fd[t]].usage = (@ - 1) % UsageLimit,
                              ![fd[t]].lock = @ + 1]
    /\ Return(t, None)
    /\ UNCHANGED <<vault_lock, list, freed, made, device>>

Run(t) ==
    \/ Get(t) \/ Lock(t) \/ Wake(t) \/ Unlock(t)
    \/ CreateEnter(t) \/ CreateFails(t) \/ CreateFinish(t)
    \/ RemoveCheck(t) \/ RemoveEnter(t) \/ RemoveFinish(t)
    \/ Count(t) \/ OpenFinish(t) \/ Close(t)

-----------------------------------------------------------------------------
(* Failures: kmalloc in secvault_open, and a signal for a thread that      *)
(* sleeps in down_interruptible.  Every caller of down_interruptible then  *)
(* releases the semaphore that it did not get.                             *)

OpenNoMemory(t) ==
    /\ pc[t] = "alloc"
    /\ Return(t, None)
    /\ UNCHANGED shared

ListInterrupted(t) ==
    /\ vault_lock = 0
    /\ vault_lock' = vault_lock + 1
    /\ \/ pc[t] \in {"get", "create"} /\ Return(t, fd[t])
       \/ /\ pc[t] = "delete"
          /\ Goto(t, "unlock")
          /\ UNCHANGED <<call, node, at, fd>>
    /\ UNCHANGED <<list, freed, made, vault, device>>

(* The file is gone after a close that was interrupted, too.               *)
VaultInterrupted(t) ==
    /\ pc[t] = "asleep"
    /\ UNCHANGED <<vault_lock, list, freed, made, device>>
    /\ \E v \in Target(t) :
         \/ /\ v = None
            /\ Goto(t, "oops")
            /\ UNCHANGED <<vault, call, node, at, fd>>
         \/ /\ v # None
            /\ Up(v)
            /\ Return(t, IF call[t].op = "CLOSE" THEN None ELSE fd[t])

Fail(t) == OpenNoMemory(t) \/ ListInterrupted(t) \/ VaultInterrupted(t)

-----------------------------------------------------------------------------
(* Specifications                                                          *)

(* All threads have died of a NULL pointer or sleep for ever.              *)
Stuck == /\ \A t \in Threads : pc[t] \in {"asleep", "oops"}
         /\ UNCHANGED vars

CalmNext == (\E t \in Threads : Start(t) \/ Run(t)) \/ Stuck

(* A remove runs while no other system call does.                          *)
RemovesAlone ==
    \A t \in Threads :
        call[t].op = "REMOVE" => \A u \in Threads \ {t} : pc[u] = "idle"

QuietNext == (\E t \in Threads : Start(t) \/ Run(t)) /\ RemovesAlone'

(* A semaphore of the kernel wakes its waiters in the order they came, and *)
(* the scheduler runs every thread.  No thread need make a system call.    *)
Fairness == \A t \in Threads : SF_vars(Run(t))

(* No failures, and removes alone; no failures; everything.                *)
QuietSpec == Init /\ [][QuietNext]_vars /\ Fairness

CalmSpec == Init /\ [][CalmNext]_vars

Spec == Init /\ [][CalmNext \/ \E t \in Threads : Fail(t)]_vars

-----------------------------------------------------------------------------
(* Properties of the list, whatever removes run                            *)

InList(t) == pc[t] \in {"link", "unlink"}

(* vault_lock is a mutex: at most one thread changes the list, and while   *)
(* one does nobody searches it.  Each function releases it once on every   *)
(* path.                                                                   *)
ListExclusive ==
    vault_lock + Cardinality({t \in Threads : InList(t)}) = 1

(* No two vaults of the list have the same number, although two threads    *)
(* may both find it free and create it one after the other.                *)
UniqueIds ==
    \A j, k \in 1 .. Len(list) :
        vault[list[j]].id = vault[list[k]].id => j = k

(* A number has a device exactly if a vault in the list has that number,   *)
(* between two changes of the list: a create or remove that failed leaves  *)
(* nothing behind, and takes nothing away.                                 *)
DevicesMatchList ==
    (\A t \in Threads : pc[t] # "unlink") =>
        \A id \in Ids :
            device[id] = IF WithId(id) = {} THEN None
                                            ELSE list[First(WithId(id))]

(* No thread follows a NULL or freed pointer as long as every vault that   *)
(* was ever created is in the list, however calls race: it takes a remove. *)
(* An open that found no vault has lost its own one.                       *)
OopsFromRemove ==
    \A t \in Threads :
        pc[t] = "oops" =>
            /\ Len(list) < made
            /\ node[t] = None => call[t].cdev \notin Listed

(* secvault_fops.c:402: if get_vault_by_cdev finds "No such vault", the    *)
(* open fails with an error; it does not follow a NULL pointer.            *)
OpenRefused ==
    \A t \in Threads : call[t].op = "OPEN" => pc[t] # "oops"

(* Inductive strengthenings, for the proofs.  Only a create links.         *)

CallInv ==
    \A t \in Threads : pc[t] \in {"create", "link"} => call[t].op = "CREATE"

LockInv ==
    \/ vault_lock = 1 /\ \A t \in Threads : ~ InList(t)
    \/ /\ vault_lock = 0
       /\ \E t \in Threads : InList(t) /\ \A u \in Threads \ {t} : ~ InList(u)

(* The vaults in the list, and where a thread that changes it stands.      *)
ListInv ==
    /\ list \in Seq(1 .. made)
    /\ UniqueIds
    /\ \A t \in Threads : pc[t] = "link" =>
         node[t] = IF list = << >> THEN Root ELSE NodeAt(Len(list))
    /\ \A t \in Threads : pc[t] = "unlink" =>
         \E k \in 1 .. Len(list) : node[t] = NodeAt(k)

(* A vault of the list has its device, but for the one that a thread in    *)
(* delete_node is about to unlink; a number without a vault has none.      *)
Unlinking(k) == \E t \in Threads : pc[t] = "unlink" /\ node[t] = NodeAt(k)

DeviceInv ==
    /\ \A k \in 1 .. Len(list) :
         device[vault[list[k]].id] = IF Unlinking(k) THEN None ELSE list[k]
    /\ \A id \in Ids :
         (\A k \in 1 .. Len(list) : vault[list[k]].id # id) =>
             device[id] = None

-----------------------------------------------------------------------------
(* Properties that need removes to run alone                               *)

Holding(v) ==
    {t \in Threads : at[t] = v /\ pc[t] \in {"work", "delete", "unlock"}}

(* The lock of a listed vault is a mutex: only one thread works on it.     *)
VaultExclusive ==
    \A v \in Listed :
        (\A t \in Threads : ~ InList(t)) =>
            vault[v].lock + Cardinality(Holding(v)) = 1

(* usage counts the files that are open on a vault, and those that are     *)
(* about to be.                                                            *)
Users(v) == {t \in Threads : fd[t] = v \/ (pc[t] = "alloc" /\ at[t] = v)}

UsageCounts == \A v \in 1 .. made : vault[v].usage = Cardinality(Users(v))

(* A vault with an open file is in the list: it is not deleted under it.   *)
OpenStaysListed == \A t \in Threads : fd[t] # None => fd[t] \in Listed

(* A system call works on the vault that it was made for.                  *)
RightVault ==
    \A t \in Threads :
        pc[t] \in {"work", "delete"} =>
            /\ call[t].op \in Control =>
                 at[t] \in Listed /\ vault[at[t]].id = call[t].id
            /\ call[t].op = "OPEN" => at[t] = call[t].cdev

(* Inductive strengthenings, for the proofs.  What a system call knows:    *)
(* which operations get where, and that at is set while a lock is wanted.  *)
Locking == {"asleep", "work", "delete", "unlock", "unlink", "alloc"}

Place(t) ==
    /\ pc[t] = "idle" <=> call[t].op = "NONE"
    /\ pc[t] \in {"delete", "unlock", "unlink"} => call[t].op = "REMOVE"
    /\ pc[t] = "alloc" => call[t].op = "OPEN"
    /\ call[t].op \in OnFile =>
          pc[t] \in {"lock", "asleep", "work"} /\ fd[t] # None
    /\ call[t].op = "OPEN" => fd[t] = None /\ call[t].cdev \in Listed
    /\ pc[t] \notin Locking => at[t] = None

(* The vault that get_vault found stays in its place, with its lock.       *)
AimedAt(t, k) ==
    /\ node[t] = NodeAt(k)
    /\ pc[t] # "lock" => at[t] = list[k]
    /\ IF call[t].op = "OPEN" THEN list[k] = call[t].cdev
                              ELSE vault[list[k]].id = call[t].id

Aim(t) ==
    pc[t] \in {"lock"} \cup Locking =>
        IF call[t].op \in OnFile THEN pc[t] # "lock" => at[t] = fd[t]
        ELSE \E k \in 1 .. Len(list) : AimedAt(t, k)

AimInv == \A t \in Threads : Place(t) /\ Aim(t)

(* No node of the list is freed; the first vault is in Root.               *)
FreedInv ==
    /\ freed \subseteq 1 .. made
    /\ \A k \in 2 .. Len(list) : list[k] \notin freed

Holds(t, v) ==
    at[t] = v /\ pc[t] \in {"work", "delete", "unlock", "unlink"}

HeldOnce(v) ==
    \/ vault[v].lock = 1 /\ \A t \in Threads : ~ Holds(t, v)
    \/ /\ vault[v].lock = 0
       /\ \E t \in Threads :
             Holds(t, v) /\ \A u \in Threads \ {t} : ~ Holds(u, v)

HoldInv == \A v \in Listed : HeldOnce(v)

(* delete_node unlinks a vault without files.                              *)
UnlinkInv ==
    \A t \in Threads : pc[t] = "unlink" => vault[at[t]].usage = 0

(* No thread follows a NULL pointer.                                       *)
NoOops == \A t \in Threads : pc[t] # "oops"

(* For OopsFromRemove.  A call that wants or has a lock has its vault from *)
(* the open file or from a node, which is still in its place, and not      *)
(* freed, as long as vault after vault was linked and none removed.        *)
Engaged(t) == pc[t] \in {"lock"} \cup Locking

Whole == Len(list) = made

Settled(t) ==
    IF call[t].op \in OnFile THEN fd[t] # None
    ELSE /\ node[t] # None
         /\ Whole => \E k \in 1 .. Len(list) : node[t] = NodeAt(k)

OopsInv ==
    /\ Len(list) <= made
    /\ Whole => FreedInv /\ \A k \in 1 .. Len(list) : list[k] = k
    /\ \A t \in Threads :
         /\ Engaged(t) => Settled(t)
         /\ pc[t] = "get" => call[t].op \notin OnFile
         /\ call[t].op = "OPEN" => call[t].cdev \in 1 .. made
    /\ OopsFromRemove

(* Every system call returns.                                              *)
CallEnds == \A t \in Threads : pc[t] # "idle" ~> pc[t] = "idle"

(* The open files of every number, as the vaults of the list count them.   *)
Opened == [id \in Ids |-> IF WithId(id) = {} THEN None
                          ELSE vault[list[First(WithId(id))]].usage]

Store == INSTANCE VaultStore WITH Absent <- None, open <- Opened

(* The list of vaults implements the store.                                *)
ImplementsStore == Store!Spec
=============================================================================
