-------------------------------- MODULE VaultFile ------------------------------
(***************************************************************************)
(* What is in the vaults (Bonus Beispiel): the ioctls on one vault, the    *)
(* reading, writing and seeking of an open file, and the tool svctl, which *)
(* issues several ioctls per run. Each system call is one step, which is   *)
(* what SecVault shows of calls that do not race with a remove.            *)
(*                                                                         *)
(* A byte is a bit. The target of a control file is a uint8_t, scaled to   *)
(* TargetLimit values; the position in a file is an unsigned int, scaled   *)
(* to PosLimit values. tool.pc is idle, exists, create, size, key, clean,  *)
(* remove (before that ioctl) or success.                                  *)
(***************************************************************************)
EXTENDS Integers, Sequences

CONSTANTS
    Users, Nobody,
    TargetLimit,    \* 256 in the code
    NumVaults,      \* NUM_VALUTS, 3 in the code: the largest target of svctl
    Targets,        \* what svctl is given as target (a bound)
    KeySize,        \* KEY_SIZE, 10 in the code
    MaxSize,        \* MAX_SIZE of svctl, 1048577 in the code
    MaxAlloc,       \* the most that kcalloc grants, some MB in the kernel
    PosLimit        \* 2^32 in the code

ASSUME FileAssumption ==
    /\ NumVaults \in 0 .. TargetLimit - 1 /\ Targets \subseteq Int
    /\ TargetLimit \in Nat /\ KeySize \in Nat \ {0}
    /\ MaxSize \in Nat /\ MaxAlloc \in Nat
    /\ PosLimit \in Nat /\ PosLimit > MaxSize /\ PosLimit > MaxAlloc
    /\ Nobody \notin Users

Ids == 0 .. TargetLimit - 1
Byte == {0, 1}
Keys == [0 .. KeySize - 1 -> Byte]

VARIABLES
    loaded,     \* is the module loaded?
    vault,      \* the vaults of the list, by number
    file,       \* an open vault device, and its position
    tool        \* a run of svctl

vars == <<loaded, vault, file, tool>>

NoVault == [user |-> Nobody, data |-> << >>, keyLength |-> 0]

Vault == [user : Users \union {Nobody}, data : Seq(Byte), keyLength : {0, KeySize}]

Closed == [id |-> -1, user |-> Nobody, pos |-> 0]

Idle == [pc |-> "idle", cmd |-> "none", param |-> 0, target |-> 0,
         user |-> Nobody, alone |-> TRUE]

TypeOK ==
    /\ loaded \in BOOLEAN
    /\ vault \in [Ids -> Vault]
    /\ \A id \in Ids : Len(vault[id].data) <= MaxAlloc
    /\ file \in [id : Ids \union {-1}, user : Users \union {Nobody},
                 pos : 0 .. PosLimit - 1]
    /\ tool \in [pc : {"idle", "exists", "create", "size", "key", "clean",
                       "remove", "success"},
                 cmd : {"none", "c", "k", "e", "d"}, param : 0 .. MaxSize,
                 target : 0 .. NumVaults, user : Users \union {Nobody},
                 alone : BOOLEAN]

Init ==
    /\ loaded = FALSE
    /\ vault = [id \in Ids |-> NoVault]
    /\ file = Closed
    /\ tool = Idle

Exists(id) == vault[id] # NoVault

(* validate_access                                                         *)
Allowed(u, id) == Exists(id) /\ vault[id].user = u

Size(id) == Len(vault[id].data)

(* Nothing ever stores a key: the key of a vault stays as kzalloc made it. *)
Key == [j \in 0 .. KeySize - 1 |-> 0]

Xor(a, b) == (a + b) % 2

(* Position p of the source is p + 1 here.                                 *)
KeyAt(key, p) == key[(p - 1) % KeySize]

(* What a reader sees.                                                     *)
Decoded(id) ==
    [p \in DOMAIN vault[id].data |-> Xor(vault[id].data[p], KeyAt(Key, p))]

(***************************************************************************)
(* Loading and unloading the module                                        *)
(***************************************************************************)

(* A failure takes back what was made: no effect.                          *)
Load ==
    /\ ~loaded /\ loaded' = TRUE
    /\ UNCHANGED <<vault, file, tool>>

(* free_node_data is forced for every vault.                               *)
CleanedUp == [id \in Ids |-> NoVault]

(* owner = THIS_MODULE: not while a file is open, or svctl has the control *)
(* device open.                                                            *)
Unload ==
    /\ loaded /\ file = Closed /\ tool = Idle
    /\ loaded' = FALSE /\ vault' = CleanedUp
    /\ UNCHANGED <<file, tool>>

(***************************************************************************)
(* The ioctls on a vault; ok is whether the result is 0                    *)
(***************************************************************************)

(* keyLength is set before the key is copied and the memory allocated.     *)
ChangeKey(u, id, newKey, ok) ==
    IF ~Allowed(u, id)
    THEN ~ok /\ UNCHANGED vault
    ELSE vault' = [vault EXCEPT ![id] =
            [user |-> u, keyLength |-> KeySize,
             data |-> IF ok THEN [p \in DOMAIN vault[id].data |->
                                    Xor(Decoded(id)[p], KeyAt(newKey, p))]
                            ELSE vault[id].data]]

(* kcalloc and memcpy.                                                     *)
Resized(data, n) == [p \in 1 .. n |-> IF p \in DOMAIN data THEN data[p] ELSE 0]

(* Only 0 is refused here; what is too large, kcalloc refuses.             *)
ChangeSize(u, id, newSize, ok) ==
    \/ ~ok /\ UNCHANGED vault
    \/ /\ ok /\ Allowed(u, id) /\ newSize > 0 /\ newSize <= MaxAlloc
       /\ vault' = [vault EXCEPT ![id].data = Resized(vault[id].data, newSize)]

Clean(u, id, ok) ==
    /\ ok = (Allowed(u, id) /\ vault[id].keyLength > 0)
    /\ vault' = IF ok THEN [vault EXCEPT ![id].data =
                               [p \in DOMAIN vault[id].data |-> 0]]
                      ELSE vault

(* A control file that names no vault creates it; -ENOTTY if there is one. *)
Create(u, id, ok) ==
    \/ ~ok /\ UNCHANGED vault
    \/ /\ ok /\ ~Exists(id)
       /\ vault' = [vault EXCEPT ![id] = [NoVault EXCEPT !.user = u]]

(* The usage counter of the vault counts the open file.                    *)
Remove(u, id, ok) ==
    /\ ok = (Allowed(u, id) /\ file.id # id)
    /\ vault' = IF ok THEN [vault EXCEPT ![id] = NoVault] ELSE vault

(* An ioctl of somebody else touches the vault of a run of svctl.          *)
Meddled(id) ==
    tool' = [tool EXCEPT !.alone = @ /\ (tool.pc = "idle" \/ tool.target # id)]

(* The size is an unsigned int.                                            *)
VaultRequest(u, id) ==
    \E ok \in BOOLEAN :
       \/ \E key \in Keys : ChangeKey(u, id, key, ok)
       \/ \E n \in 0 .. PosLimit - 1 : ChangeSize(u, id, n, ok)
       \/ Clean(u, id, ok)

(* Any program with the control file; target is 0 until it selects one.    *)
ControlIoctl(u, id) ==
    /\ loaded
    /\ \/ VaultRequest(u, id)
       \/ \E ok \in BOOLEAN : Create(u, id, ok) \/ Remove(u, id, ok)
    /\ Meddled(id)
    /\ UNCHANGED <<loaded, file>>

(***************************************************************************)
(* The vault device                                                        *)
(***************************************************************************)

Opened == file # Closed

Open(u, id) ==
    /\ ~Opened /\ Allowed(u, id)
    /\ file' = [id |-> id, user |-> u, pos |-> 0]
    /\ UNCHANGED <<loaded, vault, tool>>

Release ==
    /\ Opened /\ file' = Closed
    /\ UNCHANGED <<loaded, vault, tool>>

VaultIoctl ==
    /\ Opened /\ VaultRequest(file.user, file.id)
    /\ Meddled(file.id)
    /\ UNCHANGED <<loaded, file>>

(* off is a signed 64 bit number; SEEK_END moves relative to pos.          *)
Llseek(off, mode) ==
    /\ Opened
    /\ CASE mode = "set" -> off \in 0 .. Size(file.id)
         [] mode = "cur" -> file.pos + off \in 0 .. Size(file.id)
         [] mode = "end" -> off <= 0 /\ Size(file.id) + off >= 0
    /\ file' = [file EXCEPT !.pos =
                   (IF mode = "set" THEN off ELSE @ + off) % PosLimit]
    /\ UNCHANGED <<loaded, vault, tool>>

(* Wrong: off by one.                                                      *)
InRangeOrEnd(pos) == pos <= Size(file.id)

(* vault->pos < vault->shared->size                                        *)
InRange(pos) == pos < Size(file.id)

(* Before each of the n bytes the loop looks at the position; it ends with *)
(* the count, there, or with a fault of the user's buffer.                 *)
Ready(n) ==
    /\ Opened /\ vault[file.id].keyLength # 0
    /\ n > 0 /\ \A k \in 0 .. n - 1 : InRange(file.pos + k)

Read(n) ==
    /\ Ready(n)
    /\ file' = [file EXCEPT !.pos = @ + n]
    /\ UNCHANGED <<loaded, vault, tool>>

(* A byte stored behind the end would make the data longer.                *)
Write(bytes) ==
    /\ Ready(Len(bytes))
    /\ LET old == vault[file.id].data
           stored == file.pos + 1 .. file.pos + Len(bytes)
       IN  vault' = [vault EXCEPT ![file.id].data =
              [p \in DOMAIN old \union stored |->
                  IF p \in stored
                  THEN Xor(bytes[p - file.pos], KeyAt(Key, p)) ELSE old[p]]]
    /\ file' = [file EXCEPT !.pos = @ + Len(bytes)]
    /\ Meddled(file.id)
    /\ UNCHANGED loaded

(***************************************************************************)
(* svctl                                                                   *)
(***************************************************************************)

(* IOCTL_SELECT_VAULT keeps the low byte of the target.                    *)
Selected == tool.target % TargetLimit

(* Wrong: the device is trusted to refuse a target that is too large.      *)
AnyTarget(target) == target \in Targets

(* target < 0 || target > NUM_VALUTS                                       *)
TargetInLimits(target) == target \in 0 .. NumVaults

(* A run up to the switch over the command. Nothing of it is shared: what  *)
(* exits before (no device, wrong arguments, size or target) has no effect.*)
Start(u, cmd, param, target) ==
    /\ loaded /\ tool.pc = "idle"
    /\ TargetInLimits(target)
    /\ IF cmd = "c" THEN param \in 0 .. MaxSize ELSE param = 0
    /\ tool' = [pc |-> CASE cmd = "c" -> "exists"
                         [] cmd = "k" -> "key"
                         [] cmd = "e" -> "clean"
                         [] cmd = "d" -> "remove",
                cmd |-> cmd, param |-> param, target |-> target,
                user |-> u, alone |-> TRUE]
    /\ UNCHANGED <<loaded, vault, file>>

CheckExists ==
    /\ tool.pc = "exists"
    /\ tool' = [tool EXCEPT !.pc = IF Exists(Selected) THEN "size" ELSE "create"]
    /\ UNCHANGED <<loaded, vault, file>>

(* An ioctl that fails ends the run.                                       *)
Continue(ok, pc) ==
    /\ tool' = IF ok THEN [tool EXCEPT !.pc = pc] ELSE Idle
    /\ UNCHANGED <<loaded, file>>

CreateVault ==
    /\ tool.pc = "create"
    /\ \E ok \in BOOLEAN :
          Create(tool.user, Selected, ok) /\ Continue(ok, "size")

(* Wrong: the case of the switch ends with a break.                        *)
SetSizeOnly ==
    /\ tool.pc = "size"
    /\ \E ok \in BOOLEAN :
          /\ ChangeSize(tool.user, Selected, tool.param, ok)
          /\ Continue(ok, "success")

(* The case falls through to the next one, which asks for a key.           *)
SetSize ==
    /\ tool.pc = "size"
    /\ \E ok \in BOOLEAN :
          /\ ChangeSize(tool.user, Selected, tool.param, ok)
          /\ Continue(ok, "key")

EnterKey ==
    /\ tool.pc = "key"
    /\ \E ok \in BOOLEAN, key \in Keys :
          ChangeKey(tool.user, Selected, key, ok) /\ Continue(ok, "success")

CleanVault ==
    /\ tool.pc = "clean"
    /\ \E ok \in BOOLEAN :
          Clean(tool.user, Selected, ok) /\ Continue(ok, "success")

RemoveVault ==
    /\ tool.pc = "remove"
    /\ \E ok \in BOOLEAN :
          Remove(tool.user, Selected, ok) /\ Continue(ok, "success")

(* A signal kills svctl between two ioctls or at its prompt, or interrupts *)
(* an ioctl before it has done anything.                                   *)
Interrupted ==
    /\ tool.pc \notin {"idle", "success"}
    /\ tool' = Idle
    /\ UNCHANGED <<loaded, vault, file>>

NextRun ==
    /\ tool.pc = "success"
    /\ tool' = Idle
    /\ UNCHANGED <<loaded, vault, file>>

Svctl ==
    \/ \E u \in Users, cmd \in {"c", "k", "e", "d"},
          param \in -1 .. MaxSize + 1, target \in Targets :
          Start(u, cmd, param, target)
    \/ CheckExists \/ CreateVault \/ SetSize \/ EnterKey
    \/ CleanVault \/ RemoveVault \/ Interrupted \/ NextRun

Modes == {"set", "cur", "end"}

Next ==
    \/ Load \/ Unload
    \/ \E u \in Users, id \in Ids : ControlIoctl(u, id)
    \/ \E u \in Users, id \in Ids : Open(u, id)
    \/ Release \/ VaultIoctl
    \/ \E off \in -MaxAlloc - 1 .. MaxAlloc + 1, mode \in Modes : Llseek(off, mode)
    \/ \E n \in 1 .. MaxAlloc : Read(n)
    \/ \E bytes \in UNION {[1 .. n -> Byte] : n \in 1 .. MaxAlloc} : Write(bytes)
    \/ Svctl

Spec == Init /\ [][Next]_vars

(***************************************************************************)
(* Properties                                                              *)
(***************************************************************************)

Owner == [id \in Ids |-> vault[id].user]
Text == [id \in Ids |-> Decoded(id)]

Contents == INSTANCE VaultContents
                WITH owner <- Owner, text <- Text, MaxSize <- MaxAlloc

(* What readers see of the vaults behaves like the texts of VaultContents, *)
(* through every mixture of seeks, partial writes, changes of size and     *)
(* key, removals and creations by several programs.                        *)
ImplementsContents == Contents!Spec

(* A run of svctl touches no vault but the one it was started for, which   *)
(* the truncated target is not always. It, an open file and the ioctls of  *)
(* any other program change one vault at most, and none of another user.   *)
OnlyMeant ==
    [][\A id \in Ids : vault'[id] # vault[id] =>
          /\ tool'.pc # tool.pc => /\ id = tool.target
                                   /\ vault[id].user \in {tool.user, Nobody}
          /\ file'.pos # file.pos => id = file.id /\ vault[id].user = file.user
          /\ VaultIoctl => id = file.id /\ vault[id].user = file.user
          /\ \A u \in Users, asked \in Ids : ControlIoctl(u, asked) =>
                id = asked /\ vault[id].user \in {u, Nobody}
      ]_vars

(* A run of svctl that reports success, and whose vault nobody else        *)
(* touched meanwhile, has done the whole of its command.                   *)
SvctlDone ==
    tool.pc = "success" /\ tool.alone =>
        LET v == vault[tool.target]
        IN  /\ tool.cmd \in {"c", "k"} =>
                  v.user = tool.user /\ v.keyLength = KeySize
            /\ tool.cmd = "c" => Len(v.data) = tool.param /\ tool.param > 0
            /\ tool.cmd = "e" => \A p \in DOMAIN v.data : v.data[p] = 0
            /\ tool.cmd = "d" => v = NoVault

(* Inductive strengthenings, for the proofs. An open file keeps its vault, *)
(* and what a run of svctl has done to a vault that nobody else touches    *)
(* lasts until it ends.                                                    *)
FileInv ==
    file # Closed => /\ file.user \in Users /\ file.id \in Ids
                     /\ Allowed(file.user, file.id)

RunInv ==
    /\ tool.pc # "idle" => tool.user \in Users
    /\ tool.pc \in {"exists", "create", "size"} => tool.cmd = "c"
    /\ tool.pc = "key" => tool.cmd \in {"c", "k"}
    /\ tool.pc = "clean" => tool.cmd = "e"
    /\ tool.pc = "remove" => tool.cmd = "d"
    /\ tool.pc = "key" /\ tool.cmd = "c" /\ tool.alone =>
          /\ vault[tool.target].user = tool.user
          /\ Len(vault[tool.target].data) = tool.param /\ tool.param > 0
=============================================================================
