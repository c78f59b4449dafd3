----------------------------- MODULE VaultFileProofs ---------------------------
(***************************************************************************)
(* Theorems about the contents of the vaults and about svctl, for any      *)
(* number of users and vaults, any limit of kcalloc and any key size.       *)
(***************************************************************************)
EXTENDS VaultFile, TLAPS

-----------------------------------------------------------------------------
(* Bytes, keys and data.                                                   *)

LEMMA XorIs ==
    ASSUME NEW a \in Byte, NEW b \in Byte
    PROVE  Xor(a, b) \in Byte /\ Xor(a, 0) = a
  BY DEF Xor, Byte

LEMMA KeyIs ==
    ASSUME NEW key \in Keys, NEW p \in Nat \ {0}
    PROVE  /\ KeyAt(key, p) \in Byte /\ KeyAt(Key, p) = 0
           /\ (p - 1) % KeySize \in 0 .. KeySize - 1
<1>1. ASSUME NEW n \in Nat \ {0} PROVE (p - 1) % n \in 0 .. n - 1
  OBVIOUS
<1>2. \E i \in 0 .. KeySize - 1 : i = (p - 1) % KeySize
  BY <1>1, FileAssumption
<1>3. QED
  BY <1>2, Zenon DEF KeyAt, Keys, Key

LEMMA KeysAre == Key \in Keys
  BY DEF Key, Keys, Byte

LEMMA FunIsSeq ==
    ASSUME NEW n \in Nat, NEW f \in [1 .. n -> Byte]
    PROVE  f \in Seq(Byte) /\ Len(f) = n /\ DOMAIN f = 1 .. n
  OBVIOUS

LEMMA DataIs ==
    ASSUME TypeOK, NEW id \in Ids
    PROVE  /\ vault[id] \in Vault /\ vault[id].data \in Seq(Byte)
           /\ DOMAIN vault[id].data = 1 .. Len(vault[id].data)
           /\ Size(id) = Len(vault[id].data) /\ Size(id) \in 0 .. MaxAlloc
           /\ vault[id].data \in [1 .. Size(id) -> Byte]
<1>1. vault[id] \in Vault /\ Len(vault[id].data) <= MaxAlloc
  BY DEF TypeOK
<1>2. vault[id].data \in Seq(Byte)
  BY <1>1 DEF Vault
<1>3. /\ DOMAIN vault[id].data = 1 .. Len(vault[id].data)
      /\ Len(vault[id].data) \in Nat
      /\ vault[id].data \in [1 .. Len(vault[id].data) -> Byte]
  BY <1>2
<1>4. QED
  BY <1>1, <1>2, <1>3, FileAssumption DEF Size

(* As no key is ever stored, a reader sees the bytes as they are.          *)
LEMMA DecodedIs ==
    ASSUME TypeOK, NEW id \in Ids
    PROVE  Decoded(id) = vault[id].data
<1> DEFINE d == vault[id].data
<1>1. d \in [1 .. Size(id) -> Byte] /\ Size(id) \in Nat
  BY DataIs, FileAssumption
<1>2. ASSUME NEW p \in 1 .. Size(id) PROVE Xor(d[p], KeyAt(Key, p)) = d[p]
  <2>1. d[p] \in Byte /\ p \in Nat \ {0}
    BY <1>1
  <2>2. KeyAt(Key, p) = 0
    BY <2>1, KeysAre, KeyIs
  <2>3. QED
    BY <2>1, <2>2, XorIs
<1>3. DOMAIN d = 1 .. Size(id) /\ d = [p \in 1 .. Size(id) |-> d[p]]
  BY <1>1
<1>4. Decoded(id) = [p \in 1 .. Size(id) |-> Xor(d[p], KeyAt(Key, p))]
  BY <1>3 DEF Decoded
<1> HIDE DEF d
<1>5. [p \in 1 .. Size(id) |-> Xor(d[p], KeyAt(Key, p))]
        = [p \in 1 .. Size(id) |-> d[p]]
  BY <1>2
<1>6. QED
  BY <1>3, <1>4, <1>5 DEF d

Data == [id \in Ids |-> vault[id].data]

TextIsData == Text = Data

LEMMA TextIs == TypeOK => TextIsData
  BY DecodedIs DEF Text, Data, TextIsData

LEMMA TextIsNext == TypeOK' => TextIsData'
  BY TextIs, PTL

-----------------------------------------------------------------------------
(* One vault changes, to a vault of the type.                              *)

Puts(id, v) ==
    /\ v \in Vault /\ Len(v.data) <= MaxAlloc
    /\ vault' = [i \in Ids |-> IF i = id THEN v ELSE vault[i]]

LEMMA PutsKeeps ==
    ASSUME TypeOK, NEW id \in Ids, NEW v, Puts(id, v)
    PROVE  /\ vault' \in [Ids -> Vault]
           /\ \A i \in Ids : Len(vault'[i].data) <= MaxAlloc
           /\ \A i \in Ids : i # id => vault'[i] = vault[i]
           /\ vault'[id] = v
  BY DEF TypeOK, Puts

(* New data for a vault.                                                   *)
LEMMA DataPuts ==
    ASSUME TypeOK, NEW id \in Ids, NEW n \in 0 .. MaxAlloc,
           NEW d \in [1 .. n -> Byte],
           vault' = [vault EXCEPT ![id].data = d]
    PROVE  Puts(id, [vault[id] EXCEPT !.data = d])
<1>1. vault \in [Ids -> Vault] /\ n \in Nat /\ n <= MaxAlloc
  BY FileAssumption DEF TypeOK
<1>2. d \in Seq(Byte) /\ Len(d) = n
  BY <1>1, FunIsSeq
<1>3. [vault[id] EXCEPT !.data = d] \in Vault
      /\ [vault[id] EXCEPT !.data = d].data = d
  BY <1>1, <1>2 DEF Vault
<1>4. vault' = [i \in Ids |-> IF i = id THEN [vault[id] EXCEPT !.data = d]
                                       ELSE vault[i]]
  BY <1>1
<1>5. QED
  BY <1>1, <1>2, <1>3, <1>4 DEF Puts

(* A vault with the new key, or only the length of it.                     *)
Rekeyed(u, id, key, ok, v) ==
    /\ Puts(id, v)
    /\ v.user = u /\ v.keyLength = KeySize /\ Len(v.data) = Size(id)
    /\ v.data = IF ok THEN [p \in 1 .. Size(id) |->
                              Xor(vault[id].data[p], KeyAt(key, p))]
                      ELSE vault[id].data

LEMMA KeyPuts ==
    ASSUME TypeOK, NEW u \in Users, NEW id \in Ids, NEW key \in Keys,
           NEW ok \in BOOLEAN, ChangeKey(u, id, key, ok)
    PROVE  \/ ~ ok /\ vault' = vault
           \/ Allowed(u, id) /\ \E v : Rekeyed(u, id, key, ok, v)
<1>1. CASE ~ Allowed(u, id)
  BY <1>1 DEF ChangeKey
<1>2. CASE Allowed(u, id)
  <2> DEFINE n == Size(id)
             mixed == [p \in 1 .. n |-> Xor(vault[id].data[p], KeyAt(key, p))]
             d == IF ok THEN mixed ELSE vault[id].data
             v == [user |-> u, keyLength |-> KeySize, data |-> d]
  <2>1. n \in 0 .. MaxAlloc /\ vault[id].data \in [1 .. n -> Byte]
        /\ vault[id] \in Vault /\ DOMAIN vault[id].data = 1 .. n
        /\ MaxAlloc \in Nat
    BY DataIs, FileAssumption
  <2>2. mixed \in [1 .. n -> Byte]
    <3>1. ASSUME NEW p \in 1 .. n
          PROVE  Xor(vault[id].data[p], KeyAt(key, p)) \in Byte
      <4>1. vault[id].data[p] \in Byte /\ p \in Nat \ {0}
        BY <2>1
      <4>2. KeyAt(key, p) \in Byte
        BY <4>1, KeyIs
      <4>3. QED
        BY <4>1, <4>2, XorIs
    <3>2. QED
      BY <3>1
  <2>3. d \in [1 .. n -> Byte]
    BY <2>1, <2>2
  <2>4. d \in Seq(Byte) /\ Len(d) = n
    <3> HIDE DEF d, n
    <3>1. QED
      BY <2>1, <2>3, FunIsSeq
  <2>5. vault' = [vault EXCEPT ![id] = v]
    BY <1>2, <2>1, DecodedIs DEF ChangeKey
  <2>6. vault \in [Ids -> Vault]
    BY DEF TypeOK
  <2> HIDE DEF d
  <2>7. vault' = [i \in Ids |-> IF i = id THEN v ELSE vault[i]]
    BY <2>5, <2>6
  <2>8. v \in Vault
    BY <2>4, <2>6 DEF Vault
  <2>9. Puts(id, v)
    BY <2>1, <2>4, <2>7, <2>8 DEF Puts
  <2>10. v.user = u /\ v.keyLength = KeySize /\ v.data = d
    OBVIOUS
  <2>11. Rekeyed(u, id, key, ok, v)
    BY <2>4, <2>9, <2>10 DEF d, Rekeyed
  <2>12. QED
    BY <1>2, <2>11
<1>3. QED
  BY <1>1, <1>2

LEMMA SizePuts ==
    ASSUME TypeOK, NEW u \in Users, NEW id \in Ids, NEW n \in 0 .. PosLimit - 1,
           NEW ok \in BOOLEAN, ChangeSize(u, id, n, ok)
    PROVE  \/ ~ ok /\ vault' = vault
           \/ /\ Allowed(u, id) /\ n \in 1 .. MaxAlloc /\ ok
              /\ Puts(id, [vault[id] EXCEPT !.data = Resized(vault[id].data, n)])
              /\ Resized(vault[id].data, n) \in [1 .. n -> Byte]
<1>1. CASE ~ ok /\ vault' = vault
  BY <1>1
<1>2. CASE ok /\ Allowed(u, id) /\ n > 0 /\ n <= MaxAlloc
           /\ vault' = [vault EXCEPT ![id].data = Resized(vault[id].data, n)]
  <2>1. vault[id].data \in [1 .. Size(id) -> Byte]
    BY DataIs
  <2>2. Resized(vault[id].data, n) \in [1 .. n -> Byte]
    BY <2>1 DEF Resized, Byte
  <2>3. n \in 1 .. MaxAlloc /\ n \in 0 .. MaxAlloc
    BY <1>2, FileAssumption
  <2>4. QED
    BY <1>2, <2>2, <2>3, DataPuts
<1>3. QED
  BY <1>1, <1>2 DEF ChangeSize

LEMMA CleanPuts ==
    ASSUME TypeOK, NEW u \in Users, NEW id \in Ids, NEW ok \in BOOLEAN,
           Clean(u, id, ok)
    PROVE  \/ ~ ok /\ vault' = vault
           \/ /\ Allowed(u, id) /\ ok
              /\ Puts(id, [vault[id] EXCEPT !.data = [p \in 1 .. Size(id) |-> 0]])
<1>1. CASE ~ ok
  BY <1>1 DEF Clean
<1>2. CASE ok
  <2>1. DOMAIN vault[id].data = 1 .. Size(id) /\ Size(id) \in 0 .. MaxAlloc
    BY DataIs
  <2>2. vault' = [vault EXCEPT ![id].data = [p \in 1 .. Size(id) |-> 0]]
        /\ Allowed(u, id)
    BY <1>2, <2>1 DEF Clean
  <2>3. [p \in 1 .. Size(id) |-> 0] \in [1 .. Size(id) -> Byte]
    BY DEF Byte
  <2>4. QED
    BY <1>2, <2>1, <2>2, <2>3, DataPuts
<1>3. QED
  BY <1>1, <1>2

LEMMA NoVaultIs ==
    /\ NoVault \in Vault /\ Len(NoVault.data) = 0 /\ 0 <= MaxAlloc
    /\ NoVault.user = Nobody /\ NoVault.data = << >>
<1>1. << >> \in Seq(Byte) /\ Len(<< >>) = 0
  OBVIOUS
<1>2. QED
  BY <1>1, FileAssumption DEF NoVault, Vault

LEMMA CreatePuts ==
    ASSUME TypeOK, NEW u \in Users, NEW id \in Ids, NEW ok \in BOOLEAN,
           Create(u, id, ok)
    PROVE  \/ ~ ok /\ vault' = vault
           \/ /\ ~ Exists(id) /\ ok
              /\ Puts(id, [NoVault EXCEPT !.user = u])
<1>1. CASE ~ ok /\ vault' = vault
  BY <1>1
<1>2. CASE ok /\ ~ Exists(id)
           /\ vault' = [vault EXCEPT ![id] = [NoVault EXCEPT !.user = u]]
  <2>1. [NoVault EXCEPT !.user = u] \in Vault
        /\ [NoVault EXCEPT !.user = u].data = << >>
    BY NoVaultIs DEF Vault
  <2>2. vault' = [i \in Ids |-> IF i = id THEN [NoVault EXCEPT !.user = u]
                                         ELSE vault[i]]
    BY <1>2 DEF TypeOK
  <2>3. QED
    BY <1>2, <2>1, <2>2, NoVaultIs DEF Puts
<1>3. QED
  BY <1>1, <1>2 DEF Create

LEMMA RemovePuts ==
    ASSUME TypeOK, NEW u \in Users, NEW id \in Ids, NEW ok \in BOOLEAN,
           Remove(u, id, ok)
    PROVE  \/ ~ ok /\ vault' = vault
           \/ /\ Allowed(u, id) /\ ok /\ file.id # id
              /\ Puts(id, NoVault)
<1>1. CASE ~ ok
  BY <1>1 DEF Remove
<1>2. CASE ok
  <2>1. vault' = [i \in Ids |-> IF i = id THEN NoVault ELSE vault[i]]
    BY <1>2 DEF TypeOK, Remove
  <2>2. QED
    BY <1>2, <2>1, NoVaultIs DEF Puts, Remove
<1>3. QED
  BY <1>1, <1>2

-----------------------------------------------------------------------------
(* Who touches which vault.                                                *)

LEMMA AllowedIs ==
    ASSUME NEW u \in Users, NEW id
    PROVE  /\ Allowed(u, id) <=> vault[id].user = u
           /\ ~ Exists(id) => vault[id].user = Nobody
           /\ u # Nobody
  BY FileAssumption DEF Allowed, Exists, NoVault

(* A call of u leaves all vaults alone, or changes the vault id, which is  *)
(* its own or nobody's, and does not take it away from an open file.       *)
Touches(u, id) ==
    \/ vault' = vault
    \/ \E v : /\ Puts(id, v) /\ vault[id].user \in {u, Nobody}
              /\ v.user = vault[id].user \/ file.id # id

LEMMA RequestTouches ==
    ASSUME TypeOK, NEW u \in Users, NEW id \in Ids, VaultRequest(u, id)
    PROVE  Touches(u, id)
<1>1. ASSUME NEW v, Puts(id, v), Allowed(u, id), v.user = vault[id].user
      PROVE  Touches(u, id)
  BY <1>1, AllowedIs DEF Touches
<1>2. PICK ok \in BOOLEAN :
        \/ \E key \in Keys : ChangeKey(u, id, key, ok)
        \/ \E n \in 0 .. PosLimit - 1 : ChangeSize(u, id, n, ok)
        \/ Clean(u, id, ok)
  BY DEF VaultRequest
<1>3. ASSUME NEW key \in Keys, ChangeKey(u, id, key, ok) PROVE Touches(u, id)
  <2>1. CASE vault' = vault
    BY <2>1 DEF Touches
  <2>2. CASE vault' # vault
    <3>1. PICK v : Allowed(u, id) /\ Rekeyed(u, id, key, ok, v)
      BY <1>2, <1>3, <2>2, KeyPuts
    <3>2. Puts(id, v) /\ v.user = vault[id].user
      BY <3>1, AllowedIs DEF Rekeyed
    <3>3. QED
      BY <1>1, <3>1, <3>2
  <2>3. QED
    BY <2>1, <2>2
<1>4. ASSUME NEW d, Puts(id, [vault[id] EXCEPT !.data = d]), Allowed(u, id)
      PROVE  Touches(u, id)
  <2>1. [vault[id] EXCEPT !.data = d].user = vault[id].user
    BY DataIs DEF Vault
  <2>2. QED
    BY <1>1, <1>4, <2>1
<1>5. ASSUME NEW n \in 0 .. PosLimit - 1, ChangeSize(u, id, n, ok)
      PROVE  Touches(u, id)
  <2>1. \/ vault' = vault
        \/ /\ Allowed(u, id)
           /\ Puts(id, [vault[id] EXCEPT !.data = Resized(vault[id].data, n)])
    BY <1>2, <1>5, SizePuts
  <2>2. QED
    BY <1>4, <2>1 DEF Touches
<1>6. ASSUME Clean(u, id, ok) PROVE Touches(u, id)
  <2>1. \/ vault' = vault
        \/ /\ Allowed(u, id)
           /\ Puts(id, [vault[id] EXCEPT !.data = [p \in 1 .. Size(id) |-> 0]])
    BY <1>2, <1>6, CleanPuts
  <2>2. QED
    BY <1>4, <2>1 DEF Touches
<1>7. QED
  BY <1>2, <1>3, <1>5, <1>6

LEMMA CreateTouches ==
    ASSUME TypeOK, FileInv, NEW u \in Users, NEW id \in Ids, NEW ok \in BOOLEAN,
           Create(u, id, ok)
    PROVE  Touches(u, id)
<1>1. file.id = id => Exists(id)
  BY FileAssumption DEF FileInv, Closed, Ids, Allowed
<1>2. \/ vault' = vault
      \/ ~ Exists(id) /\ Puts(id, [NoVault EXCEPT !.user = u])
  BY CreatePuts
<1>3. ~ Exists(id) => vault[id].user = Nobody
  BY AllowedIs
<1>4. QED
  BY <1>1, <1>2, <1>3 DEF Touches

LEMMA RemoveTouches ==
    ASSUME TypeOK, NEW u \in Users, NEW id \in Ids, NEW ok \in BOOLEAN,
           Remove(u, id, ok)
    PROVE  Touches(u, id)
  BY RemovePuts, AllowedIs DEF Touches

LEMMA TouchesKeeps ==
    ASSUME TypeOK, FileInv, NEW u \in Users, NEW id \in Ids, Touches(u, id)
    PROVE  /\ vault' \in [Ids -> Vault]
           /\ \A i \in Ids : Len(vault'[i].data) <= MaxAlloc
           /\ \A i \in Ids : i # id => vault'[i] = vault[i]
           /\ vault'[id] # vault[id] => vault[id].user \in {u, Nobody}
           /\ file # Closed => vault'[file.id].user = file.user
<1>1. file # Closed => file.id \in Ids /\ vault[file.id].user = file.user
  BY DEF FileInv, Allowed
<1>2. CASE vault' = vault
  BY <1>1, <1>2 DEF TypeOK
<1>3. CASE \E v : /\ Puts(id, v) /\ vault[id].user \in {u, Nobody}
                  /\ v.user = vault[id].user \/ file.id # id
  <2>1. PICK v : /\ Puts(id, v) /\ vault[id].user \in {u, Nobody}
                 /\ v.user = vault[id].user \/ file.id # id
    BY <1>3
  <2>2. /\ vault' \in [Ids -> Vault]
        /\ \A i \in Ids : Len(vault'[i].data) <= MaxAlloc
        /\ \A i \in Ids : i # id => vault'[i] = vault[i]
        /\ vault'[id] = v
    BY <2>1, PutsKeeps
  <2>3. QED
    BY <1>1, <2>1, <2>2
<1>4. QED
  BY <1>2, <1>3 DEF Touches

(* The loops of read and write stop at the end of the vault.               *)
LEMMA ReadyIs ==
    ASSUME TypeOK, FileInv, NEW n \in 1 .. MaxAlloc, Ready(n)
    PROVE  file.pos \in Nat /\ file.pos + n <= Size(file.id)
<1>1. file.id \in Ids /\ file.pos \in Nat
  BY FileAssumption DEF Ready, Opened, FileInv, TypeOK
<1>2. Size(file.id) \in Nat /\ n \in Nat \ {0} /\ n - 1 \in 0 .. n - 1
  BY <1>1, DataIs, FileAssumption
<1>3. file.pos + (n - 1) < Size(file.id)
  BY <1>2 DEF Ready, InRange
<1>4. QED
  BY <1>1, <1>2, <1>3

(* The bytes after a write at the position of the open file.               *)
Written(bytes) ==
    [p \in 1 .. Size(file.id) |->
       IF p - file.pos \in 1 .. Len(bytes) THEN bytes[p - file.pos]
                                           ELSE vault[file.id].data[p]]

LEMMA WritePuts ==
    ASSUME TypeOK, FileInv, NEW n \in 1 .. MaxAlloc, NEW bytes \in [1 .. n -> Byte],
           Write(bytes)
    PROVE  /\ file.user \in Users /\ file.id \in Ids
           /\ vault[file.id].user = file.user
           /\ Len(bytes) = n /\ file.pos + n <= Size(file.id) /\ file.pos \in Nat
           /\ Puts(file.id, [vault[file.id] EXCEPT !.data = Written(bytes)])
           /\ Written(bytes) \in [1 .. Size(file.id) -> Byte]
<1> DEFINE id == file.id
           d == vault[id].data
<1>1. file.user \in Users /\ id \in Ids /\ vault[id].user = file.user
  BY DEF Write, Ready, Opened, FileInv, Allowed
<1>2. Size(id) \in 0 .. MaxAlloc /\ d \in [1 .. Size(id) -> Byte]
      /\ DOMAIN d = 1 .. Size(id)
  BY <1>1, DataIs
<1>3. n \in Nat /\ Len(bytes) = n /\ DOMAIN bytes = 1 .. n /\ file.pos \in Nat
  BY FunIsSeq, FileAssumption DEF TypeOK
<1>4. file.pos + n <= Size(id)
  BY <1>3, ReadyIs DEF Write
<1>5. ASSUME NEW p \in 1 .. Size(id), p - file.pos \in 1 .. n
      PROVE  Xor(bytes[p - file.pos], KeyAt(Key, p)) = bytes[p - file.pos]
  <2>1. p \in Nat \ {0} /\ bytes[p - file.pos] \in Byte
    BY <1>2, <1>5
  <2>2. KeyAt(Key, p) = 0
    BY <2>1, KeysAre, KeyIs
  <2>3. QED
    BY <2>1, <2>2, XorIs
<1>6. Written(bytes) \in [1 .. Size(id) -> Byte]
  BY <1>2, <1>3 DEF Written
<1>7. vault' = [vault EXCEPT ![id].data = Written(bytes)]
  <2> DEFINE stored == file.pos + 1 .. file.pos + n
  <2>1. vault' = [vault EXCEPT ![id].data =
                    [p \in DOMAIN d \union stored |->
                       IF p \in stored
                         THEN Xor(bytes[p - file.pos], KeyAt(Key, p))
                         ELSE d[p]]]
    BY <1>3 DEF Write
  <2>2. [p \in DOMAIN d \union stored |->
           IF p \in stored
             THEN Xor(bytes[p - file.pos], KeyAt(Key, p)) ELSE d[p]]
          = Written(bytes)
    <3>1. Size(id) \in Nat
      BY <1>2, FileAssumption
    <3>2. DOMAIN d \union stored = 1 .. Size(id)
      BY <1>2, <1>3, <1>4, <3>1
    <3>3. \A p \in 1 .. Size(id) : p \in stored <=> p - file.pos \in 1 .. n
      BY <1>3, <3>1
    <3> HIDE DEF stored
    <3>4. [p \in 1 .. Size(id) |->
             IF p \in stored
               THEN Xor(bytes[p - file.pos], KeyAt(Key, p)) ELSE d[p]]
            = [p \in 1 .. Size(id) |->
                 IF p - file.pos \in 1 .. n THEN bytes[p - file.pos] ELSE d[p]]
      BY <1>5, <3>3
    <3>5. QED
      BY <1>3, <3>2, <3>4 DEF Written
  <2>3. QED
    BY <2>1, <2>2
<1>8. Puts(id, [vault[id] EXCEPT !.data = Written(bytes)])
  BY <1>1, <1>2, <1>6, <1>7, DataPuts
<1>9. QED
  BY <1>1, <1>3, <1>4, <1>6, <1>8

LEMMA WriteTouches ==
    ASSUME TypeOK, FileInv, NEW n \in 1 .. MaxAlloc, NEW bytes \in [1 .. n -> Byte],
           Write(bytes)
    PROVE  Touches(file.user, file.id)
<1>1. [vault[file.id] EXCEPT !.data = Written(bytes)].user = vault[file.id].user
  BY WritePuts, DataIs DEF Vault
<1>2. QED
  BY <1>1, WritePuts DEF Touches

-----------------------------------------------------------------------------
(* The invariant of the vaults, the open file and the run of svctl.        *)

VaultTypes ==
    /\ vault \in [Ids -> Vault]
    /\ \A id \in Ids : Len(vault[id].data) <= MaxAlloc

FileTypes ==
    file \in [id : Ids \union {-1}, user : Users \union {Nobody},
              pos : 0 .. PosLimit - 1]

ToolTypes ==
    tool \in [pc : {"idle", "exists", "create", "size", "key", "clean",
                    "remove", "success"},
              cmd : {"none", "c", "k", "e", "d"}, param : 0 .. MaxSize,
              target : 0 .. NumVaults, user : Users \union {Nobody},
              alone : BOOLEAN]

RunsInv == TypeOK /\ FileInv /\ RunInv /\ SvctlDone

LEMMA TypesAre == TypeOK <=> loaded \in BOOLEAN /\ VaultTypes /\ FileTypes /\ ToolTypes
  BY DEF TypeOK, VaultTypes, FileTypes, ToolTypes

LEMMA TypesAreNext ==
    TypeOK' <=> loaded' \in BOOLEAN /\ VaultTypes' /\ FileTypes' /\ ToolTypes'
  BY DEF TypeOK, VaultTypes, FileTypes, ToolTypes

(* What svctl selects is what it was started for.                          *)
LEMMA SelectedIs ==
    ASSUME TypeOK
    PROVE  Selected = tool.target /\ tool.target \in Ids
<1>1. tool.target \in 0 .. NumVaults /\ NumVaults \in 0 .. TargetLimit - 1
      /\ TargetLimit \in Nat
  BY FileAssumption DEF TypeOK
<1>2. ASSUME NEW t \in Nat, NEW n \in Nat, t < n PROVE t % n = t
  BY <1>2
<1>3. QED
  BY <1>1, <1>2 DEF Selected, Ids

(* Somebody else's call on a vault.                                        *)
LEMMA MeddledIs ==
    ASSUME ToolTypes, NEW id \in Ids, Meddled(id)
    PROVE  /\ ToolTypes'
           /\ tool'.pc = tool.pc /\ tool'.cmd = tool.cmd
           /\ tool'.param = tool.param /\ tool'.target = tool.target
           /\ tool'.user = tool.user
           /\ tool'.alone => tool.alone /\ (tool.pc = "idle" \/ tool.target # id)
  BY DEF ToolTypes, Meddled

(* It leaves alone what svctl has done, or svctl was not alone.            *)
LEMMA MeddledKeeps ==
    ASSUME RunsInv, NEW id \in Ids, Meddled(id),
           \A i \in Ids : i # id => vault'[i] = vault[i]
    PROVE  ToolTypes' /\ RunInv' /\ SvctlDone'
<1>1. /\ ToolTypes' /\ tool'.pc = tool.pc /\ tool'.cmd = tool.cmd
      /\ tool'.param = tool.param /\ tool'.target = tool.target
      /\ tool'.user = tool.user
      /\ tool'.alone => tool.alone /\ (tool.pc = "idle" \/ tool.target # id)
  BY MeddledIs, TypesAre DEF RunsInv
<1>2. tool.target \in Ids
  BY SelectedIs DEF RunsInv
<1>3. tool'.alone /\ tool.pc # "idle" => vault'[tool.target] = vault[tool.target]
  BY <1>1, <1>2
<1>4. RunInv'
  BY <1>1, <1>3 DEF RunsInv, RunInv
<1>5. SvctlDone'
  BY <1>1, <1>3 DEF RunsInv, SvctlDone
<1>6. QED
  BY <1>1, <1>4, <1>5

LEMMA ToolStays ==
    ASSUME RunsInv, tool' = tool, vault' = vault
    PROVE  ToolTypes' /\ VaultTypes' /\ RunInv' /\ SvctlDone'
  BY TypesAre DEF RunsInv, ToolTypes, VaultTypes, RunInv, SvctlDone

(* An open file keeps its owner.                                           *)
LEMMA FileStays ==
    ASSUME RunsInv, file' = file, file # Closed => vault'[file.id].user = file.user
    PROVE  FileTypes' /\ FileInv'
<1>1. FileTypes'
  BY TypesAre DEF RunsInv, FileTypes
<1>2. FileInv'
  <2>1. CASE file = Closed
    BY <2>1 DEF FileInv
  <2>2. CASE file # Closed
    <3>1. file.user \in Users /\ file.id \in Ids
      BY <2>2 DEF RunsInv, FileInv
    <3>2. vault'[file.id] # NoVault
      BY <2>2, <3>1, FileAssumption DEF NoVault
    <3>3. QED
      BY <2>2, <3>1, <3>2 DEF FileInv, Allowed, Exists
  <2>3. QED
    BY <2>1, <2>2
<1>3. QED
  BY <1>1, <1>2

(* An ioctl of any program keeps the invariant.                            *)
LEMMA IoctlKeeps ==
    ASSUME RunsInv, NEW u \in Users, NEW id \in Ids, Touches(u, id),
           Meddled(id), UNCHANGED <<loaded, file>>
    PROVE  RunsInv'
<1>1. /\ VaultTypes'
      /\ \A i \in Ids : i # id => vault'[i] = vault[i]
      /\ file # Closed => vault'[file.id].user = file.user
  BY TouchesKeeps DEF RunsInv, VaultTypes
<1>2. FileTypes' /\ FileInv'
  BY <1>1, FileStays
<1>3. ToolTypes' /\ RunInv' /\ SvctlDone'
  BY <1>1, MeddledKeeps
<1>4. loaded' \in BOOLEAN
  BY DEF RunsInv, TypeOK
<1>5. QED
  BY <1>1, <1>2, <1>3, <1>4, TypesAreNext DEF RunsInv

LEMMA ControlIoctlKeeps ==
    ASSUME RunsInv, NEW u \in Users, NEW id \in Ids, ControlIoctl(u, id)
    PROVE  RunsInv' /\ Touches(u, id) /\ tool'.pc = tool.pc /\ file' = file
<1>1. Touches(u, id)
  BY RequestTouches, CreateTouches, RemoveTouches DEF ControlIoctl, RunsInv
<1>2. Meddled(id) /\ UNCHANGED <<loaded, file>>
  BY DEF ControlIoctl
<1>3. QED
  BY <1>1, <1>2, IoctlKeeps, MeddledIs, TypesAre DEF RunsInv

LEMMA VaultIoctlKeeps ==
    ASSUME RunsInv, VaultIoctl
    PROVE  RunsInv' /\ tool'.pc = tool.pc /\ file' = file
<1>1. /\ file.user \in Users /\ file.id \in Ids
      /\ VaultRequest(file.user, file.id)
      /\ Meddled(file.id) /\ UNCHANGED <<loaded, file>>
  BY DEF VaultIoctl, Opened, RunsInv, FileInv
<1>2. Touches(file.user, file.id)
  BY <1>1, RequestTouches DEF RunsInv
<1>3. QED
  BY <1>1, <1>2, IoctlKeeps, MeddledIs, TypesAre DEF RunsInv

(* What the ioctls of other programs may do, whatever step they are.       *)
IoctlsMeant ==
    \A id \in Ids : vault'[id] # vault[id] =>
          /\ VaultIoctl => id = file.id /\ vault[id].user = file.user
          /\ \A u \in Users, asked \in Ids : ControlIoctl(u, asked) =>
                id = asked /\ vault[id].user \in {u, Nobody}

(* An ioctl changes the vault that it was asked for, which is its caller's *)
(* or, for a creation, nobody's.                                           *)
LEMMA IoctlsMean ==
    ASSUME RunsInv
    PROVE  IoctlsMeant
<1>1. ASSUME NEW u \in Users, NEW asked \in Ids, ControlIoctl(u, asked),
             NEW id \in Ids, vault'[id] # vault[id]
      PROVE  id = asked /\ vault[id].user \in {u, Nobody}
  BY <1>1, ControlIoctlKeeps, TouchesKeeps DEF RunsInv
<1>2. ASSUME VaultIoctl, NEW id \in Ids, vault'[id] # vault[id]
      PROVE  id = file.id /\ vault[id].user = file.user
  <2>1. /\ file.user \in Users /\ file.id \in Ids
        /\ VaultRequest(file.user, file.id) /\ vault[file.id].user = file.user
    BY <1>2 DEF VaultIoctl, Opened, RunsInv, FileInv, Allowed
  <2>2. Touches(file.user, file.id)
    BY <2>1, RequestTouches DEF RunsInv
  <2>3. QED
    BY <1>2, <2>1, <2>2, TouchesKeeps DEF RunsInv
<1>3. QED
  BY <1>1, <1>2 DEF IoctlsMeant

-----------------------------------------------------------------------------
(* The module, the open file and the run of svctl.                         *)

(* What only moves the open file keeps the invariant.                      *)
LEMMA MoveKeeps ==
    ASSUME RunsInv, UNCHANGED <<loaded, vault, tool>>, FileTypes', FileInv'
    PROVE  RunsInv'
<1>1. ToolTypes' /\ VaultTypes' /\ RunInv' /\ SvctlDone'
  BY ToolStays
<1>2. loaded' \in BOOLEAN
  BY DEF RunsInv, TypeOK
<1>3. QED
  BY <1>1, <1>2, TypesAreNext DEF RunsInv

LEMMA OpenKeeps ==
    ASSUME RunsInv, NEW u \in Users, NEW id \in Ids, Open(u, id)
    PROVE  RunsInv'
<1>1. /\ file' = [id |-> id, user |-> u, pos |-> 0]
      /\ UNCHANGED <<loaded, vault, tool>> /\ Allowed(u, id)
  BY DEF Open
<1>2. FileTypes' /\ FileInv'
  BY <1>1, FileAssumption DEF FileTypes, FileInv, Allowed, Exists
<1>3. QED
  BY <1>1, <1>2, MoveKeeps

LEMMA ReleaseKeeps ==
    ASSUME RunsInv, Release
    PROVE  RunsInv'
<1>1. file' = Closed /\ UNCHANGED <<loaded, vault, tool>>
  BY DEF Release
<1>2. FileTypes' /\ FileInv'
  BY <1>1, FileAssumption DEF FileTypes, FileInv, Closed
<1>3. QED
  BY <1>1, <1>2, MoveKeeps

(* The position moves, the vault and the user of the open file stay.       *)
LEMMA PositionMoves ==
    ASSUME RunsInv, Opened, NEW n \in 0 .. PosLimit - 1,
           file' = [file EXCEPT !.pos = n]
    PROVE  /\ FileTypes' /\ file'.id = file.id /\ file'.user = file.user
           /\ vault'[file.id].user = file.user => FileInv'
<1>1. FileTypes /\ file.user \in Users /\ file.id \in Ids
  BY TypesAre DEF RunsInv, FileInv, Opened
<1>2. FileTypes' /\ file'.id = file.id /\ file'.user = file.user
  BY <1>1 DEF FileTypes
<1>3. vault'[file.id].user = file.user => vault'[file.id] # NoVault
  BY <1>1, FileAssumption DEF NoVault
<1>4. QED
  BY <1>1, <1>2, <1>3 DEF FileInv, Allowed, Exists

LEMMA LlseekKeeps ==
    ASSUME RunsInv, NEW off \in Int, NEW mode, Llseek(off, mode)
    PROVE  RunsInv'
<1>1. PosLimit \in Nat \ {0} /\ file.pos \in Nat /\ vault' = vault
  BY FileAssumption DEF RunsInv, TypeOK, Llseek
<1>2. \A n \in Nat \ {0} : \A a \in Int : a % n \in 0 .. n - 1
  OBVIOUS
<1> DEFINE to == IF mode = "set" THEN off ELSE file.pos + off
<1>3. to \in Int
  BY <1>1
<1>4. to % PosLimit \in 0 .. PosLimit - 1
  <2> HIDE DEF to
  <2>1. QED
    BY <1>1, <1>2, <1>3
<1>5. file' = [file EXCEPT !.pos = to % PosLimit] /\ Opened
  BY DEF Llseek
<1>6. vault'[file.id].user = file.user
  BY <1>1, <1>5 DEF RunsInv, FileInv, Opened, Allowed
<1> HIDE DEF to
<1>7. FileTypes' /\ FileInv'
  BY <1>4, <1>5, <1>6, PositionMoves
<1>8. QED
  BY <1>7, MoveKeeps DEF Llseek

LEMMA ReadKeeps ==
    ASSUME RunsInv, NEW n \in 1 .. MaxAlloc, Read(n)
    PROVE  RunsInv'
<1>1. /\ Opened /\ file.pos + n <= Size(file.id) /\ vault' = vault
      /\ file' = [file EXCEPT !.pos = file.pos + n]
  BY ReadyIs DEF Read, Ready, RunsInv
<1>2. file.id \in Ids /\ vault'[file.id].user = file.user
  BY <1>1 DEF RunsInv, FileInv, Opened, Allowed
<1>3. file.pos + n \in 0 .. PosLimit - 1
  <2>1. Size(file.id) \in 0 .. MaxAlloc /\ file.pos \in Nat
        /\ MaxAlloc \in Nat /\ PosLimit \in Nat /\ PosLimit > MaxAlloc
    BY <1>2, DataIs, FileAssumption DEF RunsInv, TypeOK
  <2>2. QED
    BY <1>1, <2>1
<1>4. FileTypes' /\ FileInv'
  BY <1>1, <1>2, <1>3, PositionMoves
<1>5. QED
  BY <1>4, MoveKeeps DEF Read

LEMMA WriteKeeps ==
    ASSUME RunsInv, NEW n \in 1 .. MaxAlloc, NEW bytes \in [1 .. n -> Byte],
           Write(bytes)
    PROVE  RunsInv' /\ tool'.pc = tool.pc
<1>1. /\ file.user \in Users /\ file.id \in Ids
      /\ Len(bytes) = n /\ file.pos + n <= Size(file.id) /\ file.pos \in Nat
  BY WritePuts DEF RunsInv
<1>2. /\ Opened /\ Meddled(file.id) /\ loaded' = loaded
      /\ file' = [file EXCEPT !.pos = file.pos + Len(bytes)]
  BY DEF Write, Ready
<1>3. Touches(file.user, file.id)
  BY WriteTouches DEF RunsInv
<1>4. /\ VaultTypes'
      /\ \A i \in Ids : i # file.id => vault'[i] = vault[i]
      /\ vault'[file.id].user = file.user
  BY <1>1, <1>2, <1>3, TouchesKeeps DEF RunsInv, VaultTypes, Opened
<1>5. file.pos + n \in 0 .. PosLimit - 1
  <2>1. Size(file.id) \in 0 .. MaxAlloc /\ MaxAlloc \in Nat /\ PosLimit \in Nat
        /\ PosLimit > MaxAlloc
    BY <1>1, DataIs, FileAssumption DEF RunsInv
  <2>2. QED
    BY <1>1, <2>1
<1>6. FileTypes' /\ FileInv'
  BY <1>1, <1>2, <1>4, <1>5, PositionMoves
<1>7. ToolTypes' /\ RunInv' /\ SvctlDone' /\ tool'.pc = tool.pc
  BY <1>1, <1>2, <1>4, MeddledKeeps, MeddledIs, TypesAre DEF RunsInv
<1>8. loaded' \in BOOLEAN
  BY <1>2 DEF RunsInv, TypeOK
<1>9. QED
  BY <1>4, <1>6, <1>7, <1>8, TypesAreNext DEF RunsInv

LEMMA LoadKeeps ==
    ASSUME RunsInv, Load
    PROVE  RunsInv'
<1>1. loaded' = TRUE /\ UNCHANGED <<vault, file, tool>>
  BY DEF Load
<1>2. ToolTypes' /\ VaultTypes' /\ RunInv' /\ SvctlDone'
  BY <1>1, ToolStays
<1>3. FileTypes' /\ FileInv'
  BY <1>1, FileStays DEF RunsInv, FileInv, Allowed
<1>4. QED
  BY <1>1, <1>2, <1>3, TypesAreNext DEF RunsInv

LEMMA UnloadKeeps ==
    ASSUME RunsInv, Unload
    PROVE  RunsInv'
<1>1. /\ loaded' = FALSE /\ vault' = [id \in Ids |-> NoVault]
      /\ file = Closed /\ tool = Idle /\ UNCHANGED <<file, tool>>
  BY DEF Unload, CleanedUp
<1>2. VaultTypes'
  BY <1>1, NoVaultIs DEF VaultTypes
<1>3. ToolTypes' /\ RunInv' /\ SvctlDone'
  BY <1>1, TypesAre DEF RunsInv, ToolTypes, RunInv, SvctlDone, Idle
<1>4. FileTypes' /\ FileInv'
  BY <1>1, FileStays
<1>5. QED
  BY <1>1, <1>2, <1>3, <1>4, TypesAreNext DEF RunsInv

LEMMA EndsRun ==
    ASSUME tool' = Idle
    PROVE  ToolTypes' /\ RunInv' /\ SvctlDone'
  BY FileAssumption DEF Idle, ToolTypes, RunInv, SvctlDone

LEMMA GoesOn ==
    ASSUME ToolTypes,
           NEW pc \in {"idle", "exists", "create", "size", "key", "clean",
                       "remove", "success"},
           tool' = [tool EXCEPT !.pc = pc]
    PROVE  /\ ToolTypes' /\ tool'.pc = pc /\ tool'.cmd = tool.cmd
           /\ tool'.param = tool.param /\ tool'.target = tool.target
           /\ tool'.user = tool.user /\ tool'.alone = tool.alone
  BY DEF ToolTypes

(* A call of svctl touches its own vault.                                  *)
LEMMA SvctlTouches ==
    ASSUME RunsInv, tool.pc # "idle", Touches(tool.user, Selected),
           UNCHANGED <<loaded, file>>
    PROVE  /\ loaded' \in BOOLEAN /\ VaultTypes' /\ FileTypes' /\ FileInv'
           /\ \A i \in Ids : vault'[i] # vault[i] =>
                i = tool.target /\ vault[i].user \in {tool.user, Nobody}
<1>1. tool.user \in Users /\ Selected = tool.target /\ tool.target \in Ids
  BY SelectedIs DEF RunsInv, RunInv
<1>2. /\ VaultTypes'
      /\ \A i \in Ids : i # tool.target => vault'[i] = vault[i]
      /\ vault'[tool.target] # vault[tool.target] =>
           vault[tool.target].user \in {tool.user, Nobody}
      /\ file # Closed => vault'[file.id].user = file.user
  BY <1>1, TouchesKeeps DEF RunsInv, VaultTypes
<1>3. FileTypes' /\ FileInv'
  BY <1>2, FileStays
<1>4. QED
  BY <1>1, <1>2, <1>3 DEF RunsInv, TypeOK

(* What svctl and the open file may do to the vaults in a step.            *)
Meant ==
    \A id \in Ids : vault'[id] # vault[id] =>
          /\ tool'.pc # tool.pc => /\ id = tool.target
                                   /\ vault[id].user \in {tool.user, Nobody}
          /\ file'.pos # file.pos => id = file.id /\ vault[id].user = file.user

LEMMA SvctlKeeps ==
    ASSUME RunsInv, tool.pc # "idle", Touches(tool.user, Selected),
           UNCHANGED <<loaded, file>>, ToolTypes', RunInv', SvctlDone'
    PROVE  RunsInv' /\ Meant
  BY SvctlTouches, TypesAreNext DEF RunsInv, Meant

LEMMA StartKeeps ==
    ASSUME RunsInv, NEW u \in Users, NEW cmd \in {"c", "k", "e", "d"},
           NEW param \in Int, NEW target \in Int, Start(u, cmd, param, target)
    PROVE  RunsInv' /\ Meant
<1>1. /\ target \in 0 .. NumVaults /\ param \in 0 .. MaxSize
      /\ UNCHANGED <<loaded, vault, file>> /\ tool.pc = "idle"
      /\ tool' = [pc |-> CASE cmd = "c" -> "exists"
                           [] cmd = "k" -> "key"
                           [] cmd = "e" -> "clean"
                           [] cmd = "d" -> "remove",
                  cmd |-> cmd, param |-> param, target |-> target,
                  user |-> u, alone |-> TRUE]
  BY FileAssumption DEF Start, TargetInLimits
<1>2. ToolTypes' /\ RunInv' /\ SvctlDone'
  BY <1>1 DEF ToolTypes, RunInv, SvctlDone
<1>3. loaded' \in BOOLEAN /\ VaultTypes' /\ Meant
  BY <1>1, TypesAre DEF RunsInv, VaultTypes, Meant
<1>4. FileTypes' /\ FileInv'
  BY <1>1, FileStays DEF RunsInv, FileInv, Allowed
<1>5. QED
  BY <1>2, <1>3, <1>4, TypesAreNext DEF RunsInv

LEMMA CheckExistsKeeps ==
    ASSUME RunsInv, CheckExists
    PROVE  RunsInv' /\ Meant
<1> DEFINE pc == IF Exists(Selected) THEN "size" ELSE "create"
<1>1. /\ tool.pc = "exists" /\ UNCHANGED <<loaded, vault, file>>
      /\ tool' = [tool EXCEPT !.pc = pc] /\ pc \in {"size", "create"}
  BY DEF CheckExists
<1> HIDE DEF pc
<1>2. /\ ToolTypes' /\ tool'.pc = pc /\ tool'.cmd = tool.cmd
      /\ tool'.user = tool.user
  BY <1>1, GoesOn, TypesAre DEF RunsInv
<1>3. RunInv' /\ SvctlDone'
  BY <1>1, <1>2 DEF RunsInv, RunInv, SvctlDone
<1>4. QED
  BY <1>1, <1>2, <1>3, SvctlKeeps DEF Touches

LEMMA NextRunKeeps ==
    ASSUME RunsInv, NextRun
    PROVE  RunsInv' /\ Meant
<1>1. tool.pc = "success" /\ tool' = Idle /\ UNCHANGED <<loaded, vault, file>>
  BY DEF NextRun
<1>2. QED
  BY <1>1, EndsRun, SvctlKeeps DEF Touches

LEMMA InterruptedKeeps ==
    ASSUME RunsInv, Interrupted
    PROVE  RunsInv' /\ Meant
<1>1. tool.pc # "idle" /\ tool' = Idle /\ UNCHANGED <<loaded, vault, file>>
  BY DEF Interrupted
<1>2. QED
  BY <1>1, EndsRun, SvctlKeeps DEF Touches

(* The user and the vault of a run.                                        *)
LEMMA RunIs ==
    ASSUME RunsInv, tool.pc # "idle"
    PROVE  /\ TypeOK /\ FileInv /\ ToolTypes /\ tool.user \in Users
           /\ Selected = tool.target /\ tool.target \in Ids
           /\ tool.param \in 0 .. PosLimit - 1
<1>1. tool.param \in 0 .. MaxSize
  BY TypesAre DEF RunsInv, ToolTypes
<1>2. tool.param \in 0 .. PosLimit - 1
  BY <1>1, FileAssumption
<1>3. QED
  BY <1>2, SelectedIs, TypesAre DEF RunsInv, RunInv

LEMMA CreateVaultKeeps ==
    ASSUME RunsInv, CreateVault
    PROVE  RunsInv' /\ Meant
<1>1. PICK ok \in BOOLEAN :
        Create(tool.user, Selected, ok) /\ Continue(ok, "size")
  BY DEF CreateVault
<1>2. tool.pc = "create" /\ UNCHANGED <<loaded, file>>
      /\ tool' = IF ok THEN [tool EXCEPT !.pc = "size"] ELSE Idle
  BY <1>1 DEF CreateVault, Continue
<1>3. Touches(tool.user, Selected)
  BY <1>1, <1>2, RunIs, CreateTouches
<1>4. CASE ~ ok
  BY <1>2, <1>3, <1>4, EndsRun, SvctlKeeps
<1>5. CASE ok
  <2>1. /\ ToolTypes' /\ tool'.pc = "size" /\ tool'.cmd = tool.cmd
        /\ tool'.user = tool.user
    BY <1>2, <1>5, RunIs, GoesOn
  <2>2. RunInv' /\ SvctlDone'
    BY <1>2, <2>1 DEF RunsInv, RunInv, SvctlDone
  <2>3. QED
    BY <1>2, <1>3, <2>1, <2>2, SvctlKeeps
<1>6. QED
  BY <1>1, <1>4, <1>5

LEMMA SetSizeKeeps ==
    ASSUME RunsInv, SetSize
    PROVE  RunsInv' /\ Meant
<1>1. PICK ok \in BOOLEAN :
        ChangeSize(tool.user, Selected, tool.param, ok) /\ Continue(ok, "key")
  BY DEF SetSize
<1>2. tool.pc = "size" /\ UNCHANGED <<loaded, file>>
      /\ tool' = IF ok THEN [tool EXCEPT !.pc = "key"] ELSE Idle
  BY <1>1 DEF SetSize, Continue
<1>3. Touches(tool.user, Selected)
  BY <1>1, <1>2, RunIs, RequestTouches DEF VaultRequest
<1>4. CASE ~ ok
  BY <1>2, <1>3, <1>4, EndsRun, SvctlKeeps
<1>5. CASE ok
  <2> DEFINE d == Resized(vault[tool.target].data, tool.param)
  <2>1. /\ ToolTypes' /\ tool'.pc = "key" /\ tool'.cmd = tool.cmd
        /\ tool'.user = tool.user /\ tool'.target = tool.target
        /\ tool'.param = tool.param
    BY <1>2, <1>5, RunIs, GoesOn
  <2>2. /\ Allowed(tool.user, tool.target) /\ tool.param \in 1 .. MaxAlloc
        /\ Puts(tool.target, [vault[tool.target] EXCEPT !.data = d])
        /\ d \in [1 .. tool.param -> Byte]
    BY <1>1, <1>2, <1>5, RunIs, SizePuts
  <2>3. Len(d) = tool.param
    <3>1. tool.param \in Nat
      BY <2>2, FileAssumption
    <3> HIDE DEF d
    <3>2. QED
      BY <2>2, <3>1, FunIsSeq
  <2>4. vault'[tool.target].user = tool.user /\ vault'[tool.target].data = d
    <3>1. vault[tool.target] \in Vault
      BY <1>2, RunIs, DataIs
    <3>2. vault'[tool.target] = [vault[tool.target] EXCEPT !.data = d]
      BY <1>2, <2>2, RunIs, PutsKeeps
    <3> HIDE DEF d
    <3>3. QED
      BY <2>2, <3>1, <3>2 DEF Vault, Allowed
  <2> HIDE DEF d
  <2>5. tool.cmd = "c" /\ tool.user \in Users /\ tool.param > 0
    BY <1>2, <2>2, FileAssumption DEF RunsInv, RunInv
  <2>6. RunInv' /\ SvctlDone'
    BY <1>2, <2>1, <2>2, <2>3, <2>4, <2>5 DEF RunInv, SvctlDone
  <2>7. QED
    BY <1>2, <1>3, <2>1, <2>6, SvctlKeeps
<1>6. QED
  BY <1>1, <1>4, <1>5

LEMMA EnterKeyKeeps ==
    ASSUME RunsInv, EnterKey
    PROVE  RunsInv' /\ Meant
<1>1. PICK ok \in BOOLEAN, key \in Keys :
        ChangeKey(tool.user, Selected, key, ok) /\ Continue(ok, "success")
  BY DEF EnterKey
<1>2. tool.pc = "key" /\ UNCHANGED <<loaded, file>>
      /\ tool' = IF ok THEN [tool EXCEPT !.pc = "success"] ELSE Idle
  BY <1>1 DEF EnterKey, Continue
<1>3. Touches(tool.user, Selected)
  BY <1>1, <1>2, RunIs, RequestTouches DEF VaultRequest
<1>4. CASE ~ ok
  BY <1>2, <1>3, <1>4, EndsRun, SvctlKeeps
<1>5. CASE ok
  <2>1. /\ ToolTypes' /\ tool'.pc = "success" /\ tool'.cmd = tool.cmd
        /\ tool'.user = tool.user /\ tool'.target = tool.target
        /\ tool'.param = tool.param /\ tool'.alone = tool.alone
    BY <1>2, <1>5, RunIs, GoesOn
  <2>2. PICK v : Rekeyed(tool.user, tool.target, key, ok, v)
    BY <1>1, <1>2, <1>5, RunIs, KeyPuts
  <2>3. /\ vault'[tool.target] = v /\ v.user = tool.user
        /\ v.keyLength = KeySize /\ Len(v.data) = Len(vault[tool.target].data)
    BY <1>2, <2>2, RunIs, PutsKeeps DEF Rekeyed, Size
  <2>4. tool.cmd \in {"c", "k"} /\ tool.user \in Users
    BY <1>2 DEF RunsInv, RunInv
  <2>5. RunInv' /\ SvctlDone'
    BY <1>2, <2>1, <2>3, <2>4 DEF RunsInv, RunInv, SvctlDone
  <2>6. QED
    BY <1>2, <1>3, <2>1, <2>5, SvctlKeeps
<1>6. QED
  BY <1>1, <1>4, <1>5

LEMMA CleanVaultKeeps ==
    ASSUME RunsInv, CleanVault
    PROVE  RunsInv' /\ Meant
<1>1. PICK ok \in BOOLEAN :
        Clean(tool.user, Selected, ok) /\ Continue(ok, "success")
  BY DEF CleanVault
<1>2. tool.pc = "clean" /\ UNCHANGED <<loaded, file>>
      /\ tool' = IF ok THEN [tool EXCEPT !.pc = "success"] ELSE Idle
  BY <1>1 DEF CleanVault, Continue
<1>3. Touches(tool.user, Selected)
  BY <1>1, <1>2, RunIs, RequestTouches DEF VaultRequest
<1>4. CASE ~ ok
  BY <1>2, <1>3, <1>4, EndsRun, SvctlKeeps
<1>5. CASE ok
  <2> DEFINE d == [p \in 1 .. Size(tool.target) |-> 0]
  <2>1. /\ ToolTypes' /\ tool'.pc = "success" /\ tool'.cmd = tool.cmd
        /\ tool'.user = tool.user /\ tool'.target = tool.target
    BY <1>2, <1>5, RunIs, GoesOn
  <2>2. /\ vault'[tool.target] = [vault[tool.target] EXCEPT !.data = d]
        /\ vault[tool.target] \in Vault
    BY <1>1, <1>2, <1>5, RunIs, CleanPuts, PutsKeeps, DataIs
  <2>3. \A p \in DOMAIN vault'[tool.target].data :
          vault'[tool.target].data[p] = 0
    BY <2>2 DEF Vault
  <2>4. tool.cmd = "e" /\ tool.user \in Users
    BY <1>2 DEF RunsInv, RunInv
  <2> HIDE DEF d
  <2>5. RunInv' /\ SvctlDone'
    BY <1>2, <2>1, <2>3, <2>4 DEF RunInv, SvctlDone
  <2>6. QED
    BY <1>2, <1>3, <2>1, <2>5, SvctlKeeps
<1>6. QED
  BY <1>1, <1>4, <1>5

LEMMA RemoveVaultKeeps ==
    ASSUME RunsInv, RemoveVault
    PROVE  RunsInv' /\ Meant
<1>1. PICK ok \in BOOLEAN :
        Remove(tool.user, Selected, ok) /\ Continue(ok, "success")
  BY DEF RemoveVault
<1>2. tool.pc = "remove" /\ UNCHANGED <<loaded, file>>
      /\ tool' = IF ok THEN [tool EXCEPT !.pc = "success"] ELSE Idle
  BY <1>1 DEF RemoveVault, Continue
<1>3. Touches(tool.user, Selected)
  BY <1>1, <1>2, RunIs, RemoveTouches
<1>4. CASE ~ ok
  BY <1>2, <1>3, <1>4, EndsRun, SvctlKeeps
<1>5. CASE ok
  <2>1. /\ ToolTypes' /\ tool'.pc = "success" /\ tool'.cmd = tool.cmd
        /\ tool'.user = tool.user /\ tool'.target = tool.target
    BY <1>2, <1>5, RunIs, GoesOn
  <2>2. vault'[tool.target] = NoVault
    <3>1. Puts(tool.target, NoVault)
      BY <1>1, <1>2, <1>5, RunIs, RemovePuts
    <3>2. QED
      BY <1>2, <3>1, RunIs, PutsKeeps
  <2>3. tool.cmd = "d" /\ tool.user \in Users
    BY <1>2 DEF RunsInv, RunInv
  <2>4. RunInv' /\ SvctlDone'
    BY <1>2, <2>1, <2>2, <2>3 DEF RunInv, SvctlDone
  <2>5. QED
    BY <1>2, <1>3, <2>1, <2>4, SvctlKeeps
<1>6. QED
  BY <1>1, <1>4, <1>5

LEMMA RunsKeep ==
    ASSUME RunsInv, Svctl
    PROVE  RunsInv' /\ Meant
<1>1. ASSUME NEW u \in Users, NEW cmd \in {"c", "k", "e", "d"},
             NEW param \in -1 .. MaxSize + 1, NEW target \in Targets,
             Start(u, cmd, param, target)
      PROVE  RunsInv' /\ Meant
  <2>1. param \in Int /\ target \in Int
    BY FileAssumption
  <2>2. QED
    BY <1>1, <2>1, StartKeeps
<1>2. QED
  BY <1>1, CheckExistsKeeps, CreateVaultKeeps, SetSizeKeeps, EnterKeyKeeps,
     CleanVaultKeeps, RemoveVaultKeeps, InterruptedKeeps, NextRunKeeps
     DEF Svctl

-----------------------------------------------------------------------------
(* The theorems about svctl.                                               *)

LEMMA NextKeeps ==
    ASSUME RunsInv, [Next]_vars
    PROVE  RunsInv' /\ (Meant \/ UNCHANGED vars)
<1>1. CASE UNCHANGED vars
  <2>1. UNCHANGED <<loaded, vault, file, tool>>
    BY <1>1 DEF vars
  <2>2. ToolTypes' /\ VaultTypes' /\ RunInv' /\ SvctlDone'
    BY <2>1, ToolStays
  <2>3. FileTypes' /\ FileInv'
    BY <2>1, FileStays DEF RunsInv, FileInv, Allowed
  <2>4. QED
    BY <1>1, <2>1, <2>2, <2>3, TypesAreNext DEF RunsInv, TypeOK
<1>2. CASE Load
  BY <1>2, LoadKeeps DEF Load, Meant
<1>3. CASE Unload
  BY <1>3, UnloadKeeps DEF Unload, Meant
<1>4. ASSUME NEW u \in Users, NEW id \in Ids, ControlIoctl(u, id)
      PROVE  RunsInv' /\ Meant
  BY <1>4, ControlIoctlKeeps DEF Meant
<1>5. ASSUME NEW u \in Users, NEW id \in Ids, Open(u, id)
      PROVE  RunsInv' /\ Meant
  BY <1>5, OpenKeeps DEF Open, Meant
<1>6. CASE Release
  BY <1>6, ReleaseKeeps DEF Release, Meant
<1>7. CASE VaultIoctl
  BY <1>7, VaultIoctlKeeps DEF Meant
<1>8. ASSUME NEW off \in -MaxAlloc - 1 .. MaxAlloc + 1, NEW mode \in Modes,
             Llseek(off, mode)
      PROVE  RunsInv' /\ Meant
  <2>1. off \in Int
    BY FileAssumption
  <2>2. vault' = vault
    BY <1>8 DEF Llseek
  <2>3. QED
    BY <1>8, <2>1, <2>2, LlseekKeeps DEF Meant
<1>9. ASSUME NEW n \in 1 .. MaxAlloc, Read(n)
      PROVE  RunsInv' /\ Meant
  BY <1>9, ReadKeeps DEF Read, Meant
<1>10. ASSUME NEW n \in 1 .. MaxAlloc, NEW bytes \in [1 .. n -> Byte],
              Write(bytes)
       PROVE  RunsInv' /\ Meant
  <2>1. RunsInv' /\ tool'.pc = tool.pc
    BY <1>10, WriteKeeps
  <2>2. /\ file.id \in Ids /\ vault[file.id].user = file.user
        /\ \A i \in Ids : i # file.id => vault'[i] = vault[i]
    BY <1>10, WritePuts, WriteTouches, TouchesKeeps DEF RunsInv
  <2>3. QED
    BY <2>1, <2>2 DEF Meant
<1>11. CASE Svctl
  BY <1>11, RunsKeep
<1>12. QED
  BY <1>1, <1>2, <1>3, <1>4, <1>5, <1>6, <1>7, <1>8, <1>9, <1>10, <1>11
     DEF Next

(* The invariant of the contents and the runs holds in every state.        *)
THEOREM RunsInvariant == Spec => []RunsInv
<1>1. Init => RunsInv
  <2> SUFFICES ASSUME Init PROVE RunsInv
    OBVIOUS
  <2>1. VaultTypes
    BY NoVaultIs DEF Init, VaultTypes
  <2>2. FileTypes /\ FileInv
    BY FileAssumption DEF Init, FileTypes, FileInv, Closed
  <2>3. ToolTypes /\ RunInv /\ SvctlDone
    BY FileAssumption DEF Init, Idle, ToolTypes, RunInv, SvctlDone
  <2>4. QED
    BY <2>1, <2>2, <2>3, TypesAre DEF Init, RunsInv
<1>2. RunsInv /\ [Next]_vars => RunsInv'
  BY NextKeeps
<1>3. QED
  BY <1>1, <1>2, PTL DEF Spec

(* No write makes a vault longer than kcalloc granted, whatever size an    *)
(* ioctl asks for, and the position of the open file stays an unsigned     *)
(* int, whatever lseek, read and write do.                                 *)
THEOREM ContentsTypeCorrect == Spec => []TypeOK
<1>1. RunsInv => TypeOK
  BY DEF RunsInv
<1>2. QED
  BY <1>1, RunsInvariant, PTL

(* A run of svctl that nobody interferes with and that reports success has *)
(* done all of its command.                                                *)
THEOREM RunsAreDone == Spec => []SvctlDone
<1>1. RunsInv => SvctlDone
  BY DEF RunsInv
<1>2. QED
  BY <1>1, RunsInvariant, PTL

(* svctl changes the vault it was started for and no other, an ioctl the   *)
(* vault it was asked for; none of them, and no open file, ever changes a  *)
(* vault of somebody else.                                                 *)
THEOREM RunsTouchTheirVault == Spec => OnlyMeant
<1>1. RunsInv /\ [Next]_vars =>
        [\A id \in Ids : vault'[id] # vault[id] =>
            /\ tool'.pc # tool.pc => /\ id = tool.target
                                     /\ vault[id].user \in {tool.user, Nobody}
            /\ file'.pos # file.pos => id = file.id /\ vault[id].user = file.user
            /\ VaultIoctl => id = file.id /\ vault[id].user = file.user
            /\ \A u \in Users, asked \in Ids : ControlIoctl(u, asked) =>
                  id = asked /\ vault[id].user \in {u, Nobody}
        ]_vars
  BY NextKeeps, IoctlsMean DEF Meant, IoctlsMeant
<1>2. QED
  BY <1>1, RunsInvariant, PTL DEF Spec, OnlyMeant

-----------------------------------------------------------------------------
(* What readers see is that of VaultContents.                              *)

TextStep == Contents!Next \/ UNCHANGED <<Owner, Text>>

LEMMA TextStays ==
    ASSUME TypeOK, TypeOK', vault' = vault
    PROVE  TextStep
<1>1. Owner' = Owner
  BY DEF Owner
<1>2. Text = Data /\ Text' = Data'
  BY TextIs, TextIsNext DEF TextIsData
<1>3. QED
  BY <1>1, <1>2 DEF Data, TextStep

(* A vault that changes, with what a reader sees of it.                    *)
LEMMA TextPuts ==
    ASSUME TypeOK, TypeOK', NEW id \in Ids, NEW v, Puts(id, v)
    PROVE  /\ Owner' = [Owner EXCEPT ![id] = v.user]
           /\ Text' = [Text EXCEPT ![id] = v.data]
           /\ v.user = vault[id].user => Owner' = Owner
           /\ v.data = vault[id].data => Text' = Text
           /\ Owner[id] = vault[id].user /\ Text[id] = vault[id].data
           /\ DOMAIN Text[id] = 1 .. Size(id) /\ Len(Text[id]) = Size(id)
<1>1. /\ \A i \in Ids : i # id => vault'[i] = vault[i]
      /\ vault'[id] = v
  BY PutsKeeps
<1>2. Text = Data /\ Text' = Data'
  BY TextIs, TextIsNext DEF TextIsData
<1>3. Owner' = [Owner EXCEPT ![id] = v.user]
  BY <1>1 DEF Owner
<1>4. Data' = [Data EXCEPT ![id] = v.data]
  BY <1>1 DEF Data
<1>5. v.user = vault[id].user => Owner' = Owner
  BY <1>1 DEF Owner
<1>6. v.data = vault[id].data => Data' = Data
  BY <1>1 DEF Data
<1>7. Owner[id] = vault[id].user /\ Data[id] = vault[id].data
  BY DEF Owner, Data
<1>8. DOMAIN vault[id].data = 1 .. Size(id) /\ Len(vault[id].data) = Size(id)
  BY DataIs
<1>9. QED
  BY <1>2, <1>3, <1>4, <1>5, <1>6, <1>7, <1>8

(* New data for a vault that somebody has.                                 *)
LEMMA TextBecomes ==
    ASSUME TypeOK, TypeOK', NEW u \in Users, NEW id \in Ids, Allowed(u, id),
           NEW v, Puts(id, v), v.user = u
    PROVE  Contents!Becomes(id, v.data)
<1>1. vault[id].user = u /\ u # Nobody
  BY AllowedIs
<1>2. /\ Text' = [Text EXCEPT ![id] = v.data] /\ Owner' = Owner
      /\ Owner[id] = u
  BY <1>1, TextPuts
<1>3. QED
  BY <1>1, <1>2 DEF Contents!Becomes

LEMMA KeyMixes ==
    ASSUME TypeOK, TypeOK', NEW u \in Users, NEW id \in Ids, NEW key \in Keys,
           NEW ok \in BOOLEAN, ChangeKey(u, id, key, ok)
    PROVE  TextStep
<1>1. CASE vault' = vault
  BY <1>1, TextStays
<1>2. ASSUME NEW v, Allowed(u, id), Rekeyed(u, id, key, ok, v)
      PROVE  TextStep
  <2>1. Puts(id, v) /\ v.user = u /\ vault[id].user = u
    BY <1>2, AllowedIs DEF Rekeyed
  <2>2. CASE ~ ok
    <3>1. v.data = vault[id].data
      BY <1>2, <2>2 DEF Rekeyed
    <3>2. QED
      BY <2>1, <3>1, TextPuts DEF TextStep
  <2>3. CASE ok
    <3>1. v.data = [p \in 1 .. Size(id) |->
                      (vault[id].data[p] + key[(p - 1) % KeySize]) % 2]
      BY <1>2, <2>3 DEF Rekeyed, Xor, KeyAt
    <3>2. Text[id] = vault[id].data /\ DOMAIN Text[id] = 1 .. Size(id)
      BY <2>1, TextPuts
    <3>3. Contents!Becomes(id, v.data)
      BY <1>2, <2>1, TextBecomes
    <3>4. Contents!Mix(id, key)
      BY <3>1, <3>2, <3>3 DEF Contents!Mix
    <3>5. key \in Contents!Keys
      BY DEF Keys, Byte, Contents!Keys, Contents!Byte
    <3>6. QED
      BY <3>4, <3>5 DEF Contents!Next, TextStep
  <2>4. QED
    BY <2>2, <2>3
<1>3. QED
  BY <1>1, <1>2, KeyPuts

LEMMA SizeResizes ==
    ASSUME TypeOK, TypeOK', NEW u \in Users, NEW id \in Ids,
           NEW n \in 0 .. PosLimit - 1, NEW ok \in BOOLEAN, ChangeSize(u, id, n, ok)
    PROVE  TextStep
<1> DEFINE d == Resized(vault[id].data, n)
           v == [vault[id] EXCEPT !.data = d]
<1>1. CASE vault' = vault
  BY <1>1, TextStays
<1>2. CASE Allowed(u, id) /\ n \in 1 .. MaxAlloc /\ Puts(id, v)
  <2>1. v.user = u /\ v.data = d
    BY <1>2, AllowedIs, DataIs DEF Vault
  <2>2. Contents!Becomes(id, d)
    <3> HIDE DEF v, d
    <3>1. QED
      BY <1>2, <2>1, TextBecomes
  <2>3. /\ Text[id] = vault[id].data /\ Len(Text[id]) = Size(id)
        /\ DOMAIN vault[id].data = 1 .. Size(id) /\ Size(id) \in Nat
    <3> HIDE DEF v
    <3>1. QED
      BY <1>2, TextPuts, DataIs, FileAssumption
  <2>4. d = [p \in 1 .. n |-> IF p <= Len(Text[id]) THEN Text[id][p] ELSE 0]
    <3>1. \A p \in 1 .. n : p \in 1 .. Size(id) <=> p <= Size(id)
      BY <2>3, FileAssumption
    <3>2. QED
      BY <2>3, <3>1 DEF Resized
  <2> HIDE DEF d
  <2>5. Contents!Resize(id, n)
    BY <2>2, <2>4 DEF Contents!Resize
  <2>6. QED
    BY <1>2, <2>5 DEF Contents!Next, TextStep
<1>3. QED
  BY <1>1, <1>2, SizePuts

LEMMA CleanCleans ==
    ASSUME TypeOK, TypeOK', NEW u \in Users, NEW id \in Ids, NEW ok \in BOOLEAN,
           Clean(u, id, ok)
    PROVE  TextStep
<1> DEFINE d == [p \in 1 .. Size(id) |-> 0]
           v == [vault[id] EXCEPT !.data = d]
<1>1. CASE vault' = vault
  BY <1>1, TextStays
<1>2. CASE Allowed(u, id) /\ Puts(id, v)
  <2>1. v.user = u /\ v.data = d
    BY <1>2, AllowedIs, DataIs DEF Vault
  <2>2. Contents!Becomes(id, d) /\ DOMAIN Text[id] = 1 .. Size(id)
    <3> HIDE DEF v, d
    <3>1. QED
      BY <1>2, <2>1, TextBecomes, TextPuts
  <2>3. Contents!Clean(id)
    BY <2>2 DEF Contents!Clean
  <2>4. QED
    BY <2>3 DEF Contents!Next, TextStep
<1>3. QED
  BY <1>1, <1>2, CleanPuts

LEMMA RequestShows ==
    ASSUME TypeOK, TypeOK', NEW u \in Users, NEW id \in Ids, VaultRequest(u, id)
    PROVE  TextStep
<1>1. PICK ok \in BOOLEAN :
        \/ \E key \in Keys : ChangeKey(u, id, key, ok)
        \/ \E n \in 0 .. PosLimit - 1 : ChangeSize(u, id, n, ok)
        \/ Clean(u, id, ok)
  BY DEF VaultRequest
<1>2. QED
  BY <1>1, KeyMixes, SizeResizes, CleanCleans

LEMMA CreateShows ==
    ASSUME TypeOK, TypeOK', NEW u \in Users, NEW id \in Ids, NEW ok \in BOOLEAN,
           Create(u, id, ok)
    PROVE  TextStep
<1> DEFINE v == [NoVault EXCEPT !.user = u]
<1>1. CASE vault' = vault
  BY <1>1, TextStays
<1>2. CASE ~ Exists(id) /\ Puts(id, v)
  <2>1. v.user = u /\ v.data = << >> /\ vault[id] = NoVault
    BY <1>2 DEF NoVault, Exists
  <2>2. vault[id].user = Nobody /\ vault[id].data = << >>
    BY <2>1, NoVaultIs
  <2> HIDE DEF v
  <2>3. /\ Owner' = [Owner EXCEPT ![id] = u] /\ Text' = Text
        /\ Owner[id] = Nobody
    BY <1>2, <2>1, <2>2, TextPuts
  <2>4. Contents!Create(id, u)
    BY <2>3 DEF Contents!Create
  <2>5. QED
    BY <2>4 DEF Contents!Next, TextStep
<1>3. QED
  BY <1>1, <1>2, CreatePuts

LEMMA RemoveShows ==
    ASSUME TypeOK, TypeOK', NEW u \in Users, NEW id \in Ids, NEW ok \in BOOLEAN,
           Remove(u, id, ok)
    PROVE  TextStep
<1>1. CASE vault' = vault
  BY <1>1, TextStays
<1>2. CASE Puts(id, NoVault)
  <2>1. Owner' = [Owner EXCEPT ![id] = Nobody] /\ Text' = [Text EXCEPT ![id] = << >>]
    BY <1>2, TextPuts, NoVaultIs
  <2>2. Contents!Remove(id)
    BY <2>1 DEF Contents!Remove
  <2>3. QED
    BY <2>2 DEF Contents!Next, TextStep
<1>3. QED
  BY <1>1, <1>2, RemovePuts

LEMMA WriteShows ==
    ASSUME TypeOK, TypeOK', FileInv,
           NEW n \in 1 .. MaxAlloc, NEW bytes \in [1 .. n -> Byte], Write(bytes)
    PROVE  TextStep
<1> DEFINE id == file.id
           d == Written(bytes)
           v == [vault[id] EXCEPT !.data = d]
           from == file.pos + 1
<1>1. /\ file.user \in Users /\ id \in Ids /\ vault[id].user = file.user
      /\ Len(bytes) = n /\ file.pos + n <= Size(id) /\ file.pos \in Nat
      /\ Puts(id, v)
  BY WritePuts
<1>2. v.user = file.user /\ v.data = d /\ Allowed(file.user, id)
  <2>1. vault[id] \in Vault
    BY <1>1, DataIs
  <2> HIDE DEF d
  <2>2. QED
    BY <1>1, <2>1, AllowedIs DEF Vault
<1>3. Contents!Becomes(id, d)
  <2> HIDE DEF v, d, id
  <2>1. QED
    BY <1>1, <1>2, TextBecomes
<1>4. /\ Text[id] = vault[id].data /\ DOMAIN Text[id] = 1 .. Size(id)
      /\ Len(Text[id]) = Size(id) /\ Size(id) \in 0 .. MaxAlloc /\ MaxAlloc \in Nat
  <2> HIDE DEF v, id
  <2>1. QED
    BY <1>1, TextPuts, DataIs, FileAssumption
<1>5. from \in 1 .. MaxAlloc /\ from + n - 1 <= Size(id) /\ from \in Nat
  <2> HIDE DEF v, d, id
  <2>1. QED
    BY <1>1, <1>4
<1>6. d = [p \in DOMAIN Text[id] |->
             IF p \in from .. from + Len(bytes) - 1
             THEN bytes[p - from + 1] ELSE Text[id][p]]
  <2>1. \A p \in 1 .. Size(id) : /\ p - file.pos \in 1 .. n
                                      <=> p \in from .. from + n - 1
                                 /\ p - file.pos = p - from + 1
    <3> HIDE DEF v, d, id
    <3>1. QED
      BY <1>1, <1>4
  <2>2. d = [p \in 1 .. Size(id) |->
               IF p \in from .. from + n - 1
               THEN bytes[p - from + 1] ELSE vault[id].data[p]]
    BY <1>1, <2>1 DEF Written
  <2>3. QED
    BY <1>1, <1>4, <2>2
<1> HIDE DEF d, id, v
<1>7. Contents!Write(id, from, bytes)
  <2>1. from + Len(bytes) - 1 <= Len(Text[id])
    BY <1>1, <1>4, <1>5
  <2>2. QED
    BY <1>3, <1>6, <2>1 DEF Contents!Write
<1>8. bytes \in [1 .. n -> Contents!Byte]
  BY DEF Byte, Contents!Byte
<1> HIDE DEF from
<1>9. QED
  BY <1>1, <1>5, <1>7, <1>8 DEF Contents!Next, TextStep

LEMMA StepShows ==
    ASSUME RunsInv, RunsInv', [Next]_vars
    PROVE  TextStep
<1> USE DEF RunsInv
<1>1. CASE vault' = vault
  BY <1>1, TextStays
<1>2. CASE Unload
  <2>1. vault' = [id \in Ids |-> NoVault]
    BY <1>2 DEF Unload, CleanedUp
  <2>2. Text' = Data'
    BY TextIsNext DEF TextIsData
  <2>3. Contents!Forget
    BY <2>1, <2>2, NoVaultIs DEF Owner, Data, Contents!Forget
  <2>4. QED
    BY <2>3 DEF Contents!Next, TextStep
<1>3. ASSUME NEW u \in Users, NEW id \in Ids, ControlIoctl(u, id) PROVE TextStep
  BY <1>3, RequestShows, CreateShows, RemoveShows DEF ControlIoctl
<1>4. CASE VaultIoctl
  BY <1>4, RequestShows DEF VaultIoctl, Opened, FileInv
<1>5. ASSUME NEW n \in 1 .. MaxAlloc, NEW bytes \in [1 .. n -> Byte], Write(bytes)
      PROVE  TextStep
  BY <1>5, WriteShows
<1>6. CASE CreateVault \/ SetSize \/ EnterKey \/ CleanVault \/ RemoveVault
  <2>1. tool.pc # "idle"
    BY <1>6 DEF CreateVault, SetSize, EnterKey, CleanVault, RemoveVault
  <2>2. /\ tool.user \in Users /\ Selected \in Ids
        /\ tool.param \in 0 .. PosLimit - 1
    BY <2>1, RunIs
  <2>3. CASE CreateVault
    BY <2>2, <2>3, CreateShows DEF CreateVault
  <2>4. CASE SetSize
    BY <2>2, <2>4, SizeResizes DEF SetSize
  <2>5. CASE EnterKey
    BY <2>2, <2>5, KeyMixes DEF EnterKey
  <2>6. CASE CleanVault
    BY <2>2, <2>6, CleanCleans DEF CleanVault
  <2>7. CASE RemoveVault
    BY <2>2, <2>7, RemoveShows DEF RemoveVault
  <2>8. QED
    BY <1>6, <2>3, <2>4, <2>5, <2>6, <2>7
<1>7. QED
  BY <1>1, <1>2, <1>3, <1>4, <1>5, <1>6
     DEF Next, Svctl, vars, Load, Open, Release, Llseek, Read, Start,
         CheckExists, Interrupted, NextRun

(* Through every mixture of seeks, partial writes, changes of size and     *)
(* key, removals and creations, readers see the texts of VaultContents.    *)
THEOREM ContentsImplemented == Spec => ImplementsContents
<1>1. Init => Contents!Init
  <2> SUFFICES ASSUME Init PROVE Contents!Init
    OBVIOUS
  <2>1. vault = [id \in Ids |-> NoVault]
    BY DEF Init
  <2>2. TypeOK
    <3>1. VaultTypes
      BY <2>1, NoVaultIs DEF VaultTypes
    <3>2. FileTypes /\ ToolTypes
      BY FileAssumption DEF Init, FileTypes, Closed, ToolTypes, Idle
    <3>3. QED
      BY <3>1, <3>2, TypesAre DEF Init
  <2>3. Text = Data
    BY <2>2, TextIs DEF TextIsData
  <2>4. QED
    BY <2>1, <2>3, NoVaultIs DEF Owner, Data, Contents!Init
<1>2. RunsInv /\ RunsInv' /\ [Next]_vars => [Contents!Next]_<<Owner, Text>>
  BY StepShows DEF TextStep
<1>3. QED
  BY <1>1, <1>2, RunsInvariant, PTL
     DEF Spec, ImplementsContents, Contents!Spec

================================================================================
