------------------------------ MODULE VaultContents ----------------------------
(***************************************************************************)
(* What the vaults promise about their contents: a vault has an owner and  *)
(* a text of some length. Writing changes the bytes it names and no        *)
(* others, a change of the size keeps what still fits and adds zeros, a    *)
(* change of the key mixes the new key into every byte (and the old key    *)
(* out of none), cleaning leaves zeros, and a vault starts and ends empty. *)
(* All of them may be forgotten at once.                                   *)
(***************************************************************************)
EXTENDS Integers, Sequences

CONSTANTS Ids, Users, Nobody, KeySize, MaxSize

Byte == {0, 1}
Keys == [0 .. KeySize - 1 -> Byte]

VARIABLES owner, text

Init ==
    /\ owner = [id \in Ids |-> Nobody]
    /\ text = [id \in Ids |-> << >>]

Create(id, u) ==
    /\ owner[id] = Nobody
    /\ owner' = [owner EXCEPT ![id] = u]
    /\ UNCHANGED text

Remove(id) ==
    /\ owner' = [owner EXCEPT ![id] = Nobody]
    /\ text' = [text EXCEPT ![id] = << >>]

Forget ==
    /\ owner' = [id \in Ids |-> Nobody]
    /\ text' = [id \in Ids |-> << >>]

Becomes(id, new) ==
    /\ owner[id] # Nobody
    /\ text' = [text EXCEPT ![id] = new]
    /\ UNCHANGED owner

Resize(id, n) ==
    Becomes(id, [p \in 1 .. n |-> IF p <= Len(text[id]) THEN text[id][p] ELSE 0])

Write(id, from, bytes) ==
    /\ from + Len(bytes) - 1 <= Len(text[id])
    /\ Becomes(id, [p \in DOMAIN text[id] |->
                       IF p \in from .. from + Len(bytes) - 1
                       THEN bytes[p - from + 1] ELSE text[id][p]])

Mix(id, key) ==
    Becomes(id, [p \in DOMAIN text[id] |->
                    (text[id][p] + key[(p - 1) % KeySize]) % 2])

Clean(id) == Becomes(id, [p \in DOMAIN text[id] |-> 0])

Next ==
    \/ Forget
    \/ \E id \in Ids :
          \/ \E u \in Users : Create(id, u)
          \/ Remove(id) \/ Clean(id)
          \/ \E n \in 1 .. MaxSize : Resize(id, n)
          \/ \E key \in Keys : Mix(id, key)
          \/ \E from \in 1 .. MaxSize, n \in 1 .. MaxSize :
                \E bytes \in [1 .. n -> Byte] : Write(id, from, bytes)

Spec == Init /\ [][Next]_<<owner, text>>
=============================================================================
