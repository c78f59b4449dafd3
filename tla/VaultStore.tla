------------------------------ MODULE VaultStore -------------------------------
(***************************************************************************)
(* What the secure vault module promises: numbered vaults that are created *)
(* once, count the files that are open on them, and are removed only while *)
(* there is none.                                                          *)
(***************************************************************************)
EXTENDS Naturals

CONSTANTS
    Ids,        \* vault numbers
    Absent      \* no vault has the number

VARIABLE open   \* open files of every vault, or Absent

Init == open = [id \in Ids |-> Absent]

Create(id) ==
    /\ open[id] = Absent
    /\ open' = [open EXCEPT ![id] = 0]

Remove(id) ==
    /\ open[id] = 0
    /\ open' = [open EXCEPT ![id] = Absent]

Open(id) ==
    /\ open[id] # Absent
    /\ open' = [open EXCEPT ![id] = @ + 1]

Close(id) ==
    /\ open[id] \notin {Absent, 0}
    /\ open' = [open EXCEPT ![id] = @ - 1]

Next == \E id \in Ids : Create(id) \/ Remove(id) \/ Open(id) \/ Close(id)

Spec == Init /\ [][Next]_open
=============================================================================
