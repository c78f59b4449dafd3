-------------------------------- MODULE MCBank --------------------------------
(* Values of the constants of Bank for TLC.                                *)
EXTENDS Bank, TLC

CONSTANTS c1, c2

MCClients == {c1, c2}

(* Only in runs without liveness properties.                               *)
Symmetry == Permutations(Clients)

(* With account 0, which the server invents, there are two records.        *)
MCAccounts == {1}

(* The invented account, the one of the file, and an unknown one.          *)
MCAccountArgs == {0, 1, 2}

(* A negative amount, and one that the balance covers once, and that makes *)
(* it overflow when it is credited.                                        *)
MCAmounts == {-1, 4}

MCOpening == [a \in MCAccounts |-> 4]

MCGarbage == {3}
=============================================================================
