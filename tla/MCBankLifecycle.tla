---------------------------- MODULE MCBankLifecycle ----------------------------
(* Values of the constants of BankLifecycle for TLC.                       *)
EXTENDS BankLifecycle, TLC

CONSTANTS s1, s2

MCServers == {s1, s2}

MCOpening == <<[nr |-> 1, balance |-> 1], [nr |-> 2, balance |-> 0]>>

Symmetry == Permutations(MCServers)
=============================================================================
