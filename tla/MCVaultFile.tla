------------------------------- MODULE MCVaultFile -----------------------------
(* Values of the constants of VaultFile for TLC.                           *)
EXTENDS VaultFile, TLC

CONSTANTS u1, u2

MCUsers == {u1, u2}
Symmetry == Permutations(MCUsers)

(* The limits, and what a byte makes of larger numbers.                    *)
MCTargets == -1 .. TargetLimit
=============================================================================
