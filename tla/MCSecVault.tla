------------------------------ MODULE MCSecVault -------------------------------
(* Small instances of SecVault for TLC.                                    *)
EXTENDS SecVault, TLC

CONSTANTS t1, t2, t3

MCTwo == {t1, t2}
MCThree == {t1, t2, t3}

(* Two threads of one user and one of another.                             *)
MCUser2 == (t1 :> 1) @@ (t2 :> 1)
MCUser3 == (t1 :> 1) @@ (t2 :> 1) @@ (t3 :> 2)

Symmetry == Permutations({t1, t2})
=============================================================================
