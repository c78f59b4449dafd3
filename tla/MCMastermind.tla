----------------------------- MODULE MCMastermind ------------------------------
(* Values of the constants of Mastermind for TLC.                          *)
EXTENDS Mastermind

(* Nothing, a victory, and both errors.                                    *)
MCGarbage ==
    {[red |-> r, white |-> 0, parityError |-> e, lost |-> e] :
        r \in {0, Slots}, e \in BOOLEAN}
=============================================================================
