---------------------------- MODULE MastermindAnswer ---------------------------
(***************************************************************************)
(* Codes, guesses and answers of the Mastermind game (Beispiel 1B), as     *)
(* both programs compute them.                                             *)
(***************************************************************************)
EXTENDS Naturals, FiniteSets

CONSTANTS
    Slots,      \* SLOTS, 5 in the code
    ColorBits   \* SHIFT_WIDTH, 3 in the code

ASSUME AnswerAssumption == Slots \in Nat \ {0} /\ ColorBits \in Nat \ {0}

(* COLORS is 2^SHIFT_WIDTH: every three bits are a color.                  *)
Colors == 0 .. 2 ^ ColorBits - 1

(* Both programs keep five colors in one uint16_t, color L lowest.         *)
Codes == [1 .. Slots -> Colors]

(* beige, darkblue, green, ...                                             *)
InitialGuess == [j \in 1 .. Slots |-> (j - 1) % 2 ^ ColorBits]

(* The client xors 15 bits, the server the bits of each color.             *)
Parity(code) ==
    Cardinality({p \in (1 .. Slots) \X (0 .. ColorBits - 1) :
                   (code[p[1]] \div 2 ^ p[2]) % 2 = 1}) % 2

Answers == [red : 0 .. Slots, white : 0 .. Slots,
            parityError : BOOLEAN, lost : BOOLEAN]

Reds(guess, secret) == {j \in 1 .. Slots : guess[j] = secret[j]}

(* Entry c of colors_left after the first loop.                            *)
ColorsLeft(c, guess, secret) ==
    Cardinality({j \in 1 .. Slots \ Reds(guess, secret) : secret[j] = c})

(* Wrong: colors_left is not decremented.                                  *)
WhitesUncounted(guess, secret) ==
    {j \in 1 .. Slots \ Reds(guess, secret) :
       ColorsLeft(guess[j], guess, secret) > 0}

(* Slot j counts unless earlier slots have used its color up.              *)
Whites(guess, secret) ==
    LET rest == 1 .. Slots \ Reds(guess, secret)
    IN  {j \in rest :
           Cardinality({i \in rest : i < j /\ guess[i] = guess[j]})
               < ColorsLeft(guess[j], guess, secret)}

(* compute_answer without status bits; a table, for speed.                 *)
Matches ==
    [pair \in Codes \X Codes |->
        [red |-> Cardinality(Reds(pair[1], pair[2])),
         white |-> Cardinality(Whites(pair[1], pair[2]))]]
=============================================================================
