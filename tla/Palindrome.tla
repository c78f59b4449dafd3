------------------------------- MODULE Palindrome ------------------------------
(***************************************************************************)
(* ispalindrom (Beispiel 1A): the options, the loop that reads lines into  *)
(* one buffer, and the comparison of its two ends, with SIGINT at any      *)
(* moment.                                                                 *)
(*                                                                         *)
(* pc is args (parseArguments), loop (the test of while), read (in fgetc), *)
(* strip (after the reading loop), check (in isStringPalindrom) or exit.   *)
(* got and ending record what fgetc returned in this round.                *)
(***************************************************************************)
EXTENDS Integers, SequencesExt

CONSTANTS
    MaxInputLen,        \* MAX_INPUT_LEN, 40 in the code
    Chars,              \* what the user types, without the newline
    Space,
    Newline, Nul,       \* '\n' and '\0'
    Lower,              \* tolower, a function
    Outside,            \* what a byte next to the buffer may hold
    MaxArgs             \* how many options there are (a bound)

ASSUME PalindromeAssumption ==
    /\ MaxInputLen \in Nat \ {0}
    /\ Space \in Chars /\ Newline \notin Chars /\ Nul \notin Chars
    /\ Newline # Nul
    /\ Lower \in [Chars \union {Newline, Nul} \union Outside ->
                  Chars \union {Newline, Nul} \union Outside]
    /\ MaxArgs \in Nat

VARIABLES
    argv, words,                    \* options left; are there other arguments?
    ignoreSpace, ignoreCase, readFromInput,
    pc, ret,
    input, currentInput,            \* the buffer, from calloc to exit
    i, offsetBegin, offsetEnd,      \* of isStringPalindrom
    answer,                         \* the last line printed
    got, ending

optVars == <<argv, words, ignoreSpace, ignoreCase>>
loopVars == <<i, offsetBegin, offsetEnd>>
history == <<got, ending>>
vars == <<optVars, readFromInput, pc, ret, input, currentInput, loopVars,
          answer, history>>

Bytes == Chars \union {Newline, Nul}

TypeOK ==
    /\ ignoreSpace \in BOOLEAN /\ ignoreCase \in BOOLEAN
    /\ readFromInput \in BOOLEAN /\ words \in BOOLEAN
    /\ argv \in Seq({"s", "i", "unknown"})
    /\ pc \in {"args", "loop", "read", "strip", "check", "exit"}
    /\ ret \in {"none", "success", "failure", "killed"}
    /\ input \in [0 .. MaxInputLen + 1 -> Bytes]
    /\ currentInput \in 0 .. MaxInputLen + 1
    /\ i \in Nat /\ offsetBegin \in Nat /\ offsetEnd \in Nat
    /\ answer \in {"none", "refused", "ignored", "yes", "no"}
    /\ got \in Seq(Chars)
    /\ ending \in {"none", "newline", "eof", "full"}

Init ==
    /\ argv \in BoundedSeq({"s", "i", "unknown"}, MaxArgs)
    /\ words \in BOOLEAN
    /\ ignoreSpace = FALSE /\ ignoreCase = FALSE
    /\ readFromInput = TRUE
    /\ pc = "args" /\ ret = "none"
    /\ input = [k \in 0 .. MaxInputLen + 1 |-> Nul]
    /\ currentInput = 0
    /\ i = 0 /\ offsetBegin = 0 /\ offsetEnd = 0
    /\ answer = "none" /\ got = << >> /\ ending = "none"

Exit(status) == pc' = "exit" /\ ret' = status

(***************************************************************************)
(* parseArguments                                                          *)
(***************************************************************************)

(* One pass of the loop over getopt; an option given twice is an error.    *)
ParseOption ==
    /\ pc = "args" /\ argv # << >>
    /\ LET opt == Head(argv)
           again == \/ opt = "s" /\ ignoreSpace
                    \/ opt = "i" /\ ignoreCase
       IN  IF again \/ opt = "unknown"
           THEN /\ Exit("failure")
                /\ UNCHANGED optVars
           ELSE /\ argv' = Tail(argv)
                /\ ignoreSpace' = (ignoreSpace \/ opt = "s")
                /\ ignoreCase' = (ignoreCase \/ opt = "i")
                /\ UNCHANGED <<words, pc, ret>>
    /\ UNCHANGED <<readFromInput, input, currentInput, loopVars, answer,
                   history>>

(* The check for other arguments; then the handler and the buffer.         *)
ParseDone ==
    /\ pc = "args" /\ argv = << >>
    /\ IF words THEN Exit("failure") ELSE pc' = "loop" /\ UNCHANGED ret
    /\ UNCHANGED <<optVars, readFromInput, input, currentInput, loopVars,
                   answer, history>>

(***************************************************************************)
(* The loop of main                                                        *)
(***************************************************************************)

(* memset clears one byte only: the others still hold older lines.         *)
NextLine ==
    /\ pc = "loop"
    /\ IF readFromInput
       THEN /\ pc' = "read"
            /\ input' = [input EXCEPT ![0] = Nul]
            /\ currentInput' = 0 /\ answer' = "none"
            /\ got' = << >> /\ ending' = "none"
            /\ UNCHANGED ret
       ELSE /\ Exit("success")
            /\ UNCHANGED <<input, currentInput, answer, history>>
    /\ UNCHANGED <<optVars, readFromInput, loopVars>>

(* One byte beyond MAX_INPUT_LEN shows that the line is too long.          *)
TooLong(n) == n > MaxInputLen

ReadChar(c) ==
    /\ pc = "read"
    /\ input' = [input EXCEPT ![currentInput] = c]
    /\ currentInput' = currentInput + 1
    /\ got' = Append(got, c)
    /\ IF TooLong(currentInput')
       THEN pc' = "strip" /\ ending' = "full"
       ELSE UNCHANGED <<pc, ending>>
    /\ UNCHANGED <<optVars, readFromInput, ret, loopVars, answer>>

ReadNewline ==
    /\ pc = "read"
    /\ input' = [input EXCEPT ![currentInput] = Newline]
    /\ currentInput' = currentInput + 1
    /\ ending' = "newline" /\ pc' = "strip"
    /\ UNCHANGED <<optVars, readFromInput, ret, loopVars, answer, got>>

(* fgetc returns EOF: an empty line ends the program.                      *)
Eof ==
    /\ pc = "read"
    /\ IF currentInput = 0
       THEN Exit("success") /\ UNCHANGED ending
       ELSE pc' = "strip" /\ ending' = "eof" /\ UNCHANGED ret
    /\ UNCHANGED <<optVars, input, currentInput, loopVars, answer, got>>

ReadEof == Eof /\ UNCHANGED readFromInput

(* Wrong: the newline stays, and the terminator goes behind it.            *)
CutBehind == [input EXCEPT ![currentInput] = Nul]

(* input[ --currentInput ] = '\0'                                          *)
Cut == [input EXCEPT ![currentInput - 1] = Nul]

(* The last byte goes, newline or not. What is left may be too long (the   *)
(* rest of it is the next line), nothing, or ready for isStringPalindrom.  *)
Strip ==
    /\ pc = "strip"
    /\ currentInput' = currentInput - 1
    /\ input' = Cut
    /\ pc' = IF currentInput' \in 1 .. MaxInputLen - 1 THEN "check"
                                                       ELSE "loop"
    /\ answer' = CASE currentInput' >= MaxInputLen -> "refused"
                   [] currentInput' = 0 -> "ignored"
                   [] OTHER -> answer
    /\ i' = 0 /\ offsetBegin' = 0 /\ offsetEnd' = 0
    /\ UNCHANGED <<optVars, readFromInput, ret, history>>

(***************************************************************************)
(* isStringPalindrom                                                       *)
(***************************************************************************)

strlen == CHOOSE k \in DOMAIN input :
              input[k] = Nul /\ \A m \in 0 .. k - 1 : input[m] # Nul

length == strlen - 1

At(k) == IF k \in DOMAIN input THEN {input[k]} ELSE Outside

beginIndex == i + offsetBegin
endIndex == length - i - offsetEnd

Checking == pc = "check" /\ i <= length \div 2

checkVars == <<optVars, readFromInput, ret, input, currentInput, history>>

(* Wrong: the index is set back, but the offset does not move.             *)
SkipBeginStuck ==
    /\ Checking /\ ignoreSpace /\ Space \in At(beginIndex)
    /\ UNCHANGED <<offsetBegin, i, offsetEnd, pc, answer, checkVars>>

(* i-- and i++ cancel out: only the offset moves.                          *)
SkipBegin ==
    /\ Checking /\ ignoreSpace /\ Space \in At(beginIndex)
    /\ offsetBegin' = offsetBegin + 1
    /\ UNCHANGED <<i, offsetEnd, pc, answer, checkVars>>

SkipEnd ==
    /\ Checking /\ ignoreSpace /\ Space \in At(endIndex)
    /\ \E begin \in At(beginIndex) : begin # Space
    /\ offsetEnd' = offsetEnd + 1
    /\ UNCHANGED <<i, offsetBegin, pc, answer, checkVars>>

Folded(c) == IF ignoreCase THEN Lower[c] ELSE c

(* Characters that do not match end the loop.                              *)
Compare ==
    /\ Checking
    /\ \E begin \in At(beginIndex), end \in At(endIndex) :
          /\ ignoreSpace => begin # Space /\ end # Space
          /\ IF Folded(begin) = Folded(end)
             THEN i' = i + 1 /\ UNCHANGED <<pc, answer>>
             ELSE pc' = "loop" /\ answer' = "no" /\ UNCHANGED i
    /\ UNCHANGED <<offsetBegin, offsetEnd, checkVars>>

(* return true, and main prints it.                                        *)
AllMatched ==
    /\ pc = "check" /\ i > length \div 2
    /\ pc' = "loop" /\ answer' = "yes"
    /\ UNCHANGED <<loopVars, checkVars>>

(***************************************************************************)
(* signalHandler. SIGINT before it is installed kills. sa_flags is not     *)
(* initialised: a signal during fgetc either restarts the read or makes    *)
(* fgetc return EOF.                                                       *)
(***************************************************************************)

Sigint ==
    /\ pc # "exit" /\ readFromInput
    /\ IF pc = "args"
       THEN Exit("killed") /\ UNCHANGED readFromInput
       ELSE readFromInput' = FALSE /\ UNCHANGED <<pc, ret>>
    /\ UNCHANGED <<optVars, input, currentInput, loopVars, answer, history>>

SigintInRead == readFromInput /\ readFromInput' = FALSE /\ Eof

Program ==
    \/ ParseOption \/ ParseDone \/ NextLine
    \/ ReadNewline \/ ReadEof \/ (\E c \in Chars : ReadChar(c))
    \/ Strip \/ SkipBegin \/ SkipEnd \/ Compare \/ AllMatched

Next == Program \/ Sigint \/ SigintInRead

(* The program is scheduled, and whoever holds stdin goes on typing.       *)
Spec == Init /\ [][Next]_vars /\ WF_vars(Program)

(***************************************************************************)
(* Properties                                                              *)
(***************************************************************************)

(* The places of the letters of s: all of them, or all but the spaces.      *)
Letters(s) == {p \in 1 .. Len(s) : ignoreSpace => s[p] # Space}

(* How many of the letters L are in front of place p, and behind it.       *)
Before(L, p) == Cardinality({q \in L : q < p})
After(L, p) == Cardinality({q \in L : q > p})

Alike(s, p, q) == Folded(s[p]) = Folded(s[q])

(* Every letter is like the one that has the same number from the end.     *)
IsPalindrome(s) ==
    \A p, q \in Letters(s) :
        Before(Letters(s), p) = After(Letters(s), q) => Alike(s, p, q)

(* The loop compares one pair for every two characters of the line, spaces *)
(* included: it needs letters enough for that.                             *)
EnoughLetters(s) == 2 * Cardinality(Letters(s)) >= Len(s)

(* The right answer to a line: an empty one is passed over.                *)
Verdict(s) == IF s = << >> THEN "ignored"
              ELSE IF IsPalindrome(s) THEN "yes" ELSE "no"

(* A line that ends with a newline gets the answer of the definition,      *)
(* under both options and whatever older lines left in the buffer; and     *)
(* what is longer than MAX_INPUT_LEN is refused, nothing shorter is. It    *)
(* says nothing where the program errs: of a line of exactly MAX_INPUT_LEN *)
(* characters, which is refused although the message allows it             *)
(* (ispalindrom.c:136-137); of a last line without a newline, whose last   *)
(* character is cut off in its place (ispalindrom.c:133); of a line with   *)
(* more spaces than letters under -s, of which the loop compares too many  *)
(* pairs (ispalindrom.c:175).                                              *)
VerdictRight ==
    answer # "none" =>
        /\ ending = "newline" /\ Len(got) < MaxInputLen /\ EnoughLetters(got)
              => answer = Verdict(got)
        /\ Len(got) > MaxInputLen => answer = "refused"
        /\ answer = "refused" => Len(got) >= MaxInputLen

(* After a SIGINT the program ends, whatever line it is reading or         *)
(* comparing.                                                              *)
EndsAfterSigint == ~readFromInput ~> pc = "exit"

(***************************************************************************)
(* What makes VerdictRight inductive                                       *)
(***************************************************************************)

(* What Strip leaves of the input: a line up to its newline, or all but    *)
(* the last character.                                                     *)
Piece == IF ending = "newline" THEN got ELSE Front(got)

Holds(s) == \A m \in 1 .. Len(s) : input[m - 1] = s[m]

(* The buffer starts with what was read in this round, whatever older      *)
(* lines left behind it, and the line that is compared ends there.         *)
BufferInv ==
    /\ pc \in {"args", "read", "strip", "check"} => answer = "none"
    /\ pc = "read" =>
          currentInput = Len(got) /\ Len(got) <= MaxInputLen /\ Holds(got)
    /\ pc = "strip" =>
          /\ currentInput = Len(got) + (IF ending = "newline" THEN 1 ELSE 0)
          /\ currentInput >= 1 /\ Holds(got)
    /\ pc = "check" =>
          /\ currentInput = Len(Piece) /\ Len(Piece) \in 1 .. MaxInputLen - 1
          /\ Holds(Piece) /\ input[Len(Piece)] = Nul

(* Both ends have passed the same number of letters, and the letters that  *)
(* the front has passed are like their counterparts.                       *)
WalkInv ==
    pc = "check" /\ EnoughLetters(Piece) =>
        LET L == Letters(Piece)
            front == i + offsetBegin
            back == Len(Piece) + 1 - i - offsetEnd
        IN  /\ front <= Len(Piece) /\ back >= 1
            /\ Before(L, front + 1) = i /\ After(L, back - 1) = i
            /\ \A p, q \in L : p <= front /\ Before(L, p) = After(L, q) =>
                                 Alike(Piece, p, q)

(* The answer to what Strip has left.                                      *)
PieceAnswer(s) ==
    CASE Len(s) >= MaxInputLen -> "refused"
      [] Len(s) = 0 -> "ignored"
      [] OTHER -> IF IsPalindrome(s) THEN "yes" ELSE "no"

AnswerInv ==
    answer # "none" =>
        /\ answer = "refused" <=> Len(Piece) >= MaxInputLen
        /\ EnoughLetters(Piece) => answer = PieceAnswer(Piece)

PalindromeInv == TypeOK /\ BufferInv /\ WalkInv /\ AnswerInv

=============================================================================
