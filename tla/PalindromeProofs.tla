---------------------------- MODULE PalindromeProofs ---------------------------
(***************************************************************************)
(* Whatever is typed, in lines of any length, with either option, and      *)
(* whenever SIGINT comes: the line that isStringPalindrom gets is the one  *)
(* just read, and its answer is the definition's, if the line has letters  *)
(* enough. Letters are identified by how many are in front of them, or     *)
(* behind them: no two letters have the same number.                       *)
(***************************************************************************)
EXTENDS Palindrome, FiniteSetTheorems, TLAPS

-----------------------------------------------------------------------------
(* Numbering the letters, of which L are the places in a line of length n  *)

LEMMA LettersFinite ==
    ASSUME NEW n \in Nat, NEW L, L \subseteq 1 .. n
    PROVE  /\ IsFiniteSet(L) /\ Cardinality(L) \in Nat
           /\ \A p \in Int : /\ IsFiniteSet({q \in L : q < p})
                             /\ IsFiniteSet({q \in L : q > p})
                             /\ Before(L, p) \in Nat /\ After(L, p) \in Nat
<1>1. L \subseteq 1 .. n
  OBVIOUS
<1>2. IsFiniteSet(1 .. n)
  BY FS_Interval
<1>3. IsFiniteSet(L)
  BY <1>1, <1>2, FS_Subset
<1>4. ASSUME NEW p \in Int
      PROVE  /\ IsFiniteSet({q \in L : q < p})
             /\ IsFiniteSet({q \in L : q > p})
  <2>1. {q \in L : q < p} \subseteq L
    OBVIOUS
  <2>2. {q \in L : q > p} \subseteq L
    OBVIOUS
  <2>3. QED
    BY <2>1, <2>2, <1>3, FS_Subset
<1>5. QED
  BY <1>1, <1>3, <1>4, FS_CardinalityType DEF Before, After

(* A place adds one to the numbers of the letters behind it, or in front   *)
(* of it, if it is a letter itself.                                        *)
LEMMA RankStep ==
    ASSUME NEW n \in Nat, NEW L, L \subseteq 1 .. n, NEW p \in 1 .. n
    PROVE  /\ p \in L => /\ Before(L, p + 1) = Before(L, p) + 1
                         /\ After(L, p - 1) = After(L, p) + 1
           /\ p \notin L => /\ Before(L, p + 1) = Before(L, p)
                            /\ After(L, p - 1) = After(L, p)
<1>1. \A q \in L : /\ q < p + 1 <=> q < p \/ q = p
                   /\ q > p - 1 <=> q > p \/ q = p
  OBVIOUS
<1>2. CASE p \notin L
  <2>1. {q \in L : q < p + 1} = {q \in L : q < p}
    BY <1>1, <1>2, Zenon
  <2>2. {q \in L : q > p - 1} = {q \in L : q > p}
    BY <1>1, <1>2, Zenon
  <2>3. QED
    BY <1>2, <2>1, <2>2 DEF Before, After
<1>3. CASE p \in L
  <2>1. {q \in L : q < p + 1} = {q \in L : q < p} \union {p}
    BY <1>1, <1>3, Zenon
  <2>2. {q \in L : q > p - 1} = {q \in L : q > p} \union {p}
    BY <1>1, <1>3, Zenon
  <2>3. /\ IsFiniteSet({q \in L : q < p})
        /\ IsFiniteSet({q \in L : q > p})
    <3>1. p \in Int
      OBVIOUS
    <3>2. QED
      BY <3>1, LettersFinite
  <2>4. p \notin {q \in L : q < p} /\ p \notin {q \in L : q > p}
    OBVIOUS
  <2>5. /\ Cardinality({q \in L : q < p} \union {p})
              = Cardinality({q \in L : q < p}) + 1
        /\ Cardinality({q \in L : q > p} \union {p})
              = Cardinality({q \in L : q > p}) + 1
    BY <2>3, <2>4, FS_AddElement
  <2>6. QED
    BY <1>3, <2>1, <2>2, <2>5 DEF Before, After
<1>4. QED
  BY <1>2, <1>3

(* Numbers grow towards the other end.                                     *)
LEMMA RankMonotone ==
    ASSUME NEW n \in Nat, NEW L, L \subseteq 1 .. n,
           NEW p \in Int, NEW r \in Int, p <= r
    PROVE  Before(L, p) <= Before(L, r) /\ After(L, r) <= After(L, p)
<1>1. /\ IsFiniteSet({q \in L : q < r})
      /\ IsFiniteSet({q \in L : q > p})
  BY LettersFinite
<1>2. /\ {q \in L : q < p} \subseteq {q \in L : q < r}
      /\ {q \in L : q > r} \subseteq {q \in L : q > p}
  <2>1. \A q \in L : (q < p => q < r) /\ (q > r => q > p)
    OBVIOUS
  <2>2. QED
    BY <2>1, Zenon
<1>3. QED
  BY <1>1, <1>2, FS_Subset DEF Before, After

(* No two letters have the same number, counted from either end.           *)
LEMMA RankUnique ==
    ASSUME NEW n \in Nat, NEW L, L \subseteq 1 .. n,
           NEW p \in L, NEW r \in L, p < r
    PROVE  Before(L, p) < Before(L, r) /\ After(L, r) < After(L, p)
<1>1. p \in 1 .. n /\ r \in 1 .. n
  OBVIOUS
<1>2. Before(L, p + 1) = Before(L, p) + 1 /\ After(L, r - 1) = After(L, r) + 1
  BY <1>1, RankStep
<1>3. Before(L, p + 1) <= Before(L, r) /\ After(L, r - 1) <= After(L, p)
  <2>1. /\ p \in Int /\ p + 1 \in Int /\ r \in Int /\ r - 1 \in Int
        /\ p + 1 <= r /\ p <= r - 1
    BY <1>1
  <2>2. Before(L, p + 1) <= Before(L, r)
    BY <2>1, RankMonotone
  <2>3. After(L, r - 1) <= After(L, p)
    BY <2>1, RankMonotone
  <2>4. QED
    BY <2>2, <2>3
<1>4. /\ Before(L, p) \in Nat /\ Before(L, r) \in Nat
      /\ After(L, p) \in Nat /\ After(L, r) \in Nat
  <2>1. p \in Int /\ r \in Int
    BY <1>1
  <2>2. QED
    BY <2>1, LettersFinite
<1>5. QED
  BY <1>2, <1>3, <1>4

(* At the ends, all letters are on one side.                               *)
LEMMA RankEnds ==
    ASSUME NEW n \in Nat, NEW L, L \subseteq 1 .. n
    PROVE  /\ Before(L, 1) = 0 /\ Before(L, n + 1) = Cardinality(L)
           /\ After(L, n) = 0 /\ After(L, 0) = Cardinality(L)
<1>1. \A q \in L : ~(q < 1) /\ ~(q > n) /\ q < n + 1 /\ q > 0
  OBVIOUS
<1>2. {q \in L : q < 1} = {} /\ {q \in L : q > n} = {}
  BY <1>1, Zenon
<1>3. {q \in L : q < n + 1} = L /\ {q \in L : q > 0} = L
  BY <1>1, Zenon
<1>4. QED
  BY <1>2, <1>3, FS_EmptySet DEF Before, After

(* The two numbers of a letter count all letters but itself.               *)
LEMMA RankSum ==
    ASSUME NEW n \in Nat, NEW L, L \subseteq 1 .. n, NEW p \in L
    PROVE  Before(L, p) + After(L, p) + 1 = Cardinality(L)
<1> DEFINE B == {q \in L : q < p}
           A == {q \in L : q > p}
<1>1. p \in 1 .. n /\ L \subseteq 1 .. n
  OBVIOUS
<1>2. IsFiniteSet(B) /\ IsFiniteSet(A) /\ IsFiniteSet(B \union A)
  <2>1. IsFiniteSet(B) /\ IsFiniteSet(A)
    <3>1. p \in Int
      BY <1>1
    <3>2. QED
      BY <3>1, LettersFinite
  <2>2. QED
    BY <2>1, FS_Union
<1>3. B \intersect A = {} /\ p \notin B \union A /\ L = (B \union A) \union {p}
  <2>1. \A q \in L : ~(q < p /\ q > p) /\ (q < p \/ q > p <=> q # p)
    BY <1>1
  <2>2. QED
    BY <2>1, Zenon
<1>4. Cardinality(L) = Cardinality(B \union A) + 1
  BY <1>2, <1>3, FS_AddElement
<1>5. Cardinality(B \union A) = Cardinality(B) + Cardinality(A)
  <2>1. Cardinality(B \union A)
           = Cardinality(B) + Cardinality(A) - Cardinality(B \intersect A)
    BY <1>2, FS_Union
  <2>2. Cardinality(B \intersect A) = 0
    BY <1>3, FS_EmptySet
  <2>3. Cardinality(B) \in Nat /\ Cardinality(A) \in Nat
    BY <1>2, FS_CardinalityType
  <2>4. QED
    BY <2>1, <2>2, <2>3
<1>6. QED
  BY <1>2, <1>4, <1>5, FS_CardinalityType DEF Before, After

-----------------------------------------------------------------------------

(* Types                                                                   *)

LEMMA InitTypes == Init => TypeOK
<1> SUFFICES ASSUME Init PROVE TypeOK
  OBVIOUS
<1>1. argv \in Seq({"s", "i", "unknown"})
  <2>1. argv \in UNION {[1 .. m -> {"s", "i", "unknown"}] : m \in 0 .. MaxArgs}
    BY Zenon DEF Init, BoundedSeq, SeqOf
  <2>2. PICK n \in 0 .. MaxArgs : argv \in [1 .. n -> {"s", "i", "unknown"}]
    BY <2>1
  <2>3. QED
    BY <2>2, PalindromeAssumption
<1>2. input \in [0 .. MaxInputLen + 1 -> Bytes]
  BY DEF Init, Bytes
<1>3. got \in Seq(Chars)
  BY DEF Init
<1>4. QED
  BY <1>1, <1>2, <1>3, PalindromeAssumption DEF Init, TypeOK

LEMMA StepTypes == TypeOK /\ BufferInv /\ [Next]_vars => TypeOK'
<1> SUFFICES ASSUME TypeOK, BufferInv, [Next]_vars PROVE TypeOK'
  OBVIOUS
<1> USE PalindromeAssumption
<1>1. CASE ParseOption
  <2>1. argv' \in Seq({"s", "i", "unknown"})
    <3>1. argv' = argv \/ (argv # << >> /\ argv' = Tail(argv))
      BY <1>1 DEF ParseOption, optVars
    <3>2. argv \in Seq({"s", "i", "unknown"})
      BY DEF TypeOK
    <3>3. CASE argv' = argv
      BY <3>2, <3>3
    <3>4. CASE argv # << >> /\ argv' = Tail(argv)
      BY <3>2, <3>4
    <3>5. QED
      BY <3>1, <3>3, <3>4
  <2>2. QED
    BY <1>1, <2>1
       DEF TypeOK, ParseOption, Exit, optVars, loopVars, history
<1>2. CASE ParseDone
  BY <1>2 DEF TypeOK, ParseDone, Exit, optVars, loopVars, history
<1>3. CASE NextLine
  <2>1. input' \in [0 .. MaxInputLen + 1 -> Bytes]
    BY <1>3 DEF TypeOK, NextLine, Bytes
  <2>2. got' \in Seq(Chars)
    <3>1. got' = << >> \/ got' = got
      BY <1>3 DEF NextLine, history
    <3>2. got \in Seq(Chars) /\ << >> \in Seq(Chars)
      BY DEF TypeOK
    <3>3. QED
      BY <3>1, <3>2, Zenon
  <2>3. currentInput' \in 0 .. MaxInputLen + 1
    BY <1>3 DEF TypeOK, NextLine
  <2>4. QED
    BY <1>3, <2>1, <2>2, <2>3
       DEF TypeOK, NextLine, Exit, optVars, loopVars, history
<1>4. CASE ReadNewline
  <2>1. currentInput <= MaxInputLen
    BY <1>4 DEF TypeOK, BufferInv, ReadNewline
  <2>2. input' \in [0 .. MaxInputLen + 1 -> Bytes]
    BY <1>4 DEF TypeOK, ReadNewline, Bytes
  <2>3. QED
    BY <1>4, <2>1, <2>2 DEF TypeOK, ReadNewline, optVars, loopVars
<1>5. CASE Eof /\ (readFromInput' = FALSE \/ UNCHANGED readFromInput)
  BY <1>5 DEF TypeOK, Eof, Exit, optVars, loopVars
<1>6. ASSUME NEW c \in Chars, ReadChar(c)
      PROVE  TypeOK'
  <2>1. currentInput <= MaxInputLen
    BY <1>6 DEF TypeOK, BufferInv, ReadChar
  <2>2. input' \in [0 .. MaxInputLen + 1 -> Bytes]
    BY <1>6 DEF TypeOK, ReadChar, Bytes
  <2>3. got' \in Seq(Chars)
    BY <1>6 DEF TypeOK, ReadChar
  <2>4. QED
    BY <1>6, <2>1, <2>2, <2>3 DEF TypeOK, ReadChar, optVars, loopVars
<1>7. CASE Strip
  <2>1. currentInput >= 1
    BY <1>7 DEF BufferInv, Strip
  <2>2. input' \in [0 .. MaxInputLen + 1 -> Bytes]
    BY <1>7 DEF TypeOK, Strip, Cut, Bytes
  <2>3. answer' \in {"none", "refused", "ignored", "yes", "no"}
    BY <1>7 DEF TypeOK, Strip
  <2>4. QED
    BY <1>7, <2>1, <2>2, <2>3 DEF TypeOK, Strip, optVars, history
<1>8. CASE SkipBegin \/ SkipEnd
  BY <1>8 DEF TypeOK, SkipBegin, SkipEnd, Checking, checkVars, optVars, history
<1>9. CASE Compare
  <2>1. \/ i' = i + 1 /\ UNCHANGED <<pc, answer>>
        \/ pc' = "loop" /\ answer' = "no" /\ UNCHANGED i
    BY <1>9 DEF Compare
  <2>2. UNCHANGED <<offsetBegin, offsetEnd, checkVars>>
    BY <1>9 DEF Compare
  <2>3. QED
    BY <2>1, <2>2 DEF TypeOK, checkVars, optVars, history
<1>10. CASE AllMatched
  BY <1>10 DEF TypeOK, AllMatched, loopVars, checkVars, optVars, history
<1>11. CASE Sigint
  BY <1>11 DEF TypeOK, Sigint, Exit, optVars, loopVars, history
<1>12. CASE UNCHANGED vars
  BY <1>12 DEF TypeOK, vars, optVars, loopVars, history
<1>13. QED
  BY <1>1, <1>2, <1>3, <1>4, <1>5, <1>6, <1>7, <1>8, <1>9, <1>10, <1>11, <1>12
     DEF Next, Program, ReadEof, SigintInRead

-----------------------------------------------------------------------------
(* The buffer                                                              *)

(* What Strip leaves of the input is the line without its newline.         *)
LEMMA PieceOfInput ==
    ASSUME TypeOK, BufferInv, pc = "strip"
    PROVE  /\ Piece \in Seq(Chars) /\ Len(Piece) = currentInput - 1
           /\ Holds(Piece)
<1>1. got \in Seq(Chars)
  BY DEF TypeOK
<1>2. CASE ending = "newline"
  BY <1>1, <1>2 DEF BufferInv, Piece
<1>3. CASE ending # "newline"
  <2>1. currentInput = Len(got) /\ Len(got) >= 1 /\ Holds(got)
    BY <1>3 DEF BufferInv
  <2>2. Piece = SubSeq(got, 1, Len(got) - 1)
    BY <1>3 DEF Piece, Front
  <2>3. /\ Piece \in Seq(Chars) /\ Len(Piece) = Len(got) - 1
        /\ \A m \in 1 .. Len(got) - 1 : Piece[m] = got[m]
    BY <1>1, <2>1, <2>2
  <2>4. Holds(Piece)
    BY <1>1, <2>1, <2>3 DEF Holds
  <2>5. QED
    BY <2>1, <2>3, <2>4
<1>4. QED
  BY <1>2, <1>3

LEMMA InitBuffer == Init => BufferInv
  BY DEF Init, BufferInv

LEMMA StepBuffer == TypeOK /\ BufferInv /\ [Next]_vars => BufferInv'
<1> SUFFICES ASSUME TypeOK, BufferInv, [Next]_vars PROVE BufferInv'
  OBVIOUS
<1> USE PalindromeAssumption
<1>1. CASE ParseOption \/ ParseDone
  BY <1>1 DEF BufferInv, ParseOption, ParseDone, Exit, TypeOK
<1>2. CASE NextLine
  <2>1. CASE readFromInput
    <3>1. Holds(got)'
      BY <1>2, <2>1 DEF NextLine, Holds
    <3>2. QED
      BY <1>2, <2>1, <3>1 DEF BufferInv, NextLine
  <2>2. CASE ~readFromInput
    BY <1>2, <2>2 DEF BufferInv, NextLine, Exit
  <2>3. QED
    BY <2>1, <2>2
<1>3. CASE ReadNewline
  <2>1. currentInput = Len(got) /\ got \in Seq(Chars) /\ got' = got /\ Holds(got)
    BY <1>3 DEF BufferInv, ReadNewline, TypeOK
  <2>2. Holds(got)'
    <3>1. \A m \in 1 .. Len(got) : input'[m - 1] = input[m - 1]
      BY <1>3, <2>1 DEF ReadNewline, TypeOK
    <3>2. QED
      BY <2>1, <3>1 DEF Holds
  <2>3. QED
    BY <1>3, <2>1, <2>2 DEF BufferInv, ReadNewline
<1>4. CASE Eof
  <2>1. currentInput = Len(got) /\ got \in Seq(Chars) /\ answer = "none"
    BY <1>4 DEF BufferInv, Eof, TypeOK
  <2>2. Holds(got)'
    BY <1>4 DEF BufferInv, Eof, Holds
  <2>3. QED
    BY <1>4, <2>1, <2>2 DEF BufferInv, Eof, Exit, TypeOK
<1>5. ASSUME NEW c \in Chars, ReadChar(c)
      PROVE  BufferInv'
  <2>1. /\ currentInput = Len(got) /\ got \in Seq(Chars) /\ answer = "none"
        /\ Len(got) <= MaxInputLen /\ Holds(got)
    BY <1>5 DEF BufferInv, ReadChar, TypeOK
  <2>2. /\ Len(got') = Len(got) + 1 /\ got'[Len(got) + 1] = c
        /\ \A m \in 1 .. Len(got) : got'[m] = got[m]
    BY <1>5, <2>1 DEF ReadChar
  <2>3. /\ input'[Len(got)] = c
        /\ \A m \in 1 .. Len(got) : input'[m - 1] = input[m - 1]
    BY <1>5, <2>1 DEF ReadChar, TypeOK
  <2>4. Holds(got)'
    BY <2>1, <2>2, <2>3 DEF Holds
  <2>5. QED
    BY <1>5, <2>1, <2>2, <2>4 DEF BufferInv, ReadChar, TooLong, TypeOK
<1>6. CASE Strip
  <2>1. /\ Piece \in Seq(Chars) /\ Len(Piece) = currentInput - 1
        /\ Holds(Piece) /\ Piece' = Piece
    BY <1>6, PieceOfInput DEF Strip, history, Piece
  <2>2. /\ input'[currentInput - 1] = Nul
        /\ \A m \in 1 .. Len(Piece) : input'[m - 1] = input[m - 1]
    BY <1>6, <2>1 DEF Strip, Cut, TypeOK, BufferInv
  <2>3. Holds(Piece)'
    BY <2>1, <2>2 DEF Holds
  <2>4. currentInput' = Len(Piece) /\ input'[Len(Piece)] = Nul
    BY <1>6, <2>1, <2>2 DEF Strip
  <2>5. pc' = "check" =>
           /\ currentInput' \in 1 .. MaxInputLen - 1 /\ answer' = "none"
    BY <1>6, <2>1 DEF Strip, BufferInv
  <2>6. pc' \in {"check", "loop"}
    BY <1>6 DEF Strip
  <2>7. QED
    BY <2>1, <2>3, <2>4, <2>5, <2>6 DEF BufferInv
<1>7. CASE SkipBegin \/ SkipEnd \/ Compare \/ AllMatched
  <2>1. /\ pc = "check" /\ UNCHANGED checkVars
        /\ UNCHANGED <<pc, answer>> \/ pc' = "loop"
    BY <1>7 DEF SkipBegin, SkipEnd, Compare, AllMatched, Checking
  <2>2. Holds(Piece)' = Holds(Piece) /\ Piece' = Piece
    BY <2>1 DEF checkVars, history, Piece, Holds
  <2>3. QED
    BY <2>1, <2>2 DEF BufferInv, checkVars
<1>8. CASE Sigint \/ UNCHANGED vars
  <2>1. /\ pc' = "exit" \/ pc' = pc
        /\ UNCHANGED <<input, currentInput, answer, got, ending>>
    BY <1>8 DEF Sigint, Exit, vars, history
  <2>2. /\ Holds(Piece)' = Holds(Piece) /\ Piece' = Piece
        /\ Holds(got)' = Holds(got)
    BY <2>1 DEF Piece, Holds
  <2>3. QED
    BY <2>1, <2>2 DEF BufferInv
<1>9. QED
  BY <1>1, <1>2, <1>3, <1>4, <1>5, <1>6, <1>7, <1>8
     DEF Next, Program, ReadEof, SigintInRead

-----------------------------------------------------------------------------

(* The comparison                                                          *)

(* The two places that isStringPalindrom has reached.                      *)
front == i + offsetBegin
back == Len(Piece) + 1 - i - offsetEnd

LEMMA LettersOfPiece ==
    ASSUME TypeOK
    PROVE  /\ Piece \in Seq(Chars) /\ Len(Piece) \in Nat
           /\ Letters(Piece) \subseteq 1 .. Len(Piece)
           /\ Cardinality(Letters(Piece)) \in Nat
<1>1. got \in Seq(Chars)
  BY DEF TypeOK
<1>2. Piece \in Seq(Chars)
  <2>1. Front(got) \in Seq(Chars)
    BY <1>1 DEF Front
  <2>2. QED
    BY <1>1, <2>1 DEF Piece
<1>3. Len(Piece) \in Nat
  BY <1>2
<1>4. Letters(Piece) \subseteq 1 .. Len(Piece)
  BY DEF Letters
<1>5. QED
  BY <1>2, <1>3, <1>4, LettersFinite

(* The terminator is the first zero byte of the buffer.                    *)
LEMMA StringLength ==
    ASSUME TypeOK, BufferInv, pc = "check"
    PROVE  strlen = Len(Piece)
<1> DEFINE n == Len(Piece)
<1>1. /\ n \in 1 .. MaxInputLen - 1 /\ Piece \in Seq(Chars)
      /\ input[n] = Nul /\ \A m \in 1 .. n : input[m - 1] = Piece[m]
  BY LettersOfPiece DEF BufferInv, Holds
<1>2. DOMAIN input = 0 .. MaxInputLen + 1
  BY DEF TypeOK
<1>3. ASSUME NEW m \in 0 .. n - 1
      PROVE  input[m] # Nul
  <2>1. m + 1 \in 1 .. n /\ input[(m + 1) - 1] = input[m]
    BY <1>1, <1>3
  <2>2. Piece[m + 1] \in Chars
    BY <1>1, <2>1
  <2>3. QED
    BY <1>1, <2>1, <2>2, PalindromeAssumption
<1>4. n \in DOMAIN input
  BY <1>1, <1>2, PalindromeAssumption
<1>5. ASSUME NEW k \in DOMAIN input,
             input[k] = Nul, \A m \in 0 .. k - 1 : input[m] # Nul
      PROVE  k = n
  <2>1. k \in Nat
    BY <1>2, PalindromeAssumption
  <2>2. ~(k < n) /\ ~(n < k)
    BY <1>1, <1>3, <1>5, <2>1
  <2>3. QED
    BY <1>1, <2>1, <2>2
<1>6. QED
  BY <1>1, <1>3, <1>4, <1>5 DEF strlen

(* While the loop runs, neither end has passed all letters: both are       *)
(* inside the line, and what is read there is the line's.                  *)
LEMMA EndsInside ==
    ASSUME TypeOK, BufferInv, WalkInv, Checking, EnoughLetters(Piece)
    PROVE  /\ front + 1 \in 1 .. Len(Piece) /\ back - 1 \in 1 .. Len(Piece)
           /\ At(beginIndex) = {Piece[front + 1]}
           /\ At(endIndex) = {Piece[back - 1]}
<1> DEFINE n == Len(Piece)
           L == Letters(Piece)
<1>1. pc = "check" /\ i <= (n - 1) \div 2
  BY StringLength DEF Checking, length
<1>2. /\ n \in 1 .. MaxInputLen - 1 /\ L \subseteq 1 .. n
      /\ Cardinality(L) \in Nat
  BY <1>1, LettersOfPiece DEF BufferInv
<1>3. i \in Nat /\ offsetBegin \in Nat /\ offsetEnd \in Nat
  BY DEF TypeOK
<1>4. i < Cardinality(L)
  BY <1>1, <1>2, <1>3 DEF EnoughLetters
<1>5. /\ front <= n /\ back >= 1
      /\ Before(L, front + 1) = i /\ After(L, back - 1) = i
  BY <1>1 DEF WalkInv, front, back
<1>6. Before(L, n + 1) = Cardinality(L) /\ After(L, 0) = Cardinality(L)
  BY <1>2, RankEnds
<1>7. front # n /\ back # 1
  BY <1>2, <1>3, <1>4, <1>5, <1>6
<1>8. front + 1 \in 1 .. n /\ back - 1 \in 1 .. n
  BY <1>2, <1>3, <1>5, <1>7 DEF front, back
<1>9. /\ \A m \in 1 .. n : input[m - 1] = Piece[m]
      /\ DOMAIN input = 0 .. MaxInputLen + 1
  BY <1>1 DEF BufferInv, Holds, TypeOK
<1>10. beginIndex = (front + 1) - 1 /\ endIndex = (back - 1) - 1
  BY <1>1, <1>2, <1>3, StringLength DEF beginIndex, endIndex, length, front, back
<1>11. /\ beginIndex \in DOMAIN input /\ input[beginIndex] = Piece[front + 1]
       /\ endIndex \in DOMAIN input /\ input[endIndex] = Piece[back - 1]
  BY <1>2, <1>8, <1>9, <1>10, PalindromeAssumption
<1>12. QED
  BY <1>8, <1>11 DEF At

(* The steps of the loop leave the line and its letters alone.             *)
LEMMA SameLine ==
    ASSUME UNCHANGED <<ignoreSpace, ignoreCase, got, ending>>
    PROVE  /\ Piece' = Piece /\ Letters(Piece)' = Letters(Piece)
           /\ EnoughLetters(Piece)' = EnoughLetters(Piece)
           /\ \A p, q : Alike(Piece, p, q)' = Alike(Piece, p, q)
           /\ IsPalindrome(Piece)' = IsPalindrome(Piece)
<1>1. Piece' = Piece
  BY DEF Piece
<1>2. Letters(Piece)' = Letters(Piece)
  BY <1>1 DEF Letters
<1>3. EnoughLetters(Piece)' = EnoughLetters(Piece)
  BY <1>1, <1>2 DEF EnoughLetters
<1>4. \A p, q : Alike(Piece, p, q)' = Alike(Piece, p, q)
  BY <1>1 DEF Alike, Folded
<1>5. IsPalindrome(Piece)' = IsPalindrome(Piece)
  BY <1>1, <1>2, <1>4 DEF IsPalindrome
<1>6. QED
  BY <1>1, <1>2, <1>3, <1>4, <1>5

-----------------------------------------------------------------------------

(* The letters up to place f are like their counterparts.                  *)
Passed(f) ==
    \A p, q \in Letters(Piece) :
        p <= f /\ Before(Letters(Piece), p) = After(Letters(Piece), q) =>
            Alike(Piece, p, q)

LEMMA WalkIs ==
    WalkInv <=> (pc = "check" /\ EnoughLetters(Piece) =>
                    /\ front <= Len(Piece) /\ back >= 1
                    /\ Before(Letters(Piece), front + 1) = i
                    /\ After(Letters(Piece), back - 1) = i
                    /\ Passed(front))
  BY DEF WalkInv, front, back, Passed

(* Strip starts the comparison with nothing passed at either end.          *)
LEMMA StripWalks ==
    ASSUME TypeOK, BufferInv, Strip
    PROVE  WalkInv'
<1> DEFINE n == Len(Piece)
           L == Letters(Piece)
<1>1. UNCHANGED <<ignoreSpace, ignoreCase, got, ending>>
  BY DEF Strip, optVars, history
<1>2. Piece' = Piece /\ Letters(Piece)' = L
  BY <1>1, SameLine
<1>3. n \in Nat /\ L \subseteq 1 .. n
  BY LettersOfPiece
<1>4. i' = 0 /\ offsetBegin' = 0 /\ offsetEnd' = 0
  BY DEF Strip
<1>5. front' = 0 /\ back' = n + 1
  BY <1>2, <1>3, <1>4 DEF front, back
<1>6. Before(L, 1) = 0 /\ After(L, n) = 0
  BY <1>3, RankEnds
<1>7. Passed(front)'
  <2>1. \A p \in L : ~(p <= 0)
    BY <1>3
  <2>2. QED
    BY <1>2, <1>5, <2>1 DEF Passed
<1>8. /\ Before(Letters(Piece), front + 1)' = 0
      /\ After(Letters(Piece), back - 1)' = 0
  BY <1>2, <1>3, <1>5, <1>6
<1>9. QED
  BY <1>2, <1>3, <1>4, <1>5, <1>7, <1>8 DEF WalkInv, Passed, front, back

(* A pass of the loop moves over a space at one end, or over two letters   *)
(* with the same number that are alike.                                    *)
LEMMA SkipBeginWalks ==
    ASSUME TypeOK, BufferInv, WalkInv, SkipBegin
    PROVE  WalkInv'
<1> DEFINE n == Len(Piece)
           L == Letters(Piece)
<1>1. /\ UNCHANGED <<ignoreSpace, ignoreCase, got, ending>>
      /\ UNCHANGED <<i, offsetEnd, pc>> /\ offsetBegin' = offsetBegin + 1
      /\ Checking /\ ignoreSpace /\ Space \in At(beginIndex)
  BY DEF SkipBegin, checkVars, optVars, history
<1>2. /\ Piece' = Piece /\ Letters(Piece)' = L
      /\ EnoughLetters(Piece)' = EnoughLetters(Piece)
      /\ \A p, q : Alike(Piece, p, q)' = Alike(Piece, p, q)
  BY <1>1, SameLine
<1>3. SUFFICES ASSUME EnoughLetters(Piece)
               PROVE  WalkInv'
  BY <1>2 DEF WalkInv
<1>4. n \in Nat /\ L \subseteq 1 .. n
  BY LettersOfPiece
<1>5. /\ front + 1 \in 1 .. n /\ back >= 1 /\ Piece[front + 1] = Space
      /\ Before(L, front + 1) = i /\ After(L, back - 1) = i /\ Passed(front)
  BY <1>1, <1>3, EndsInside, WalkIs DEF Checking
<1>6. front + 1 \notin L
  BY <1>1, <1>5 DEF Letters
<1>7. Before(L, front + 2) = i
  <2>1. Before(L, (front + 1) + 1) = i
    BY <1>4, <1>5, <1>6, RankStep
  <2>2. (front + 1) + 1 = front + 2
    BY DEF TypeOK, front
  <2>3. QED
    BY <2>1, <2>2
<1>8. front' = front + 1 /\ back' = back /\ front \in Nat /\ back \in Int
  BY <1>1, <1>2, <1>4 DEF TypeOK, front, back
<1>9. Passed(front)'
  <2>1. \A p \in L : p <= front + 1 => p <= front
    BY <1>4, <1>6, <1>8
  <2>2. QED
    BY <1>2, <1>5, <1>8, <2>1 DEF Passed
<1>10. /\ Before(Letters(Piece), front + 1)' = i
       /\ After(Letters(Piece), back - 1)' = i
  <2>1. (front + 1) + 1 = front + 2
    BY <1>8
  <2>2. QED
    BY <1>2, <1>5, <1>7, <1>8, <2>1
<1>11. QED
  BY <1>1, <1>2, <1>5, <1>8, <1>9, <1>10 DEF WalkInv, Passed, front, back

LEMMA SkipEndWalks ==
    ASSUME TypeOK, BufferInv, WalkInv, SkipEnd
    PROVE  WalkInv'
<1> DEFINE n == Len(Piece)
           L == Letters(Piece)
<1>1. /\ UNCHANGED <<ignoreSpace, ignoreCase, got, ending>>
      /\ UNCHANGED <<i, offsetBegin, pc>> /\ offsetEnd' = offsetEnd + 1
      /\ Checking /\ ignoreSpace /\ Space \in At(endIndex)
  BY DEF SkipEnd, checkVars, optVars, history
<1>2. /\ Piece' = Piece /\ Letters(Piece)' = L
      /\ EnoughLetters(Piece)' = EnoughLetters(Piece)
      /\ \A p, q : Alike(Piece, p, q)' = Alike(Piece, p, q)
  BY <1>1, SameLine
<1>3. SUFFICES ASSUME EnoughLetters(Piece)
               PROVE  WalkInv'
  BY <1>2 DEF WalkInv
<1>4. n \in Nat /\ L \subseteq 1 .. n
  BY LettersOfPiece
<1>5. /\ front <= n /\ back - 1 \in 1 .. n /\ Piece[back - 1] = Space
      /\ Before(L, front + 1) = i /\ After(L, back - 1) = i /\ Passed(front)
  BY <1>1, <1>3, EndsInside, WalkIs DEF Checking
<1>6. After(L, (back - 1) - 1) = i
  <2>1. back - 1 \notin L
    BY <1>1, <1>5 DEF Letters
  <2>2. QED
    BY <1>4, <1>5, <2>1, RankStep
<1>7. front' = front /\ back' = back - 1 /\ front \in Nat /\ back \in Int
  BY <1>1, <1>2, <1>4 DEF TypeOK, front, back
<1>8. Passed(front)'
  BY <1>2, <1>5, <1>7 DEF Passed
<1>9. /\ Before(Letters(Piece), front + 1)' = i
      /\ After(Letters(Piece), back - 1)' = i
  BY <1>2, <1>5, <1>6, <1>7
<1>10. QED
  BY <1>1, <1>2, <1>5, <1>7, <1>8, <1>9 DEF WalkInv, Passed, front, back

(* Compare looks at two letters with the same number.                      *)
LEMMA Counterparts ==
    ASSUME TypeOK, BufferInv, WalkInv, Compare, EnoughLetters(Piece)
    PROVE  /\ front + 1 \in Letters(Piece) /\ back - 1 \in Letters(Piece)
           /\ Before(Letters(Piece), front + 1) = i
           /\ After(Letters(Piece), back - 1) = i
           /\ IF Alike(Piece, front + 1, back - 1)
              THEN i' = i + 1 /\ UNCHANGED <<pc, answer>>
              ELSE pc' = "loop" /\ answer' = "no"
<1>1. Checking /\ pc = "check"
  BY DEF Compare, Checking
<1>2. /\ front + 1 \in 1 .. Len(Piece) /\ back - 1 \in 1 .. Len(Piece)
      /\ At(beginIndex) = {Piece[front + 1]} /\ At(endIndex) = {Piece[back - 1]}
  BY <1>1, EndsInside
<1>3. /\ ignoreSpace => Piece[front + 1] # Space /\ Piece[back - 1] # Space
      /\ IF Alike(Piece, front + 1, back - 1)
         THEN i' = i + 1 /\ UNCHANGED <<pc, answer>>
         ELSE pc' = "loop" /\ answer' = "no"
  BY <1>2 DEF Compare, Alike
<1>4. front + 1 \in Letters(Piece) /\ back - 1 \in Letters(Piece)
  BY <1>2, <1>3 DEF Letters
<1>5. QED
  BY <1>1, <1>3, <1>4, WalkIs

LEMMA CompareWalks ==
    ASSUME TypeOK, BufferInv, WalkInv, Compare
    PROVE  WalkInv'
<1> DEFINE n == Len(Piece)
           L == Letters(Piece)
           a == front + 1
           b == back - 1
<1>1. /\ UNCHANGED <<ignoreSpace, ignoreCase, got, ending>>
      /\ UNCHANGED <<offsetBegin, offsetEnd>> /\ pc = "check"
  BY DEF Compare, Checking, checkVars, optVars, history
<1>2. /\ Piece' = Piece /\ Letters(Piece)' = L
      /\ EnoughLetters(Piece)' = EnoughLetters(Piece)
      /\ \A p, q : Alike(Piece, p, q)' = Alike(Piece, p, q)
  BY <1>1, SameLine
<1>3. SUFFICES ASSUME EnoughLetters(Piece), pc' = "check"
               PROVE  WalkInv'
  BY <1>2 DEF WalkInv
<1>4. n \in Nat /\ L \subseteq 1 .. n
  BY LettersOfPiece
<1>5. /\ a \in L /\ b \in L /\ Before(L, a) = i /\ After(L, b) = i
      /\ Alike(Piece, a, b) /\ i' = i + 1
  BY <1>3, Counterparts
<1>6. Passed(front)
  BY <1>1, <1>3, WalkIs
<1>7. /\ front' = a /\ back' = b /\ front \in Nat /\ back \in Int
      /\ i \in Nat /\ a \in 1 .. n /\ b \in 1 .. n
  BY <1>1, <1>2, <1>4, <1>5 DEF TypeOK, front, back
<1>8. Before(L, a + 1) = i + 1 /\ After(L, b - 1) = i + 1
  BY <1>4, <1>5, <1>7, RankStep
<1>9. Passed(a)
  <2> SUFFICES ASSUME NEW p \in L, NEW q \in L,
                      p <= a, Before(L, p) = After(L, q)
               PROVE  Alike(Piece, p, q)
    BY DEF Passed
  <2>1. CASE p = a
    <3>1. After(L, q) = After(L, b)
      BY <1>5, <2>1
    <3>2. ~(q < b) /\ ~(b < q)
      <4>1. ASSUME q < b
            PROVE  FALSE
        <5>1. After(L, b) < After(L, q)
          BY <1>4, <1>5, <4>1, RankUnique
        <5>2. QED
          BY <1>5, <1>7, <3>1, <5>1
      <4>2. ASSUME b < q
            PROVE  FALSE
        <5>1. After(L, q) < After(L, b)
          BY <1>4, <1>5, <4>2, RankUnique
        <5>2. QED
          BY <1>5, <1>7, <3>1, <5>1
      <4>3. QED
        BY <4>1, <4>2
    <3>3. q = b
      BY <1>4, <1>7, <3>2
    <3>4. QED
      BY <1>5, <2>1, <3>3
  <2>2. CASE p # a
    <3>1. p <= front
      BY <1>4, <1>7, <2>2
    <3>2. QED
      BY <1>6, <3>1 DEF Passed
  <2>3. QED
    BY <2>1, <2>2
<1>10. Passed(front)'
  BY <1>2, <1>7, <1>9 DEF Passed
<1>11. /\ Before(Letters(Piece), front + 1)' = i'
       /\ After(Letters(Piece), back - 1)' = i'
  BY <1>2, <1>5, <1>7, <1>8
<1>12. QED
  BY <1>2, <1>3, <1>7, <1>10, <1>11 DEF WalkInv, Passed, front, back

LEMMA InitWalk == Init => WalkInv
  BY DEF Init, WalkInv

LEMMA StepWalk ==
    TypeOK /\ BufferInv /\ WalkInv /\ [Next]_vars => WalkInv'
<1> SUFFICES ASSUME TypeOK, BufferInv, WalkInv, [Next]_vars PROVE WalkInv'
  OBVIOUS
<1>1. CASE Strip
  BY <1>1, StripWalks
<1>2. CASE SkipBegin
  BY <1>2, SkipBeginWalks
<1>3. CASE SkipEnd
  BY <1>3, SkipEndWalks
<1>4. CASE Compare
  BY <1>4, CompareWalks
<1>5. CASE Sigint \/ UNCHANGED vars
  <2>1. /\ pc' = "check" => pc = "check"
        /\ UNCHANGED <<ignoreSpace, ignoreCase, got, ending>>
        /\ UNCHANGED <<i, offsetBegin, offsetEnd>>
    BY <1>5 DEF Sigint, Exit, vars, optVars, loopVars, history
  <2>2. /\ Piece' = Piece /\ Letters(Piece)' = Letters(Piece)
        /\ EnoughLetters(Piece)' = EnoughLetters(Piece)
        /\ \A p, q : Alike(Piece, p, q)' = Alike(Piece, p, q)
    BY <2>1, SameLine
  <2>3. QED
    BY <2>1, <2>2 DEF WalkInv
<1>6. CASE pc' # "check"
  BY <1>6 DEF WalkInv
<1>7. QED
  <2>1. ASSUME NEW c \in Chars, ReadChar(c)
        PROVE  pc' # "check"
    BY <2>1 DEF ReadChar
  <2>2. CASE ParseOption \/ ParseDone \/ NextLine
    BY <1>6, <2>2 DEF ParseOption, ParseDone, NextLine, Exit
  <2>3. CASE ReadNewline \/ Eof \/ AllMatched
    BY <1>6, <2>3 DEF ReadNewline, Eof, AllMatched, Exit
  <2>4. QED
    BY <1>1, <1>2, <1>3, <1>4, <1>5, <1>6, <2>1, <2>2, <2>3
       DEF Next, Program, ReadEof, SigintInRead

-----------------------------------------------------------------------------
(* The verdict                                                             *)

(* When the loop has ended, every letter has been compared with its        *)
(* counterpart, as the one or as the other of the two.                     *)
LEMMA MatchedAll ==
    ASSUME TypeOK, BufferInv, WalkInv, AllMatched, EnoughLetters(Piece)
    PROVE  IsPalindrome(Piece)
<1> DEFINE n == Len(Piece)
           L == Letters(Piece)
<1>1. pc = "check" /\ i > (n - 1) \div 2
  BY StringLength DEF AllMatched, length
<1>2. n \in Nat /\ n >= 1 /\ L \subseteq 1 .. n /\ Cardinality(L) \in Nat /\ i \in Nat
  BY <1>1, LettersOfPiece DEF BufferInv, TypeOK
<1>3. Cardinality(L) <= 2 * i
  <2>1. IsFiniteSet(1 .. n) /\ Cardinality(1 .. n) = n
    <3>1. Cardinality(1 .. n) = IF 1 > n THEN 0 ELSE n - 1 + 1
      BY <1>2, FS_Interval
    <3>2. IsFiniteSet(1 .. n)
      BY <1>2, FS_Interval
    <3>3. QED
      BY <1>2, <3>1, <3>2
  <2>2. Cardinality(L) <= n
    BY <1>2, <2>1, FS_Subset
  <2>3. n <= 2 * i
    BY <1>1, <1>2
  <2>4. QED
    BY <1>2, <2>2, <2>3
<1>4. Passed(front) /\ Before(L, front + 1) = i /\ front \in Nat
  BY <1>1, WalkIs DEF TypeOK, front
<1>5. ASSUME NEW p \in L, NEW q \in L, Before(L, p) = After(L, q), Before(L, p) < i
      PROVE  Alike(Piece, p, q)
  <2>1. p \in Int /\ Before(L, p) \in Nat
    <3>1. p \in Int
      BY <1>2
    <3>2. QED
      BY <1>2, <3>1, LettersFinite
  <2>2. ASSUME front + 1 <= p
        PROVE  FALSE
    <3>1. Before(L, front + 1) <= Before(L, p)
      BY <1>2, <1>4, <2>1, <2>2, RankMonotone
    <3>2. QED
      BY <1>2, <1>4, <1>5, <2>1, <3>1
  <2>3. p <= front
    BY <1>4, <2>1, <2>2
  <2>4. QED
    BY <1>4, <1>5, <2>3 DEF Passed
<1>6. ASSUME NEW p \in L, NEW q \in L, Before(L, p) = After(L, q)
      PROVE  Alike(Piece, p, q)
  <2>1. /\ Before(L, p) + After(L, p) + 1 = Cardinality(L)
        /\ Before(L, q) + After(L, q) + 1 = Cardinality(L)
    BY <1>2, RankSum
  <2>2. /\ Before(L, p) \in Nat /\ After(L, p) \in Nat
        /\ Before(L, q) \in Nat /\ After(L, q) \in Nat
    <3>1. p \in Int /\ q \in Int
      BY <1>2
    <3>2. QED
      BY <1>2, <3>1, LettersFinite
  <2>3. CASE Before(L, p) < i
    BY <1>5, <1>6, <2>3
  <2>4. CASE ~(Before(L, p) < i)
    <3>1. Before(L, q) = After(L, p) /\ Before(L, q) < i
      BY <1>2, <1>3, <1>6, <2>1, <2>2, <2>4
    <3>2. Alike(Piece, q, p)
      BY <1>5, <3>1
    <3>3. QED
      BY <3>2 DEF Alike
  <2>5. QED
    BY <2>3, <2>4
<1>7. QED
  BY <1>6 DEF IsPalindrome

LEMMA InitAnswer == Init => AnswerInv
  BY DEF Init, AnswerInv

LEMMA StepAnswer ==
    /\ TypeOK /\ BufferInv /\ WalkInv /\ AnswerInv /\ [Next]_vars
    => AnswerInv'
<1> SUFFICES ASSUME TypeOK, BufferInv, WalkInv, AnswerInv, [Next]_vars,
                    answer' # "none"
             PROVE  AnswerInv'
  BY DEF AnswerInv
<1>1. ASSUME UNCHANGED <<ignoreSpace, ignoreCase, got, ending>>
      PROVE  /\ Piece' = Piece /\ EnoughLetters(Piece)' = EnoughLetters(Piece)
             /\ PieceAnswer(Piece)' = PieceAnswer(Piece)
  BY <1>1, SameLine DEF PieceAnswer
<1>2. CASE Strip
  <2>1. UNCHANGED <<ignoreSpace, ignoreCase, got, ending>>
    BY <1>2 DEF Strip, optVars, history
  <2>2. currentInput' = Len(Piece) /\ Len(Piece) \in Nat
    BY <1>2, PieceOfInput, LettersOfPiece DEF Strip, TypeOK
  <2>3. answer = "none"
    BY <1>2 DEF BufferInv, Strip
  <2>4. /\ answer' = CASE Len(Piece) >= MaxInputLen -> "refused"
                       [] Len(Piece) = 0 -> "ignored"
                       [] OTHER -> "none"
        /\ MaxInputLen \in Nat \ {0}
    BY <1>2, <2>2, <2>3, PalindromeAssumption DEF Strip
  <2>5. answer' = PieceAnswer(Piece)
    <3>1. CASE Len(Piece) >= MaxInputLen
      BY <2>2, <2>4, <3>1 DEF PieceAnswer
    <3>2. CASE Len(Piece) = 0
      BY <2>2, <2>4, <3>2 DEF PieceAnswer
    <3>3. CASE ~(Len(Piece) >= MaxInputLen) /\ Len(Piece) # 0
      BY <2>4, <3>3
    <3>4. QED
      BY <3>1, <3>2, <3>3
  <2>6. answer' = "refused" <=> Len(Piece) >= MaxInputLen
    BY <2>2, <2>4
  <2>7. QED
    BY <1>1, <2>1, <2>5, <2>6 DEF AnswerInv
<1>3. ASSUME Compare \/ AllMatched, EnoughLetters(Piece)
      PROVE  answer' = PieceAnswer(Piece)
  <2>1. /\ pc = "check" /\ answer = "none"
        /\ Len(Piece) \in 1 .. MaxInputLen - 1 /\ MaxInputLen \in Nat
    BY <1>3, PalindromeAssumption DEF Compare, AllMatched, Checking, BufferInv
  <2>2. PieceAnswer(Piece) = IF IsPalindrome(Piece) THEN "yes" ELSE "no"
    BY <2>1 DEF PieceAnswer
  <2>3. CASE Compare
    <3>1. answer' = "no" /\ ~Alike(Piece, front + 1, back - 1)
      BY <1>3, <2>1, <2>3, Counterparts
    <3>2. ~IsPalindrome(Piece)
      BY <1>3, <2>3, <3>1, Counterparts DEF IsPalindrome
    <3>3. QED
      BY <2>2, <3>1, <3>2
  <2>4. CASE AllMatched
    BY <1>3, <2>2, <2>4, MatchedAll DEF AllMatched
  <2>5. QED
    BY <1>3, <2>3, <2>4
<1>4. CASE Compare \/ AllMatched
  <2>1. UNCHANGED <<ignoreSpace, ignoreCase, got, ending>>
    BY <1>4 DEF Compare, AllMatched, checkVars, optVars, history
  <2>2. answer' # "refused"
    BY <1>4 DEF Compare, AllMatched, Checking, BufferInv
  <2>3. ~(Len(Piece) >= MaxInputLen)
    BY <1>4, PalindromeAssumption
       DEF Compare, AllMatched, Checking, BufferInv
  <2>4. QED
    BY <1>1, <1>3, <1>4, <2>1, <2>2, <2>3 DEF AnswerInv
<1>5. CASE UNCHANGED <<ignoreSpace, ignoreCase, got, ending, answer>>
  BY <1>1, <1>5 DEF AnswerInv
<1>6. CASE answer = "none" /\ UNCHANGED answer
  BY <1>6
<1>7. QED
  <2>1. ASSUME NEW c \in Chars, ReadChar(c)
        PROVE  answer = "none" /\ UNCHANGED answer
    BY <2>1 DEF ReadChar, BufferInv
  <2>2. CASE ParseOption \/ ParseDone \/ ReadNewline \/ Eof
    BY <1>6, <2>2 DEF ParseOption, ParseDone, ReadNewline, Eof, BufferInv
  <2>3. CASE NextLine
    BY <1>5, <2>3 DEF NextLine, optVars, history
  <2>4. CASE SkipBegin \/ SkipEnd \/ Sigint \/ UNCHANGED vars
    BY <1>5, <2>4
       DEF SkipBegin, SkipEnd, Sigint, checkVars, vars, optVars, history
  <2>5. QED
    BY <1>2, <1>4, <1>6, <2>1, <2>2, <2>3, <2>4
       DEF Next, Program, ReadEof, SigintInRead

-----------------------------------------------------------------------------
(* PalindromeInv holds: the buffer holds the line just read, and the two   *)
(* ends of the comparison have passed the same letters.                    *)
THEOREM PalindromeInvariant == Spec => []PalindromeInv
<1>1. Init => PalindromeInv
  BY InitTypes, InitBuffer, InitWalk, InitAnswer DEF PalindromeInv
<1>2. PalindromeInv /\ [Next]_vars => PalindromeInv'
  BY StepTypes, StepBuffer, StepWalk, StepAnswer DEF PalindromeInv
<1>3. QED
  BY <1>1, <1>2, PTL DEF Spec

(* Types; in particular currentInput never leaves the buffer of            *)
(* MAX_INPUT_LEN + 2 bytes, whatever is typed.                             *)
THEOREM PalindromeTypes == Spec => []TypeOK
<1>1. PalindromeInv => TypeOK
  BY DEF PalindromeInv
<1>2. QED
  BY <1>1, PalindromeInvariant, PTL

(* A line up to its newline that is shorter than MAX_INPUT_LEN and has     *)
(* letters enough gets the answer of the definition, for lines of every    *)
(* length, under both options and whatever is left in the buffer; longer   *)
(* input is refused, and no shorter one is.                                *)
THEOREM Verdicts == Spec => []VerdictRight
<1>1. ASSUME TypeOK, AnswerInv
      PROVE  VerdictRight
  <2> SUFFICES ASSUME answer # "none"
               PROVE  VerdictRight
    BY DEF VerdictRight
  <2>1. got \in Seq(Chars) /\ MaxInputLen \in Nat \ {0}
    BY <1>1, PalindromeAssumption DEF TypeOK
  <2>2. Len(Piece) \in Nat /\ Len(Piece) <= Len(got) /\ Len(Piece) >= Len(got) - 1
    <3>1. Front(got) = SubSeq(got, 1, Len(got) - 1)
      BY DEF Front
    <3>2. CASE got = << >>
      BY <2>1, <3>1, <3>2 DEF Piece
    <3>3. CASE got # << >>
      BY <2>1, <3>1, <3>3 DEF Piece
    <3>4. QED
      BY <3>2, <3>3
  <2>3. ASSUME ending = "newline", Len(got) < MaxInputLen, EnoughLetters(got)
        PROVE  answer = Verdict(got)
    <3>1. Piece = got
      BY <2>3 DEF Piece
    <3>2. answer = PieceAnswer(got)
      BY <1>1, <2>3, <3>1 DEF AnswerInv
    <3>3. CASE got = << >>
      BY <2>1, <2>3, <3>2, <3>3 DEF PieceAnswer, Verdict
    <3>4. CASE got # << >>
      <4>1. Len(got) # 0 /\ ~(Len(got) >= MaxInputLen)
        BY <2>1, <2>3, <3>4
      <4>2. QED
        BY <3>2, <3>4, <4>1 DEF PieceAnswer, Verdict
    <3>5. QED
      BY <3>3, <3>4
  <2>4. QED
    BY <1>1, <2>1, <2>2, <2>3 DEF AnswerInv, VerdictRight
<1>2. PalindromeInv => VerdictRight
  BY <1>1 DEF PalindromeInv
<1>3. QED
  BY <1>2, PalindromeInvariant, PTL

================================================================================
