---------------------------- MODULE MastermindProofs ---------------------------
(***************************************************************************)
(* Theorems about the Mastermind game for any number of slots, colors and  *)
(* rounds: the answers of the server, the candidates of the client, and    *)
(* their verdicts.                                                         *)
(***************************************************************************)
EXTENDS Mastermind, FiniteSetTheorems, WellFoundedInduction, SequenceTheorems,
        TLAPS

-----------------------------------------------------------------------------
(* Ranks: how many elements of a set of positions precede a position.      *)

Rank(T, j) == Cardinality({i \in T : i < j})

(* A set of numbers has a least one.                                       *)
LEMMA LeastOf ==
    ASSUME NEW S, S \subseteq Nat, S # {}
    PROVE  \E k \in S : \A j \in S : k <= j
<1>1. \A j, k \in Nat : <<j, k>> \in OpToRel(<, Nat) <=> j < k
  BY DEF OpToRel
<1>2. PICK R : /\ IsWellFoundedOn(R, Nat)
               /\ \A j, k \in Nat : <<j, k>> \in R <=> j < k
  BY <1>1, NatLessThanWellFounded, Zenon
<1>3. PICK k \in S : \A j \in S : ~ (<<j, k>> \in R)
  <2>1. IsWellFoundedOn(R, Nat) /\ S \subseteq Nat /\ S # {}
    BY <1>2
  <2>2. QED
    BY <2>1, WFMin, Zenon
<1>4. ASSUME NEW j \in S PROVE k <= j
  <2>1. j \in Nat /\ k \in Nat /\ ~ (<<j, k>> \in R)
    BY <1>3
  <2>2. ~ (j < k)
    BY <2>1, <1>2
  <2>3. QED
    BY <2>1, <2>2
<1>5. QED
  BY <1>3, <1>4, Zenon

(* A set of numbers up to n has a greatest one.                            *)
LEMMA GreatestOf ==
    ASSUME NEW n \in Nat, NEW S, S \subseteq 0 .. n, S # {}
    PROVE  \E k \in S : \A j \in S : j <= k
<1> DEFINE D == {n - k : k \in S}
<1>1. D \subseteq Nat /\ D # {}
  <2>1. \A k \in S : k \in 0 .. n
    OBVIOUS
  <2>2. \A k \in 0 .. n : n - k \in Nat
    OBVIOUS
  <2>3. PICK k \in S : TRUE
    OBVIOUS
  <2>4. n - k \in D
    OBVIOUS
  <2>5. QED
    BY <2>1, <2>2, <2>4
<1>2. PICK d \in D : \A e \in D : d <= e
  BY <1>1, LeastOf
<1>3. PICK k \in S : d = n - k
  OBVIOUS
<1>4. ASSUME NEW j \in S PROVE j <= k
  <2>1. n - k <= n - j
    BY <1>2, <1>3
  <2>2. QED
    BY <2>1
<1>5. QED
  BY <1>4

(* Positions have ranks below the size of their set.                       *)
LEMMA RankIs ==
    ASSUME NEW n \in Nat, NEW T, T \subseteq 0 .. n
    PROVE  /\ IsFiniteSet(T) /\ Cardinality(T) \in Nat
           /\ \A j \in T : /\ j \in Nat /\ Rank(T, j) \in Nat
                           /\ IsFiniteSet({i \in T : i < j})
                           /\ Rank(T, j) < Cardinality(T)
<1>1. IsFiniteSet(0 .. n)
  BY FS_Interval
<1>2. IsFiniteSet(T) /\ Cardinality(T) \in Nat
  BY <1>1, FS_Subset, FS_CardinalityType
<1>3. ASSUME NEW j \in T
      PROVE  /\ j \in Nat /\ Rank(T, j) \in Nat
             /\ IsFiniteSet({i \in T : i < j})
             /\ Rank(T, j) < Cardinality(T)
  <2>0. j \in Nat
    OBVIOUS
  <2> DEFINE B == {i \in T : i < j}
  <2>1. B \subseteq T /\ j \notin B
    BY <2>0
  <2>2. Rank(T, j) = Cardinality(B)
    BY DEF Rank
  <2> HIDE DEF B
  <2>3. IsFiniteSet(B) /\ Cardinality(B) <= Cardinality(T)
        /\ (Cardinality(T) = Cardinality(B) => T = B)
    BY <1>2, <2>1, FS_Subset
  <2>4. Cardinality(B) \in Nat
    BY <2>3, FS_CardinalityType
  <2>5. Cardinality(B) # Cardinality(T)
    BY <2>1, <2>3
  <2>6. QED
    BY <1>2, <2>0, <2>2, <2>3, <2>4, <2>5 DEF B
<1>4. QED
  BY <1>2, <1>3

(* The next position of the set has the next rank.                         *)
LEMMA RankNext ==
    ASSUME NEW n \in Nat, NEW T, T \subseteq 0 .. n, NEW j \in T, NEW k \in T,
           j < k, \A i \in T : i < k => i <= j
    PROVE  Rank(T, k) = Rank(T, j) + 1
<1>1. {i \in T : i < k} = {i \in T : i < j} \cup {j}
  <2>1. \A i \in T : i \in Nat
    OBVIOUS
  <2>2. \A i \in T : i < k <=> i < j \/ i = j
    BY <2>1
  <2>3. QED
    BY <2>2
<1>2. IsFiniteSet({i \in T : i < j}) /\ j \in Nat
  BY RankIs
<1>3. j \notin {i \in T : i < j}
  BY <1>2
<1>4. QED
  BY <1>1, <1>2, <1>3, FS_AddElement DEF Rank

(* Two positions of a set have different ranks.                            *)
LEMMA RankOnce ==
    ASSUME NEW n \in Nat, NEW T, T \subseteq 0 .. n, NEW j \in T, NEW k \in T,
           Rank(T, j) = Rank(T, k)
    PROVE  j = k
<1>1. ASSUME NEW a \in T, NEW b \in T, a < b
      PROVE  Rank(T, a) < Rank(T, b)
  <2>0. \A i \in T : i \in Nat /\ IsFiniteSet({h \in T : h < i})
                                 /\ Rank(T, i) \in Nat
    BY RankIs
  <2>1. {i \in T : i < a} \cup {a} \subseteq {i \in T : i < b}
    <3>1. \A i \in T : i < a \/ i = a => i < b
      BY <1>1, <2>0
    <3>2. QED
      BY <3>1
  <2>2. IsFiniteSet({i \in T : i < a}) /\ IsFiniteSet({i \in T : i < b})
        /\ a \notin {i \in T : i < a} /\ Rank(T, a) \in Nat /\ Rank(T, b) \in Nat
    BY <2>0
  <2>3. Cardinality({i \in T : i < a} \cup {a}) = Rank(T, a) + 1
    BY <2>2, FS_AddElement DEF Rank
  <2>4. Cardinality({i \in T : i < a} \cup {a}) <= Rank(T, b)
    BY <2>1, <2>2, FS_Subset DEF Rank
  <2>5. QED
    BY <2>2, <2>3, <2>4
<1>2. j \in Nat /\ k \in Nat /\ Rank(T, j) \in Nat
  BY RankIs
<1>3. ~ (j < k) /\ ~ (k < j)
  BY <1>1, <1>2
<1>4. QED
  BY <1>2, <1>3

(* Every rank below the size of the set is that of a position.             *)
LEMMA RankTaken ==
    ASSUME NEW n \in Nat, NEW T, T \subseteq 0 .. n,
           NEW r \in Nat, r < Cardinality(T)
    PROVE  \E j \in T : Rank(T, j) = r
<1>1. IsFiniteSet(T) /\ Cardinality(T) \in Nat /\ T # {}
  <2>1. IsFiniteSet(T) /\ Cardinality(T) \in Nat
    BY RankIs
  <2>2. Cardinality(T) # 0
    BY <2>1
  <2>3. QED
    BY <2>1, <2>2, FS_EmptySet
<1>2. \A j \in T : j \in Nat /\ Rank(T, j) \in Nat
  BY RankIs
<1>3. \E j \in T : Rank(T, j) >= r
  <2>1. PICK m \in T : \A i \in T : i <= m
    BY <1>1, GreatestOf
  <2>2. T = {i \in T : i < m} \cup {m}
    <3>1. \A i \in T : i < m \/ i = m
      BY <1>2, <2>1
    <3>2. QED
      BY <3>1
  <2>3. IsFiniteSet({i \in T : i < m}) /\ m \notin {i \in T : i < m}
    <3>1. ~ (m < m)
      BY <1>2
    <3>2. IsFiniteSet({i \in T : i < m})
      BY RankIs
    <3>3. QED
      BY <3>1, <3>2
  <2>4. Cardinality(T) = Rank(T, m) + 1
    BY <2>2, <2>3, FS_AddElement DEF Rank
  <2>5. QED
    BY <1>2, <2>4
<1> DEFINE S == {j \in T : Rank(T, j) >= r}
<1>4. PICK k \in S : \A j \in S : k <= j
  <2>1. S \subseteq Nat /\ S # {}
    BY <1>2, <1>3
  <2> HIDE DEF S
  <2>2. QED
    BY <2>1, LeastOf
<1>5. k \in T /\ Rank(T, k) >= r /\ \A j \in T : Rank(T, j) >= r => k <= j
  BY <1>4
<1>6. ASSUME Rank(T, k) # r PROVE FALSE
  <2>1. Rank(T, k) > r /\ Rank(T, k) \in Nat
    BY <1>2, <1>5, <1>6
  <2>2. {i \in T : i < k} # {}
    BY <2>1, FS_EmptySet DEF Rank
  <2>3. PICK m \in {i \in T : i < k} : \A i \in {i \in T : i < k} : i <= m
    <3>1. {i \in T : i < k} \subseteq 0 .. n
      OBVIOUS
    <3>2. QED
      BY <2>2, <3>1, GreatestOf
  <2>4. Rank(T, k) = Rank(T, m) + 1
    BY <1>5, <2>3, RankNext
  <2>5. Rank(T, m) >= r
    BY <1>2, <2>1, <2>3, <2>4
  <2>6. QED
    BY <1>2, <1>5, <2>3, <2>5
<1>7. QED
  BY <1>5, <1>6

-----------------------------------------------------------------------------
(* The answers do not change when guess and secret change places.          *)

(* The slots that compute_answer's second loop looks at, and those of them *)
(* that have a color.                                                      *)
Rest(guess, code) == (1 .. Slots) \ Reds(guess, code)
Of(c, code, rest) == {j \in rest : code[j] = c}

LEMMA RestIs ==
    ASSUME NEW guess, NEW code
    PROVE  /\ Slots \in Nat
           /\ Rest(guess, code) \subseteq 1 .. Slots
           /\ Reds(guess, code) \subseteq 1 .. Slots
           /\ Reds(guess, code) = Reds(code, guess)
           /\ Rest(guess, code) = Rest(code, guess)
           /\ 1 .. Slots \subseteq 0 .. Slots
<1>1. Slots \in Nat
  BY AnswerAssumption
<1>2. 1 .. Slots \subseteq 0 .. Slots
  BY <1>1
<1>3. QED
  BY <1>1, <1>2 DEF Rest, Reds

(* compute_answer marks the n-th slot of a color if the secret has n more. *)
LEMMA WhitesAre ==
    ASSUME NEW guess, NEW code
    PROVE  Whites(guess, code) =
             {j \in Rest(guess, code) :
                Rank(Of(guess[j], guess, Rest(guess, code)), j)
                  < Cardinality(Of(guess[j], code, Rest(guess, code)))}
<1>1. ASSUME NEW j
      PROVE  {i \in Rest(guess, code) : i < j /\ guess[i] = guess[j]}
               = {i \in Of(guess[j], guess, Rest(guess, code)) : i < j}
  BY DEF Of
<1>2. ASSUME NEW c
      PROVE  ColorsLeft(c, guess, code)
               = Cardinality(Of(c, code, Rest(guess, code)))
  BY DEF ColorsLeft, Of, Rest
<1>3. QED
  BY <1>1, <1>2 DEF Whites, Rank, Rest

(* Each white slot of the guess has a white slot of the secret.            *)
LEMMA WhitesInject ==
    ASSUME NEW guess, NEW code
    PROVE  /\ IsFiniteSet(Whites(guess, code))
           /\ Cardinality(Whites(guess, code))
                <= Cardinality(Whites(code, guess))
<1> DEFINE rest == Rest(guess, code)
           Partner(j, k) ==
             /\ code[k] = guess[j]
             /\ Rank(Of(guess[j], code, rest), k)
                  = Rank(Of(guess[j], guess, rest), j)
           f == [j \in Whites(guess, code) |->
                   CHOOSE k \in Whites(code, guess) : Partner(j, k)]
<1>1. Slots \in Nat /\ rest \subseteq 0 .. Slots /\ rest = Rest(code, guess)
  BY RestIs
<1>2. \A c, x : Of(c, x, rest) \subseteq 0 .. Slots
  BY <1>1 DEF Of
<1>3. ASSUME NEW j \in Whites(guess, code)
      PROVE  \E k \in Whites(code, guess) : Partner(j, k)
  <2>1. j \in rest /\ Rank(Of(guess[j], guess, rest), j)
                        < Cardinality(Of(guess[j], code, rest))
    BY <1>3, WhitesAre
  <2>2. j \in Of(guess[j], guess, rest)
    BY <2>1 DEF Of
  <2>3. Rank(Of(guess[j], guess, rest), j) \in Nat
        /\ Rank(Of(guess[j], guess, rest), j)
             < Cardinality(Of(guess[j], guess, rest))
    BY <1>1, <1>2, <2>2, RankIs
  <2>4. PICK k \in Of(guess[j], code, rest) :
          Rank(Of(guess[j], code, rest), k)
            = Rank(Of(guess[j], guess, rest), j)
    BY <1>1, <1>2, <2>1, <2>3, RankTaken
  <2>5. k \in rest /\ code[k] = guess[j]
    BY <2>4 DEF Of
  <2>6. k \in Whites(code, guess)
    BY <1>1, <2>3, <2>4, <2>5, WhitesAre
  <2>7. QED
    BY <2>4, <2>5, <2>6
<1>4. \A j \in Whites(guess, code) :
        f[j] \in Whites(code, guess) /\ Partner(j, f[j])
  BY <1>3
<1>5. ASSUME NEW i \in Whites(guess, code), NEW j \in Whites(guess, code),
             f[i] = f[j]
      PROVE  i = j
  <2>1. Partner(i, f[i]) /\ Partner(j, f[j])
    BY <1>4
  <2> HIDE DEF f
  <2>2. guess[i] = guess[j]
    BY <1>5, <2>1
  <2>3. Rank(Of(guess[i], guess, rest), i) = Rank(Of(guess[i], guess, rest), j)
    BY <1>5, <2>1, <2>2
  <2>4. i \in rest /\ j \in rest
    BY WhitesAre
  <2>5. i \in Of(guess[i], guess, rest) /\ j \in Of(guess[i], guess, rest)
    BY <2>2, <2>4 DEF Of
  <2>6. QED
    BY <1>1, <1>2, <2>3, <2>5, RankOnce
<1>6. IsFiniteSet(Whites(guess, code)) /\ IsFiniteSet(Whites(code, guess))
  <2>1. Whites(guess, code) \subseteq 1 .. Slots
        /\ Whites(code, guess) \subseteq 1 .. Slots
    BY RestIs, WhitesAre
  <2>2. IsFiniteSet(1 .. Slots)
    BY <1>1, FS_Interval
  <2>3. QED
    BY <2>1, <2>2, FS_Subset
<1>7. f \in Injection(Whites(guess, code), Whites(code, guess))
  <2>1. f \in [Whites(guess, code) -> Whites(code, guess)]
    BY <1>4
  <2> HIDE DEF f
  <2>2. QED
    BY <1>5, <2>1, Zenon DEF Injection, IsInjective
<1>8. QED
  BY <1>6, <1>7, FS_Injection

(* generatePopulation may exchange guess and secret: the answer is the     *)
(* same for any two codes.                                                 *)
THEOREM AnswersAreSymmetric ==
    ASSUME NEW guess \in Codes, NEW code \in Codes
    PROVE  Matches[<<guess, code>>] = Matches[<<code, guess>>]
<1>1. Cardinality(Reds(guess, code)) = Cardinality(Reds(code, guess))
  BY RestIs
<1>2. Cardinality(Whites(guess, code)) = Cardinality(Whites(code, guess))
  <2>1. Cardinality(Whites(guess, code)) <= Cardinality(Whites(code, guess))
        /\ Cardinality(Whites(code, guess)) <= Cardinality(Whites(guess, code))
    BY WhitesInject
  <2>2. Cardinality(Whites(guess, code)) \in Nat
        /\ Cardinality(Whites(code, guess)) \in Nat
    BY WhitesInject, FS_CardinalityType
  <2>3. QED
    BY <2>1, <2>2
<1>3. QED
  BY <1>1, <1>2 DEF Matches

-----------------------------------------------------------------------------
(* Red and white pegs together are what two codes have in common.          *)

(* The red slots of a color; its other slots in a code are those of Rest.  *)
RedOf(c, guess, code) == {j \in Reds(guess, code) : guess[j] = c}

LEMMA SlotsOf ==
    ASSUME NEW guess, NEW code, NEW c
    PROVE  /\ RedOf(c, guess, code) \subseteq 0 .. Slots
           /\ Of(c, guess, Rest(guess, code)) \subseteq 0 .. Slots
           /\ Of(c, code, Rest(guess, code)) \subseteq 0 .. Slots
           /\ Slots \in Nat
  BY RestIs DEF RedOf, Of

LEMMA CountIs ==
    ASSUME NEW guess, NEW code, NEW c
    PROVE  /\ Count(c, guess) = Cardinality(RedOf(c, guess, code))
                                + Cardinality(Of(c, guess, Rest(guess, code)))
           /\ Count(c, code) = Cardinality(RedOf(c, guess, code))
                               + Cardinality(Of(c, code, Rest(guess, code)))
           /\ Count(c, guess) \in 0 .. Slots /\ Count(c, code) \in 0 .. Slots
           /\ Cardinality(RedOf(c, guess, code)) \in Nat
           /\ Cardinality(Of(c, guess, Rest(guess, code))) \in Nat
           /\ Cardinality(Of(c, code, Rest(guess, code))) \in Nat
<1>1. /\ IsFiniteSet(RedOf(c, guess, code))
      /\ IsFiniteSet(Of(c, guess, Rest(guess, code)))
      /\ IsFiniteSet(Of(c, code, Rest(guess, code)))
      /\ Cardinality(RedOf(c, guess, code)) \in Nat
      /\ Cardinality(Of(c, guess, Rest(guess, code))) \in Nat
      /\ Cardinality(Of(c, code, Rest(guess, code))) \in Nat
  BY SlotsOf, RankIs
<1>2. ASSUME NEW A, NEW B, NEW x, IsFiniteSet(A), IsFiniteSet(B),
             A \cap B = {}, {j \in 1 .. Slots : x[j] = c} = A \cup B
      PROVE  /\ Count(c, x) = Cardinality(A) + Cardinality(B)
             /\ Count(c, x) \in 0 .. Slots
  <2>1. Cardinality(A \cap B) = 0
    BY <1>2, FS_EmptySet
  <2>2. Cardinality(A) \in Nat /\ Cardinality(B) \in Nat
    BY <1>2, FS_CardinalityType
  <2>3. Cardinality(A \cup B) = Cardinality(A) + Cardinality(B)
    <3>1. Cardinality(A \cup B)
            = Cardinality(A) + Cardinality(B) - Cardinality(A \cap B)
      BY <1>2, FS_Union
    <3>2. QED
      BY <2>1, <2>2, <3>1
  <2>4. Slots \in Nat /\ IsFiniteSet(1 .. Slots) /\ Cardinality(1 .. Slots) = Slots
    BY AnswerAssumption, FS_Interval
  <2>5. Cardinality(A \cup B) <= Slots
    <3>1. A \cup B \subseteq 1 .. Slots
      BY <1>2
    <3>2. QED
      BY <2>4, <3>1, FS_Subset
  <2>6. Count(c, x) = Cardinality(A \cup B)
    BY <1>2, Zenon DEF Count
  <2> HIDE DEF Count
  <2>7. QED
    BY <2>2, <2>3, <2>4, <2>5, <2>6
<1>3. RedOf(c, guess, code) \cap Of(c, guess, Rest(guess, code)) = {}
      /\ RedOf(c, guess, code) \cap Of(c, code, Rest(guess, code)) = {}
  BY DEF RedOf, Of, Rest
<1>4. {j \in 1 .. Slots : guess[j] = c}
        = RedOf(c, guess, code) \cup Of(c, guess, Rest(guess, code))
  BY RestIs DEF RedOf, Of, Rest
<1>5. {j \in 1 .. Slots : code[j] = c}
        = RedOf(c, guess, code) \cup Of(c, code, Rest(guess, code))
  BY RestIs DEF RedOf, Of, Rest, Reds
<1>6. QED
  BY <1>1, <1>2, <1>3, <1>4, <1>5

(* The peg of a slot that counts: red ones come first, then white ones.    *)
Peg(j, guess, code) ==
    <<guess[j],
      IF j \in Reds(guess, code)
        THEN Rank(RedOf(guess[j], guess, code), j) + 1
        ELSE Cardinality(RedOf(guess[j], guess, code))
               + Rank(Of(guess[j], guess, Rest(guess, code)), j) + 1>>

LEMMA RedPeg ==
    ASSUME NEW guess, NEW code, NEW j \in Reds(guess, code)
    PROVE  /\ j \in RedOf(guess[j], guess, code)
           /\ Rank(RedOf(guess[j], guess, code), j) \in Nat
           /\ Rank(RedOf(guess[j], guess, code), j)
                < Cardinality(RedOf(guess[j], guess, code))
<1>1. j \in RedOf(guess[j], guess, code)
  BY DEF RedOf
<1>2. QED
  BY <1>1, SlotsOf, RankIs

LEMMA WhitePeg ==
    ASSUME NEW guess, NEW code, NEW j \in Whites(guess, code)
    PROVE  /\ j \in Of(guess[j], guess, Rest(guess, code))
           /\ j \notin Reds(guess, code)
           /\ Rank(Of(guess[j], guess, Rest(guess, code)), j) \in Nat
           /\ Rank(Of(guess[j], guess, Rest(guess, code)), j)
                < Cardinality(Of(guess[j], guess, Rest(guess, code)))
           /\ Rank(Of(guess[j], guess, Rest(guess, code)), j)
                < Cardinality(Of(guess[j], code, Rest(guess, code)))
<1>1. /\ j \in Rest(guess, code)
      /\ Rank(Of(guess[j], guess, Rest(guess, code)), j)
           < Cardinality(Of(guess[j], code, Rest(guess, code)))
  BY WhitesAre
<1>2. j \in Of(guess[j], guess, Rest(guess, code)) /\ j \notin Reds(guess, code)
  BY <1>1 DEF Of, Rest
<1>3. QED
  BY <1>1, <1>2, SlotsOf, RankIs

LEMMA PegIsCommon ==
    ASSUME NEW guess \in Codes, NEW code \in Codes,
           NEW j \in Reds(guess, code) \cup Whites(guess, code)
    PROVE  Peg(j, guess, code) \in Pegs(guess, code)
<1> DEFINE c == guess[j]
           R == Cardinality(RedOf(c, guess, code))
           G == Cardinality(Of(c, guess, Rest(guess, code)))
           S == Cardinality(Of(c, code, Rest(guess, code)))
           n == Peg(j, guess, code)[2]
<1>1. j \in 1 .. Slots /\ c \in Colors
  BY RestIs, WhitesAre DEF Codes
<1>2. /\ Count(c, guess) = R + G /\ Count(c, code) = R + S
      /\ R \in Nat /\ G \in Nat /\ S \in Nat /\ Slots \in Nat
      /\ R + G <= Slots /\ R + S <= Slots
  BY CountIs, AnswerAssumption
<1>3. n \in Nat \ {0} /\ n <= R + G /\ n <= R + S
  <2>1. CASE j \in Reds(guess, code)
    <3>1. n = Rank(RedOf(c, guess, code), j) + 1
      BY <2>1 DEF Peg
    <3>2. Rank(RedOf(c, guess, code), j) \in Nat
          /\ Rank(RedOf(c, guess, code), j) < R
      BY <2>1, RedPeg
    <3> HIDE DEF n, R, G, S
    <3>3. QED
      BY <1>2, <3>1, <3>2
  <2>2. CASE j \in Whites(guess, code)
    <3>1. j \notin Reds(guess, code)
      BY <2>2, WhitePeg
    <3>2. n = R + Rank(Of(c, guess, Rest(guess, code)), j) + 1
      BY <3>1 DEF Peg
    <3>3. /\ Rank(Of(c, guess, Rest(guess, code)), j) \in Nat
          /\ Rank(Of(c, guess, Rest(guess, code)), j) < G
          /\ Rank(Of(c, guess, Rest(guess, code)), j) < S
      BY <2>2, WhitePeg
    <3> HIDE DEF n, R, G, S
    <3>4. QED
      BY <1>2, <3>2, <3>3
  <2>3. QED
    BY <2>1, <2>2
<1>4. Peg(j, guess, code) = <<c, n>>
  BY DEF Peg
<1> HIDE DEF n, R, G, S
<1>5. n \in 1 .. Slots /\ n <= Common(c, guess, code)
  BY <1>2, <1>3 DEF Common
<1>6. QED
  BY <1>1, <1>4, <1>5 DEF Pegs

LEMMA PegOnce ==
    ASSUME NEW guess, NEW code,
           NEW i \in Reds(guess, code) \cup Whites(guess, code),
           NEW j \in Reds(guess, code) \cup Whites(guess, code),
           Peg(i, guess, code) = Peg(j, guess, code)
    PROVE  i = j
<1> DEFINE R == RedOf(guess[i], guess, code)
           G == Of(guess[i], guess, Rest(guess, code))
<1>1. guess[i] = guess[j] /\ Peg(i, guess, code)[2] = Peg(j, guess, code)[2]
  BY DEF Peg
<1>2. Cardinality(R) \in Nat
  BY CountIs
<1>3. ASSUME NEW k \in {i, j}, k \in Reds(guess, code)
      PROVE  /\ k \in R /\ Rank(R, k) \in Nat /\ Rank(R, k) < Cardinality(R)
             /\ Peg(k, guess, code)[2] = Rank(R, k) + 1
  BY <1>1, <1>3, RedPeg DEF Peg
<1>4. ASSUME NEW k \in {i, j}, k \notin Reds(guess, code)
      PROVE  /\ k \in G /\ Rank(G, k) \in Nat
             /\ Peg(k, guess, code)[2] = Cardinality(R) + Rank(G, k) + 1
  BY <1>1, <1>4, WhitePeg DEF Peg
<1>5. R \subseteq 0 .. Slots /\ G \subseteq 0 .. Slots /\ Slots \in Nat
  BY SlotsOf
<1> HIDE DEF R, G
<1>6. CASE i \in Reds(guess, code) /\ j \in Reds(guess, code)
  <2>1. i \in R /\ j \in R /\ Rank(R, i) = Rank(R, j)
    BY <1>1, <1>3, <1>6
  <2>2. QED
    BY <1>5, <2>1, RankOnce
<1>7. CASE i \notin Reds(guess, code) /\ j \notin Reds(guess, code)
  <2>1. i \in G /\ j \in G /\ Rank(G, i) = Rank(G, j)
    BY <1>1, <1>2, <1>4, <1>7
  <2>2. QED
    BY <1>5, <2>1, RankOnce
<1>8. CASE i \in Reds(guess, code) /\ j \notin Reds(guess, code)
  BY <1>1, <1>2, <1>3, <1>4, <1>8
<1>9. CASE i \notin Reds(guess, code) /\ j \in Reds(guess, code)
  BY <1>1, <1>2, <1>3, <1>4, <1>9
<1>10. QED
  BY <1>6, <1>7, <1>8, <1>9

LEMMA PegTaken ==
    ASSUME NEW guess \in Codes, NEW code \in Codes,
           NEW p \in Pegs(guess, code)
    PROVE  \E j \in Reds(guess, code) \cup Whites(guess, code) :
             Peg(j, guess, code) = p
<1> DEFINE c == p[1]
           n == p[2]
           RedSet == RedOf(c, guess, code)
           GuessSet == Of(c, guess, Rest(guess, code))
           CodeSet == Of(c, code, Rest(guess, code))
<1>1. p = <<c, n>> /\ n \in 1 .. Slots /\ n <= Common(c, guess, code)
  BY DEF Pegs
<1>2. /\ Count(c, guess) = Cardinality(RedSet) + Cardinality(GuessSet)
      /\ Count(c, code) = Cardinality(RedSet) + Cardinality(CodeSet)
      /\ Cardinality(RedSet) \in Nat /\ Cardinality(GuessSet) \in Nat
      /\ Cardinality(CodeSet) \in Nat /\ Slots \in Nat
  BY CountIs, AnswerAssumption
<1>3. /\ RedSet \subseteq 0 .. Slots /\ GuessSet \subseteq 0 .. Slots
      /\ CodeSet \subseteq 0 .. Slots
  BY SlotsOf
<1>4. n \in Nat \ {0} /\ n <= Count(c, guess) /\ n <= Count(c, code)
  <2> HIDE DEF n, c, RedSet, GuessSet, CodeSet
  <2>1. QED
    BY <1>1, <1>2 DEF Common
<1>5. CASE n <= Cardinality(RedSet)
  <2>1. n - 1 \in Nat /\ n - 1 < Cardinality(RedSet)
    <3> HIDE DEF n, RedSet
    <3>1. QED
      BY <1>2, <1>4, <1>5
  <2>2. PICK j \in RedSet : Rank(RedSet, j) = n - 1
    BY <1>2, <1>3, <2>1, RankTaken
  <2>3. j \in Reds(guess, code) /\ guess[j] = c
    BY <2>2 DEF RedOf
  <2>4. Peg(j, guess, code) = <<c, (n - 1) + 1>>
    BY <2>2, <2>3 DEF Peg
  <2>5. (n - 1) + 1 = n
    <3> HIDE DEF n
    <3>1. QED
      BY <1>4
  <2>6. QED
    BY <1>1, <2>3, <2>4, <2>5
<1>6. CASE ~ (n <= Cardinality(RedSet))
  <2> DEFINE r == n - Cardinality(RedSet) - 1
  <2>1. /\ r \in Nat /\ r < Cardinality(GuessSet) /\ r < Cardinality(CodeSet)
        /\ Cardinality(RedSet) + r + 1 = n
    <3> HIDE DEF n, RedSet, GuessSet, CodeSet
    <3>1. QED
      BY <1>2, <1>4, <1>6
  <2> HIDE DEF r
  <2>2. PICK j \in GuessSet : Rank(GuessSet, j) = r
    BY <1>2, <1>3, <2>1, RankTaken
  <2>3. j \in Rest(guess, code) /\ guess[j] = c /\ j \notin Reds(guess, code)
    BY <2>2 DEF Of, Rest
  <2>4. j \in Whites(guess, code)
    BY <2>1, <2>2, <2>3, WhitesAre
  <2>5. Peg(j, guess, code) = <<c, Cardinality(RedSet) + r + 1>>
    BY <2>2, <2>3 DEF Peg
  <2>6. QED
    BY <1>1, <2>1, <2>4, <2>5
<1>7. QED
  BY <1>5, <1>6

(* compute_answer's marking and counting down gets at the size of what two *)
(* codes have in common, color by color.                                   *)
THEOREM RedsAndWhites ==
    ASSUME NEW guess \in Codes, NEW code \in Codes
    PROVE  Cardinality(Reds(guess, code)) + Cardinality(Whites(guess, code))
             = Cardinality(Pegs(guess, code))
<1> DEFINE D == Reds(guess, code) \cup Whites(guess, code)
           f == [j \in D |-> Peg(j, guess, code)]
<1>1. /\ IsFiniteSet(Reds(guess, code)) /\ IsFiniteSet(Whites(guess, code))
      /\ Cardinality(Reds(guess, code)) \in Nat
      /\ Cardinality(Whites(guess, code)) \in Nat
  <2>1. Reds(guess, code) \subseteq 0 .. Slots /\ Slots \in Nat
    BY RestIs
  <2>2. QED
    BY <2>1, RankIs, WhitesInject, FS_CardinalityType
<1>2. Reds(guess, code) \cap Whites(guess, code) = {}
  BY WhitePeg
<1>3. /\ IsFiniteSet(D)
      /\ Cardinality(D)
           = Cardinality(Reds(guess, code)) + Cardinality(Whites(guess, code))
  <2>1. Cardinality(Reds(guess, code) \cap Whites(guess, code)) = 0
    BY <1>2, FS_EmptySet
  <2>2. IsFiniteSet(D)
        /\ Cardinality(D)
             = Cardinality(Reds(guess, code)) + Cardinality(Whites(guess, code))
               - Cardinality(Reds(guess, code) \cap Whites(guess, code))
    BY <1>1, FS_Union
  <2>3. QED
    BY <1>1, <2>1, <2>2
<1>4. f \in Bijection(D, Pegs(guess, code))
  <2>1. f \in [D -> Pegs(guess, code)]
    BY PegIsCommon
  <2>2. \A i, j \in D : f[i] = f[j] => i = j
    BY PegOnce
  <2>3. \A p \in Pegs(guess, code) : \E j \in D : f[j] = p
    BY PegTaken
  <2> HIDE DEF f, D
  <2>4. f \in Injection(D, Pegs(guess, code))
    BY <2>1, <2>2, Zenon DEF Injection, IsInjective
  <2>5. f \in Surjection(D, Pegs(guess, code))
    BY <2>1, <2>3, Zenon DEF Surjection
  <2>6. QED
    BY <2>4, <2>5 DEF Bijection
<1>5. Cardinality(Pegs(guess, code)) = Cardinality(D)
  <2> HIDE DEF f, D
  <2>1. ExistsBijection(D, Pegs(guess, code))
    BY <1>4 DEF ExistsBijection
  <2>2. QED
    BY <1>3, <2>1, FS_Bijection
<1>6. QED
  BY <1>3, <1>5

-----------------------------------------------------------------------------
(* Types of what both programs compute.                                    *)

LEMMA ColorsAre == 2 ^ ColorBits \in Nat \ {0}
<1>1. ColorBits \in Nat /\ IsFiniteSet(1 .. ColorBits)
      /\ Cardinality(1 .. ColorBits) = ColorBits
  BY AnswerAssumption, FS_Interval
<1>2. IsFiniteSet(SUBSET (1 .. ColorBits))
      /\ Cardinality(SUBSET (1 .. ColorBits)) = 2 ^ ColorBits
  BY <1>1, FS_SUBSET
<1>3. Cardinality(SUBSET (1 .. ColorBits)) \in Nat
      /\ Cardinality(SUBSET (1 .. ColorBits)) # 0
  <2>1. SUBSET (1 .. ColorBits) # {}
    OBVIOUS
  <2>2. QED
    BY <1>2, <2>1, FS_CardinalityType, FS_EmptySet
<1>4. QED
  BY <1>2, <1>3

LEMMA InitialGuessIsCode == InitialGuess \in Codes
<1>1. ASSUME NEW n \in Nat \ {0}, NEW j \in 1 .. Slots
      PROVE  (j - 1) % n \in 0 .. n - 1
  BY AnswerAssumption
<1>2. \A j \in 1 .. Slots : (j - 1) % 2 ^ ColorBits \in Colors
  BY <1>1, ColorsAre DEF Colors
<1>3. QED
  BY <1>2 DEF InitialGuess, Codes

LEMMA ParityType == \A code \in Codes : Parity(code) \in {0, 1}
<1> SUFFICES ASSUME NEW code \in Codes PROVE Parity(code) \in {0, 1}
  OBVIOUS
<1> DEFINE bits == (1 .. Slots) \X (0 .. ColorBits - 1)
           ones == {p \in bits : (code[p[1]] \div 2 ^ p[2]) % 2 = 1}
<1>1. IsFiniteSet(bits)
  <2>1. IsFiniteSet(1 .. Slots) /\ IsFiniteSet(0 .. ColorBits - 1)
    BY AnswerAssumption, FS_Interval
  <2>2. QED
    BY <2>1, FS_Product
<1>2. ones \subseteq bits
  OBVIOUS
<1>3. Parity(code) = Cardinality(ones) % 2
  BY DEF Parity
<1> HIDE DEF bits, ones
<1>4. Cardinality(ones) \in Nat
  BY <1>1, <1>2, FS_Subset, FS_CardinalityType
<1>5. QED
  BY <1>3, <1>4

LEMMA AnswerTypes ==
    ASSUME NEW guess \in Codes, NEW code \in Codes
    PROVE  /\ Cardinality(Reds(guess, code)) \in 0 .. Slots
           /\ Cardinality(Whites(guess, code)) \in 0 .. Slots
           /\ Cardinality(Reds(guess, code)) = Slots <=> guess = code
<1>1. /\ Slots \in Nat /\ IsFiniteSet(1 .. Slots)
      /\ Cardinality(1 .. Slots) = Slots
  BY AnswerAssumption, FS_Interval
<1>2. ASSUME NEW S, S \subseteq 1 .. Slots
      PROVE  /\ Cardinality(S) \in 0 .. Slots
             /\ Cardinality(S) = Slots <=> S = 1 .. Slots
  <2>1. /\ IsFiniteSet(S) /\ Cardinality(S) <= Slots
        /\ Cardinality(1 .. Slots) = Cardinality(S) => 1 .. Slots = S
    BY <1>1, <1>2, FS_Subset
  <2>2. Cardinality(S) \in Nat
    BY <2>1, FS_CardinalityType
  <2>3. QED
    BY <1>1, <2>1, <2>2
<1>3. Reds(guess, code) \subseteq 1 .. Slots
      /\ Whites(guess, code) \subseteq 1 .. Slots
  BY RestIs, WhitesAre
<1>4. Reds(guess, code) = 1 .. Slots <=> guess = code
  <2>1. ASSUME \A j \in 1 .. Slots : guess[j] = code[j] PROVE guess = code
    <3>1. guess = [j \in 1 .. Slots |-> guess[j]]
          /\ code = [j \in 1 .. Slots |-> code[j]]
      BY DEF Codes
    <3>2. [j \in 1 .. Slots |-> guess[j]] = [j \in 1 .. Slots |-> code[j]]
      BY <2>1
    <3>3. QED
      BY <3>1, <3>2, Zenon
  <2>2. Reds(guess, code) = 1 .. Slots <=> \A j \in 1 .. Slots : guess[j] = code[j]
    BY DEF Reds
  <2>3. QED
    BY <2>1, <2>2
<1>5. QED
  BY <1>2, <1>3, <1>4

LEMMA OneMessage ==
    ASSUME NEW x
    PROVE  /\ Append(<< >>, x) = <<x>> /\ Head(<<x>>) = x
           /\ Tail(<<x>>) = << >> /\ <<x>> # << >>
  OBVIOUS

-----------------------------------------------------------------------------
(* The invariant of the game.                                              *)

GameInv == TypeOK /\ FlowInv /\ RoundInv /\ SecretStaysPossible /\ VerdictInv

(* What the server answers to the guess on its way.                        *)
TheAnswer ==
    [red |-> Cardinality(Reds(request, secret)),
     white |-> Cardinality(Whites(request, secret)),
     parityError |-> FALSE,
     lost |-> round = MaxTries /\ request # secret]

LEMMA VerdictIs ==
    ASSUME GameInv
    PROVE  /\ TheAnswer \in Answers /\ Right(TheAnswer)
           /\ Verdict(TheAnswer) = IF request = secret THEN "won"
                                   ELSE IF round = MaxTries THEN "lost"
                                   ELSE "none"
<1>1. request \in Codes /\ secret \in Codes
  BY DEF GameInv, TypeOK
<1>2. /\ Cardinality(Reds(request, secret)) \in 0 .. Slots
      /\ Cardinality(Whites(request, secret)) \in 0 .. Slots
      /\ Cardinality(Reds(request, secret)) = Slots <=> request = secret
  BY <1>1, AnswerTypes
<1>3. QED
  BY <1>2 DEF TheAnswer, Answers, Right, Verdict

LEMMA ServerAnswers ==
    ASSUME GameInv, SrvAnswer
    PROVE  /\ cl \in {"recv", "done"} /\ connection = "accepted"
           /\ toServer # << >> /\ toClient = << >> /\ toServer' = << >>
           /\ toClient' = IF cl = "done" THEN << >> ELSE <<TheAnswer>>
           /\ srvRet' = Verdict(TheAnswer)
           /\ IF Verdict(TheAnswer) = "none"
                THEN srv' = "loop" /\ round' = round + 1
                ELSE srv' = "exit" /\ round' = round
           /\ UNCHANGED <<connection, secret, srvQuit, clVars, signals>>
<1> DEFINE m == [guess |-> request, parity |-> Parity(request)]
<1>1. toServer = <<m>> /\ toClient = << >> /\ cl \in {"recv", "done"}
      /\ connection = "accepted"
  BY DEF GameInv, FlowInv, SrvAnswer
<1>2. request \in Codes /\ secret \in Codes
  BY DEF GameInv, TypeOK
<1>3. Cardinality(Reds(request, secret)) = Slots <=> request = secret
  BY <1>2, AnswerTypes
<1>4. Matches[<<request, secret>>]
        = [red |-> Cardinality(Reds(request, secret)),
           white |-> Cardinality(Whites(request, secret))]
  BY <1>2 DEF Matches
<1>5. ComputeAnswer(m) = TheAnswer
  <2>1. m.guess = request /\ m.parity = Parity(request)
    OBVIOUS
  <2> DEFINE match == Matches[<<request, secret>>]
  <2>2. /\ match.red = Cardinality(Reds(request, secret))
        /\ match.white = Cardinality(Whites(request, secret))
    BY <1>4
  <2> HIDE DEF m, match
  <2>3. ComputeAnswer(m)
          = [red |-> match.red, white |-> match.white, parityError |-> FALSE,
             lost |-> round = MaxTries /\ match.red # Slots]
    BY <2>1 DEF ComputeAnswer, match
  <2>4. (round = MaxTries /\ match.red # Slots)
          = (round = MaxTries /\ request # secret)
    BY <1>3, <2>2
  <2>5. QED
    BY <2>2, <2>3, <2>4, Zenon DEF TheAnswer
<1>6. Head(toServer) = m /\ Tail(toServer) = << >>
      /\ Append(toClient, TheAnswer) = <<TheAnswer>>
  BY <1>1, OneMessage
<1> HIDE DEF m
<1>7. QED
  BY <1>1, <1>5, <1>6, OneMessage DEF SrvAnswer

(* The candidates stay codes, and the secret stays among them as long as   *)
(* the response is about it.                                               *)
LEMMA ClientDecides ==
    ASSUME GameInv, ClDecide, ~ clQuit, Verdict(response) = "none"
    PROVE  /\ request' \in Codes /\ population' \subseteq Codes
           /\ srv # "done" => secret \in population'
           /\ toClient = << >> /\ toServer = << >>
           /\ cl' = "loop" /\ UNCHANGED <<toClient, clRet>>
<1>1. request \in Codes /\ secret \in Codes /\ population \subseteq Codes
  BY DEF GameInv, TypeOK
<1>2. /\ population' = IF Consistent(population) # {}
                         THEN Consistent(population) ELSE Consistent(Codes)
      /\ request' \in IF population' # {} THEN population' ELSE Codes
      /\ cl' = "loop" /\ UNCHANGED <<toClient, clRet>>
      /\ cl = "decide"
  BY DEF ClDecide
<1>3. toClient = << >> /\ toServer = << >>
  BY <1>2 DEF GameInv, FlowInv
<1>4. Consistent(population) \subseteq Codes /\ Consistent(Codes) \subseteq Codes
  BY <1>1 DEF Consistent
<1>5. population' \subseteq Codes /\ request' \in Codes
  BY <1>2, <1>4
<1>6. ASSUME srv # "done" PROVE secret \in Consistent(population)
  <2>1. Right(response) /\ secret \in population
    BY <1>2, <1>6 DEF GameInv, RoundInv, SecretStaysPossible
  <2>2. Matches[<<secret, request>>] = Matches[<<request, secret>>]
    BY <1>1, AnswersAreSymmetric
  <2>3. Matches[<<request, secret>>]
          = [red |-> response.red, white |-> response.white]
    BY <1>1, <2>1 DEF Matches, Right
  <2>4. QED
    BY <2>1, <2>2, <2>3 DEF Consistent
<1>7. srv # "done" => secret \in population'
  BY <1>2, <1>6
<1>8. QED
  BY <1>2, <1>3, <1>5, <1>7

-----------------------------------------------------------------------------
(* Every step preserves it.                                                *)

(* The types of what is not a sequence, in parts.                          *)
PhaseTypes ==
    /\ connection \in {"none", "pending", "accepted"}
    /\ srv \in {"args", "listen", "accept", "loop", "read", "exit", "done"}
    /\ cl \in {"start", "connect", "loop", "recv", "decide", "done"}

EndTypes ==
    /\ srvRet \in Verdicts /\ clRet \in Verdicts
    /\ srvQuit \in BOOLEAN /\ clQuit \in BOOLEAN

NumberTypes ==
    /\ round \in 1 .. MaxTries + 1 /\ rounds \in 0 .. MaxTries + MaxLate + 1
    /\ late \in 0 .. MaxLate /\ signals \in 0 .. MaxSignals

GameTypes ==
    /\ secret \in Codes /\ request \in Codes /\ population \subseteq Codes
    /\ response \in Answers

(* Every step keeps the phases.                                            *)
LEMMA PhasesNext ==
    ASSUME GameInv, [Next]_vars
    PROVE  PhaseTypes'
<1>1. PhaseTypes
  BY DEF GameInv, TypeOK, PhaseTypes
<1>2. CASE SrvParseArgs
  BY <1>1, <1>2 DEF SrvParseArgs, SrvFails, clVars, PhaseTypes
<1>3. CASE SrvListen
  BY <1>1, <1>3 DEF SrvListen, SrvFails, clVars, PhaseTypes
<1>4. CASE SrvAccept
  BY <1>1, <1>4 DEF SrvAccept, SrvFails, clVars, PhaseTypes
<1>5. CASE SrvLoop
  BY <1>1, <1>5 DEF SrvLoop, clVars, PhaseTypes
<1>6. CASE SrvAnswer
  BY <1>1, <1>6 DEF SrvAnswer, clVars, PhaseTypes
<1>7. CASE SrvHangsUp
  BY <1>1, <1>7 DEF SrvHangsUp, clVars, PhaseTypes
<1>8. CASE SrvExit
  BY <1>1, <1>8 DEF SrvExit, clVars, PhaseTypes
<1>9. CASE SrvSignal
  BY <1>1, <1>9 DEF SrvSignal, clVars, PhaseTypes
<1>10. CASE SrvInterrupted
  BY <1>1, <1>10 DEF SrvInterrupted, SrvFails, clVars, PhaseTypes
<1>11. CASE ClStart
  BY <1>1, <1>11 DEF ClStart, ClExit, gameVars, srvVars, PhaseTypes
<1>12. CASE ClConnect
  BY <1>1, <1>12 DEF ClConnect, ClExit, gameVars, srvVars, PhaseTypes
<1>13. CASE ClQuit
  BY <1>1, <1>13 DEF ClQuit, AfterLoop, ClExit, srvVars, PhaseTypes
<1>14. CASE ClSend
  BY <1>1, <1>14 DEF ClSend, srvVars, PhaseTypes
<1>15. CASE ClKilled
  BY <1>1, <1>15 DEF ClKilled, ClExit, srvVars, PhaseTypes
<1>16. CASE ClRecv
  BY <1>1, <1>16 DEF ClRecv, srvVars, PhaseTypes
<1>17. CASE ClReset
  BY <1>1, <1>17 DEF ClReset, ClExit, srvVars, PhaseTypes
<1>18. CASE ClDecide
  BY <1>1, <1>18 DEF ClDecide, AfterLoop, ClExit, srvVars, PhaseTypes
<1>19. CASE ClSignal
  BY <1>1, <1>19 DEF ClSignal, ClExit, gameVars, srvVars, PhaseTypes
<1>20. CASE ClInterrupted
  BY <1>1, <1>20 DEF ClInterrupted, ClExit, srvVars, PhaseTypes
<1>21. CASE UNCHANGED vars
  BY <1>1, <1>21 DEF vars, srvVars, clVars, PhaseTypes
<1>22. QED
  BY <1>2, <1>3, <1>4, <1>5, <1>6, <1>7, <1>8, <1>9, <1>10, <1>11, <1>12,
     <1>13, <1>14, <1>15, <1>16, <1>17, <1>18, <1>19, <1>20, <1>21
     DEF Next, Server, Client, Finished

(* Every step keeps what is known of the end.                              *)
LEMMA EndsNext ==
    ASSUME GameInv, [Next]_vars
    PROVE  EndTypes'
<1>1. /\ EndTypes /\ \A r : Verdict(r) \in Verdicts
      /\ {"none", "quit", "failure", "killed", "multiple"} \subseteq Verdicts
  BY DEF GameInv, TypeOK, EndTypes, Verdict, Verdicts
<1>2. CASE SrvParseArgs
  BY <1>1, <1>2 DEF SrvParseArgs, SrvFails, clVars, EndTypes
<1>3. CASE SrvListen
  BY <1>1, <1>3 DEF SrvListen, SrvFails, clVars, EndTypes
<1>4. CASE SrvAccept
  BY <1>1, <1>4 DEF SrvAccept, SrvFails, clVars, EndTypes
<1>5. CASE SrvLoop
  BY <1>1, <1>5 DEF SrvLoop, clVars, EndTypes
<1>6. CASE SrvAnswer
  BY <1>1, <1>6 DEF SrvAnswer, clVars, EndTypes
<1>7. CASE SrvHangsUp
  BY <1>1, <1>7 DEF SrvHangsUp, clVars, EndTypes
<1>8. CASE SrvExit
  BY <1>1, <1>8 DEF SrvExit, clVars, EndTypes
<1>9. CASE SrvSignal
  BY <1>1, <1>9 DEF SrvSignal, clVars, EndTypes
<1>10. CASE SrvInterrupted
  BY <1>1, <1>10 DEF SrvInterrupted, SrvFails, clVars, EndTypes
<1>11. CASE ClStart
  BY <1>1, <1>11 DEF ClStart, ClExit, gameVars, srvVars, EndTypes
<1>12. CASE ClConnect
  BY <1>1, <1>12 DEF ClConnect, ClExit, gameVars, srvVars, EndTypes
<1>13. CASE ClQuit
  BY <1>1, <1>13 DEF ClQuit, AfterLoop, ClExit, srvVars, EndTypes
<1>14. CASE ClSend
  BY <1>1, <1>14 DEF ClSend, srvVars, EndTypes
<1>15. CASE ClKilled
  BY <1>1, <1>15 DEF ClKilled, ClExit, srvVars, EndTypes
<1>16. CASE ClRecv
  BY <1>1, <1>16 DEF ClRecv, srvVars, EndTypes
<1>17. CASE ClReset
  BY <1>1, <1>17 DEF ClReset, ClExit, srvVars, EndTypes
<1>18. CASE ClDecide
  BY <1>1, <1>18 DEF ClDecide, AfterLoop, ClExit, srvVars, EndTypes
<1>19. CASE ClSignal
  BY <1>1, <1>19 DEF ClSignal, ClExit, gameVars, srvVars, EndTypes
<1>20. CASE ClInterrupted
  BY <1>1, <1>20 DEF ClInterrupted, ClExit, srvVars, EndTypes
<1>21. CASE UNCHANGED vars
  BY <1>1, <1>21 DEF vars, srvVars, clVars, EndTypes
<1>22. QED
  BY <1>2, <1>3, <1>4, <1>5, <1>6, <1>7, <1>8, <1>9, <1>10, <1>11, <1>12,
     <1>13, <1>14, <1>15, <1>16, <1>17, <1>18, <1>19, <1>20, <1>21
     DEF Next, Server, Client, Finished

(* Every step keeps the counters.                                          *)
LEMMA NumbersNext ==
    ASSUME GameInv, [Next]_vars
    PROVE  NumberTypes'
<1>1. NumberTypes /\ round \in 1 .. MaxTries /\ rounds <= round + late
      /\ MaxTries \in Nat \ {0} /\ MaxLate \in Nat /\ MaxSignals \in Nat
  BY GameAssumption DEF GameInv, TypeOK, NumberTypes, RoundInv
<1>2. CASE SrvParseArgs
  BY <1>1, <1>2 DEF SrvParseArgs, SrvFails, clVars, NumberTypes
<1>3. CASE SrvListen
  BY <1>1, <1>3 DEF SrvListen, SrvFails, clVars, NumberTypes
<1>4. CASE SrvAccept
  BY <1>1, <1>4 DEF SrvAccept, SrvFails, clVars, NumberTypes
<1>5. CASE SrvLoop
  BY <1>1, <1>5 DEF SrvLoop, clVars, NumberTypes
<1>6. CASE SrvAnswer
  BY <1>1, <1>6 DEF SrvAnswer, clVars, NumberTypes
<1>7. CASE SrvHangsUp
  BY <1>1, <1>7 DEF SrvHangsUp, clVars, NumberTypes
<1>8. CASE SrvExit
  BY <1>1, <1>8 DEF SrvExit, clVars, NumberTypes
<1>9. CASE SrvSignal
  BY <1>1, <1>9 DEF SrvSignal, clVars, NumberTypes
<1>10. CASE SrvInterrupted
  BY <1>1, <1>10 DEF SrvInterrupted, SrvFails, clVars, NumberTypes
<1>11. CASE ClStart
  BY <1>1, <1>11 DEF ClStart, ClExit, gameVars, srvVars, NumberTypes
<1>12. CASE ClConnect
  BY <1>1, <1>12 DEF ClConnect, ClExit, gameVars, srvVars, NumberTypes
<1>13. CASE ClQuit
  BY <1>1, <1>13 DEF ClQuit, AfterLoop, ClExit, srvVars, NumberTypes
<1>14. CASE ClSend
  BY <1>1, <1>14 DEF ClSend, srvVars, NumberTypes
<1>15. CASE ClKilled
  BY <1>1, <1>15 DEF ClKilled, ClExit, srvVars, NumberTypes
<1>16. CASE ClRecv
  BY <1>1, <1>16 DEF ClRecv, srvVars, NumberTypes
<1>17. CASE ClReset
  BY <1>1, <1>17 DEF ClReset, ClExit, srvVars, NumberTypes
<1>18. CASE ClDecide
  BY <1>1, <1>18 DEF ClDecide, AfterLoop, ClExit, srvVars, NumberTypes
<1>19. CASE ClSignal
  BY <1>1, <1>19 DEF ClSignal, ClExit, gameVars, srvVars, NumberTypes
<1>20. CASE ClInterrupted
  BY <1>1, <1>20 DEF ClInterrupted, ClExit, srvVars, NumberTypes
<1>21. CASE UNCHANGED vars
  BY <1>1, <1>21 DEF vars, srvVars, clVars, NumberTypes
<1>22. QED
  BY <1>2, <1>3, <1>4, <1>5, <1>6, <1>7, <1>8, <1>9, <1>10, <1>11, <1>12,
     <1>13, <1>14, <1>15, <1>16, <1>17, <1>18, <1>19, <1>20, <1>21
     DEF Next, Server, Client, Finished

(* Every step keeps the codes.                                             *)
LEMMA GamesNext ==
    ASSUME GameInv, [Next]_vars
    PROVE  GameTypes'
<1>1. GameTypes
  BY DEF GameInv, TypeOK, GameTypes
<1>2. CASE SrvParseArgs
  BY <1>1, <1>2 DEF SrvParseArgs, SrvFails, clVars, GameTypes
<1>3. CASE SrvListen
  BY <1>1, <1>3 DEF SrvListen, SrvFails, clVars, GameTypes
<1>4. CASE SrvAccept
  BY <1>1, <1>4 DEF SrvAccept, SrvFails, clVars, GameTypes
<1>5. CASE SrvLoop
  BY <1>1, <1>5 DEF SrvLoop, clVars, GameTypes
<1>6. CASE SrvAnswer
  BY <1>1, <1>6 DEF SrvAnswer, clVars, GameTypes
<1>7. CASE SrvHangsUp
  BY <1>1, <1>7 DEF SrvHangsUp, clVars, GameTypes
<1>8. CASE SrvExit
  BY <1>1, <1>8 DEF SrvExit, clVars, GameTypes
<1>9. CASE SrvSignal
  BY <1>1, <1>9 DEF SrvSignal, clVars, GameTypes
<1>10. CASE SrvInterrupted
  BY <1>1, <1>10 DEF SrvInterrupted, SrvFails, clVars, GameTypes
<1>11. CASE ClStart
  BY <1>1, <1>11 DEF ClStart, ClExit, gameVars, srvVars, GameTypes
<1>12. CASE ClConnect
  BY <1>1, <1>12 DEF ClConnect, ClExit, gameVars, srvVars, GameTypes
<1>13. CASE ClQuit
  BY <1>1, <1>13 DEF ClQuit, AfterLoop, ClExit, srvVars, GameTypes
<1>14. CASE ClSend
  BY <1>1, <1>14 DEF ClSend, srvVars, GameTypes
<1>15. CASE ClKilled
  BY <1>1, <1>15 DEF ClKilled, ClExit, srvVars, GameTypes
<1>16. CASE ClRecv
  <2>1. ASSUME toClient # << >> PROVE Head(toClient) \in Answers
    BY <2>1, OneMessage DEF GameInv, FlowInv
  <2>2. response' \in Answers /\ UNCHANGED <<secret, request, population>>
    BY <1>1, <2>1, <1>16 DEF GameTypes, ClRecv, srvVars
  <2>3. QED
    BY <1>1, <2>2 DEF GameTypes
<1>17. CASE ClReset
  BY <1>1, <1>17 DEF ClReset, ClExit, srvVars, GameTypes
<1>18. CASE ClDecide
  <2>1. UNCHANGED <<secret, response>>
    BY <1>18 DEF ClDecide, srvVars
  <2>2. \/ UNCHANGED <<request, population>>
        \/ ~ clQuit /\ Verdict(response) = "none"
    BY <1>18 DEF ClDecide
  <2>3. request' \in Codes /\ population' \subseteq Codes
    BY <1>1, <2>2, <1>18, ClientDecides DEF GameTypes
  <2>4. QED
    BY <1>1, <2>1, <2>3 DEF GameTypes
<1>19. CASE ClSignal
  BY <1>1, <1>19 DEF ClSignal, ClExit, gameVars, srvVars, GameTypes
<1>20. CASE ClInterrupted
  BY <1>1, <1>20 DEF ClInterrupted, ClExit, srvVars, GameTypes
<1>21. CASE UNCHANGED vars
  BY <1>1, <1>21 DEF vars, srvVars, clVars, GameTypes
<1>22. QED
  BY <1>2, <1>3, <1>4, <1>5, <1>6, <1>7, <1>8, <1>9, <1>10, <1>11, <1>12,
     <1>13, <1>14, <1>15, <1>16, <1>17, <1>18, <1>19, <1>20, <1>21
     DEF Next, Server, Client, Finished

(* What is right about an answer stays right as long as guess and secret   *)
(* stay.                                                                   *)
LEMMA RightStays ==
    ASSUME NEW r, Right(r), request' = request, secret' = secret
    PROVE  Right(r)'
  BY DEF Right

(* Every step keeps guesses and answers apart.                             *)
LEMMA FlowNext ==
    ASSUME GameInv, [Next]_vars
    PROVE  FlowInv'
<1>1. FlowInv
  BY DEF GameInv
<1>2. CASE SrvParseArgs
  BY <1>1, <1>2 DEF SrvParseArgs, SrvFails, clVars, FlowInv, Right
<1>3. CASE SrvListen
  BY <1>1, <1>3 DEF SrvListen, SrvFails, clVars, FlowInv, Right
<1>4. CASE SrvAccept
  BY <1>1, <1>4 DEF SrvAccept, SrvFails, clVars, FlowInv, Right
<1>5. CASE SrvLoop
  BY <1>1, <1>5 DEF SrvLoop, clVars, FlowInv, Right
<1>6. CASE SrvAnswer
  <2>1. /\ cl \in {"recv", "done"} /\ connection = "accepted"
        /\ toServer' = << >> /\ srv' \in {"loop", "exit"}
        /\ toClient' = IF cl = "done" THEN << >> ELSE <<TheAnswer>>
        /\ UNCHANGED <<connection, cl, request, secret>>
    BY <1>6, ServerAnswers DEF clVars
  <2>2. PICK r \in Answers : r = TheAnswer /\ Right(r)
    BY VerdictIs
  <2>3. Right(r)'
    BY <2>1, <2>2, RightStays
  <2>4. QED
    BY <1>1, <2>1, <2>2, <2>3 DEF FlowInv
<1>7. CASE SrvHangsUp
  BY <1>1, <1>7 DEF SrvHangsUp, clVars, FlowInv, Right
<1>8. CASE SrvExit
  BY <1>1, <1>8 DEF SrvExit, clVars, FlowInv, Right
<1>9. CASE SrvSignal
  BY <1>1, <1>9 DEF SrvSignal, clVars, FlowInv, Right
<1>10. CASE SrvInterrupted
  BY <1>1, <1>10 DEF SrvInterrupted, SrvFails, clVars, FlowInv, Right
<1>11. CASE ClStart
  BY <1>1, <1>11 DEF ClStart, ClExit, gameVars, srvVars, FlowInv, Right
<1>12. CASE ClConnect
  BY <1>1, <1>12 DEF ClConnect, ClExit, gameVars, srvVars, FlowInv, Right
<1>13. CASE ClQuit
  BY <1>1, <1>13 DEF ClQuit, AfterLoop, ClExit, srvVars, FlowInv, Right
<1>14. CASE ClSend
  <2>1. toServer = << >> /\ toClient = << >>
    BY <1>1, <1>14 DEF FlowInv, ClSend
  <2>2. \/ toServer' = << >>
        \/ toServer' = <<[guess |-> request, parity |-> Parity(request)]>>
           /\ srv # "done"
    BY <2>1, <1>14, OneMessage DEF ClSend
  <2>3. QED
    BY <1>1, <2>1, <2>2, <1>14 DEF FlowInv, ClSend, srvVars
<1>15. CASE ClKilled
  BY <1>1, <1>15 DEF ClKilled, ClExit, srvVars, FlowInv, Right
<1>16. CASE ClRecv
  <2>1. toClient' = << >>
    BY <1>1, <1>16, OneMessage DEF FlowInv, ClRecv
  <2>2. QED
    BY <1>1, <2>1, <1>16 DEF FlowInv, ClRecv, srvVars
<1>17. CASE ClReset
  BY <1>1, <1>17 DEF ClReset, ClExit, srvVars, FlowInv, Right
<1>18. CASE ClDecide
  <2>1. toClient = << >> /\ toServer = << >>
    BY <1>1, <1>18 DEF FlowInv, ClDecide
  <2>2. QED
    BY <1>1, <2>1, <1>18 DEF FlowInv, ClDecide, AfterLoop, ClExit, srvVars
<1>19. CASE ClSignal
  BY <1>1, <1>19 DEF ClSignal, ClExit, gameVars, srvVars, FlowInv, Right
<1>20. CASE ClInterrupted
  BY <1>1, <1>20 DEF ClInterrupted, ClExit, srvVars, FlowInv, Right
<1>21. CASE UNCHANGED vars
  BY <1>1, <1>21 DEF vars, srvVars, clVars, FlowInv, Right
<1>22. QED
  BY <1>2, <1>3, <1>4, <1>5, <1>6, <1>7, <1>8, <1>9, <1>10, <1>11, <1>12,
     <1>13, <1>14, <1>15, <1>16, <1>17, <1>18, <1>19, <1>20, <1>21
     DEF Next, Server, Client, Finished

(* Every step keeps both counts of the rounds together.                    *)
LEMMA RoundNext ==
    ASSUME GameInv, [Next]_vars
    PROVE  RoundInv'
<1>1. /\ RoundInv /\ MaxTries \in Nat \ {0} /\ round \in Nat /\ rounds \in Nat
      /\ late \in Nat
  BY GameAssumption DEF GameInv, TypeOK
<1>2. CASE SrvParseArgs
  BY <1>1, <1>2 DEF SrvParseArgs, SrvFails, clVars, RoundInv, Counted, Right
<1>3. CASE SrvListen
  BY <1>1, <1>3 DEF SrvListen, SrvFails, clVars, RoundInv, Counted, Right
<1>4. CASE SrvAccept
  BY <1>1, <1>4 DEF SrvAccept, SrvFails, clVars, RoundInv, Counted, Right
<1>5. CASE SrvLoop
  BY <1>1, <1>5 DEF SrvLoop, clVars, RoundInv, Counted, Right
<1>6. CASE SrvAnswer
  <2>1. /\ cl \in {"recv", "done"} /\ toServer # << >> /\ toServer' = << >>
        /\ toClient' = IF cl = "done" THEN << >> ELSE <<TheAnswer>>
        /\ IF Verdict(TheAnswer) = "none" THEN round' = round + 1
                                          ELSE round' = round
        /\ UNCHANGED <<cl, rounds, late>>
        /\ srv = "read"
    BY <1>6, ServerAnswers DEF clVars, SrvAnswer
  <2>2. PICK r \in Answers : r = TheAnswer
    BY VerdictIs
  <2>3. round' \in 1 .. MaxTries /\ rounds' <= round' + late' /\ late' = 0
    <3>1. Verdict(r) = "none" => round # MaxTries
      BY <2>2, VerdictIs
    <3>2. round \in 1 .. MaxTries /\ rounds <= round + late /\ late = 0
      BY <1>1, <2>1 DEF RoundInv
    <3>3. QED
      BY <1>1, <2>1, <2>2, <3>1, <3>2
  <2>4. CASE cl = "done"
    BY <2>1, <2>3, <2>4 DEF RoundInv
  <2>5. CASE cl = "recv"
    <3>1. rounds = round
      BY <1>1, <2>1, <2>5 DEF RoundInv
    <3>2. toClient' = <<r>> /\ Counted(r)'
      BY <1>1, <2>1, <2>2, <2>5, <3>1 DEF Counted
    <3>3. toClient' # << >> /\ Counted(Head(toClient))'
      BY <3>2, OneMessage DEF Counted
    <3>4. QED
      BY <2>1, <2>3, <2>5, <3>3 DEF RoundInv
  <2>6. QED
    BY <2>1, <2>4, <2>5
<1>7. CASE SrvHangsUp
  BY <1>1, <1>7 DEF SrvHangsUp, clVars, RoundInv, Counted, Right
<1>8. CASE SrvExit
  BY <1>1, <1>8 DEF SrvExit, clVars, RoundInv, Counted, Right
<1>9. CASE SrvSignal
  BY <1>1, <1>9 DEF SrvSignal, clVars, RoundInv, Counted, Right
<1>10. CASE SrvInterrupted
  BY <1>1, <1>10 DEF SrvInterrupted, SrvFails, clVars, RoundInv, Counted, Right
<1>11. CASE ClStart
  BY <1>1, <1>11 DEF ClStart, ClExit, gameVars, srvVars, RoundInv, Counted,
           Right
<1>12. CASE ClConnect
  BY <1>1, <1>12 DEF ClConnect, ClExit, gameVars, srvVars, RoundInv, Counted,
           Right
<1>13. CASE ClQuit
  BY <1>1, <1>13 DEF ClQuit, AfterLoop, ClExit, srvVars, RoundInv, Counted,
           Right
<1>14. CASE ClSend
  <2>1. toServer = << >>
    BY <1>14 DEF GameInv, FlowInv, ClSend
  <2>2. toServer' = toServer \/ toServer' # << >>
    BY <2>1, <1>14, OneMessage DEF ClSend
  <2>3. QED
    BY <1>1, <2>1, <2>2, <1>14, OneMessage DEF RoundInv, ClSend, srvVars
<1>15. CASE ClKilled
  BY <1>1, <1>15 DEF ClKilled, ClExit, srvVars, RoundInv, Counted, Right
<1>16. CASE ClRecv
  <2>1. CASE srv = "done"
    BY <1>1, <2>1, <1>16 DEF RoundInv, ClRecv, srvVars
  <2>2. CASE srv # "done"
    <3>1. PICK r \in Answers : toClient = <<r>> /\ Right(r)
      BY <2>2, <1>16 DEF GameInv, FlowInv, ClRecv
    <3>2. /\ response' = r /\ cl = "recv" /\ cl' = "decide" /\ toServer = << >>
          /\ UNCHANGED <<srv, round, rounds, late, request, secret>>
      BY <3>1, <1>16, OneMessage DEF GameInv, FlowInv, ClRecv, srvVars
    <3>3. Right(r)'
      BY <3>1, <3>2, RightStays
    <3>4. Right(response)'
      BY <3>2, <3>3 DEF Right
    <3>5. Counted(r)
      BY <1>1, <2>2, <3>1, <3>2, OneMessage DEF RoundInv
    <3>6. Counted(response)'
      BY <3>2, <3>5 DEF Counted
    <3>7. QED
      BY <1>1, <2>2, <3>2, <3>4, <3>6 DEF RoundInv
  <2>3. QED
    BY <2>1, <2>2
<1>17. CASE ClReset
  BY <1>1, <1>17 DEF ClReset, ClExit, srvVars, RoundInv, Counted, Right
<1>18. CASE ClDecide
  <2>1. CASE Verdict(response) = "none" /\ cl' = "loop"
    BY <1>1, <2>1, <1>18 DEF RoundInv, Counted, ClDecide, srvVars
  <2>2. CASE cl' = "done"
    BY <1>1, <2>2, <1>18 DEF RoundInv, ClDecide, srvVars
  <2>3. QED
    BY <2>1, <2>2, <1>18 DEF ClDecide, AfterLoop, ClExit
<1>19. CASE ClSignal
  BY <1>1, <1>19 DEF ClSignal, ClExit, gameVars, srvVars, RoundInv, Counted,
           Right
<1>20. CASE ClInterrupted
  BY <1>1, <1>20 DEF ClInterrupted, ClExit, srvVars, RoundInv, Counted, Right
<1>21. CASE UNCHANGED vars
  BY <1>1, <1>21 DEF vars, srvVars, clVars, RoundInv, Counted, Right
<1>22. QED
  BY <1>2, <1>3, <1>4, <1>5, <1>6, <1>7, <1>8, <1>9, <1>10, <1>11, <1>12,
     <1>13, <1>14, <1>15, <1>16, <1>17, <1>18, <1>19, <1>20, <1>21
     DEF Next, Server, Client, Finished

(* Every step keeps the secret among the candidates.                       *)
LEMMA SecretNext ==
    ASSUME GameInv, [Next]_vars
    PROVE  SecretStaysPossible'
<1>1. SecretStaysPossible
  BY DEF GameInv
<1>2. CASE SrvParseArgs
  BY <1>1, <1>2 DEF SrvParseArgs, SrvFails, clVars, SecretStaysPossible
<1>3. CASE SrvListen
  BY <1>1, <1>3 DEF SrvListen, SrvFails, clVars, SecretStaysPossible
<1>4. CASE SrvAccept
  BY <1>1, <1>4 DEF SrvAccept, SrvFails, clVars, SecretStaysPossible
<1>5. CASE SrvLoop
  BY <1>1, <1>5 DEF SrvLoop, clVars, SecretStaysPossible
<1>6. CASE SrvAnswer
  <2>1. UNCHANGED <<secret, population>> /\ srv # "done"
    BY <1>6, ServerAnswers DEF clVars, SrvAnswer
  <2>2. QED
    BY <1>1, <2>1 DEF SecretStaysPossible
<1>7. CASE SrvHangsUp
  BY <1>1, <1>7 DEF SrvHangsUp, clVars, SecretStaysPossible
<1>8. CASE SrvExit
  BY <1>1, <1>8 DEF SrvExit, clVars, SecretStaysPossible
<1>9. CASE SrvSignal
  BY <1>1, <1>9 DEF SrvSignal, clVars, SecretStaysPossible
<1>10. CASE SrvInterrupted
  BY <1>1, <1>10 DEF SrvInterrupted, SrvFails, clVars, SecretStaysPossible
<1>11. CASE ClStart
  BY <1>1, <1>11 DEF ClStart, ClExit, gameVars, srvVars, SecretStaysPossible
<1>12. CASE ClConnect
  BY <1>1, <1>12 DEF ClConnect, ClExit, gameVars, srvVars, SecretStaysPossible
<1>13. CASE ClQuit
  BY <1>1, <1>13 DEF ClQuit, AfterLoop, ClExit, srvVars, SecretStaysPossible
<1>14. CASE ClSend
  BY <1>1, <1>14 DEF ClSend, srvVars, SecretStaysPossible
<1>15. CASE ClKilled
  BY <1>1, <1>15 DEF ClKilled, ClExit, srvVars, SecretStaysPossible
<1>16. CASE ClRecv
  <2>1. toClient = << >> => toClient' = << >>
    BY <1>16 DEF ClRecv
  <2>2. QED
    BY <1>1, <2>1, <1>16 DEF SecretStaysPossible, ClRecv, srvVars
<1>17. CASE ClReset
  BY <1>1, <1>17 DEF ClReset, ClExit, srvVars, SecretStaysPossible
<1>18. CASE ClDecide
  <2>1. toClient = << >> /\ UNCHANGED <<srv, secret>>
        /\ (toClient' = toClient \/ toClient' = << >>)
    BY <1>18 DEF GameInv, FlowInv, ClDecide, AfterLoop, ClExit, srvVars
  <2>2. CASE ~ clQuit /\ Verdict(response) = "none"
    BY <2>1, <2>2, <1>18, ClientDecides DEF SecretStaysPossible
  <2>3. CASE UNCHANGED population
    BY <1>1, <2>1, <2>3 DEF SecretStaysPossible
  <2>4. QED
    BY <2>2, <2>3, <1>18 DEF ClDecide
<1>19. CASE ClSignal
  BY <1>1, <1>19 DEF ClSignal, ClExit, gameVars, srvVars, SecretStaysPossible
<1>20. CASE ClInterrupted
  BY <1>1, <1>20 DEF ClInterrupted, ClExit, srvVars, SecretStaysPossible
<1>21. CASE UNCHANGED vars
  BY <1>1, <1>21 DEF vars, srvVars, clVars, SecretStaysPossible
<1>22. QED
  BY <1>2, <1>3, <1>4, <1>5, <1>6, <1>7, <1>8, <1>9, <1>10, <1>11, <1>12,
     <1>13, <1>14, <1>15, <1>16, <1>17, <1>18, <1>19, <1>20, <1>21
     DEF Next, Server, Client, Finished

(* Every step keeps what both know of the verdict.                         *)
LEMMA VerdictNext ==
    ASSUME GameInv, [Next]_vars
    PROVE  VerdictInv'
<1>1. /\ VerdictInv /\ FlowInv /\ RoundInv /\ signals \in Nat
  BY GameAssumption DEF GameInv, TypeOK
<1>2. CASE SrvParseArgs
  BY <1>1, <1>2 DEF SrvParseArgs, SrvFails, clVars, VerdictInv, Playing,
           Decided, Right, FlowInv
<1>3. CASE SrvListen
  BY <1>1, <1>3 DEF SrvListen, SrvFails, clVars, VerdictInv, Playing, Decided,
           Right, FlowInv
<1>4. CASE SrvAccept
  <2>1. /\ UNCHANGED <<toClient, round, rounds, request, secret, response, cl,
                        clRet, clQuit, srvQuit, signals>>
        /\ srv = "accept" /\ connection = "pending"
        /\ \/ srv' = "loop" /\ connection' = "accepted" /\ srvRet' = srvRet
           \/ srv' = "done" /\ connection' = "pending"
    BY <1>4 DEF SrvAccept, SrvFails, clVars
  <2>2. toClient = << >> /\ ~ (connection = "accepted")
    BY <1>1, <2>1 DEF FlowInv
  <2>3. QED
    BY <1>1, <2>1, <2>2 DEF VerdictInv, Playing
<1>5. CASE SrvLoop
  <2>1. round <= MaxTries
    BY <1>1 DEF RoundInv
  <2>2. QED
    BY <1>1, <2>1, <1>5 DEF VerdictInv, Playing, Decided, Right, SrvLoop, clVars
<1>6. CASE SrvAnswer
  <2> SUFFICES ASSUME signals' = 0 PROVE VerdictInv'
    BY DEF VerdictInv
  <2>1. /\ toServer # << >> /\ connection = "accepted" /\ srv = "read"
        /\ toClient' = IF cl = "done" THEN << >> ELSE <<TheAnswer>>
        /\ srvRet' = Verdict(TheAnswer)
        /\ IF Verdict(TheAnswer) = "none"
             THEN srv' = "loop" /\ round' = round + 1
             ELSE srv' = "exit" /\ round' = round
        /\ UNCHANGED <<connection, secret, request, rounds, response, cl, clQuit,
                       srvQuit, signals>>
    BY <1>6, ServerAnswers DEF clVars, SrvAnswer
  <2>2. /\ cl = "recv" /\ Playing /\ rounds = round
        /\ ~ srvQuit /\ ~ clQuit
    <3>1. Playing /\ ~ srvQuit /\ ~ clQuit
      BY <1>1, <2>1 DEF VerdictInv
    <3>2. cl = "recv"
      BY <1>1, <2>1, <3>1 DEF FlowInv, Playing
    <3>3. QED
      BY <1>1, <2>1, <3>1, <3>2 DEF RoundInv
  <2>3. PICK r \in Answers : r = TheAnswer
    BY VerdictIs
  <2>4. Verdict(r) = IF request = secret THEN "won"
                     ELSE IF round = MaxTries THEN "lost" ELSE "none"
    BY <2>3, VerdictIs
  <2>5. toClient' = <<r>> /\ toClient' # << >> /\ Head(toClient') = r
    BY <2>1, <2>2, <2>3, OneMessage
  <2>6. CASE Verdict(r) = "none"
    <3>1. Playing'
      BY <2>1, <2>2, <2>3, <2>5, <2>6 DEF Playing
    <3>2. QED
      BY <2>1, <2>2, <2>3, <2>6, <3>1 DEF VerdictInv
  <2>7. CASE Verdict(r) # "none"
    <3>1. Decided'
      BY <2>1, <2>2, <2>3, <2>4, <2>5, <2>7 DEF Decided
    <3>2. QED
      BY <2>1, <2>2, <2>3, <2>7, <3>1 DEF VerdictInv
  <2>8. QED
    BY <2>6, <2>7
<1>7. CASE SrvHangsUp
  BY <1>1, <1>7 DEF SrvHangsUp, clVars, VerdictInv, Playing, Decided, Right,
           FlowInv
<1>8. CASE SrvExit
  BY <1>1, <1>8 DEF SrvExit, clVars, VerdictInv, Playing, Decided, Right,
           FlowInv
<1>9. CASE SrvSignal
  BY <1>1, <1>9 DEF VerdictInv, SrvSignal
<1>10. CASE SrvInterrupted
  BY <1>1, <1>10 DEF VerdictInv, SrvInterrupted
<1>11. CASE ClStart
  BY <1>1, <1>11 DEF ClStart, ClExit, gameVars, srvVars, VerdictInv, Playing,
           Decided, Right, FlowInv
<1>12. CASE ClConnect
  BY <1>1, <1>12 DEF ClConnect, ClExit, gameVars, srvVars, VerdictInv, Playing,
           Decided, Right, FlowInv
<1>13. CASE ClQuit
  BY <1>1, <1>13 DEF ClQuit, AfterLoop, ClExit, srvVars, VerdictInv, Playing,
           Decided, Right, FlowInv
<1>14. CASE ClSend
  BY <1>1, <1>14 DEF VerdictInv, Playing, Decided, Right, FlowInv, ClSend,
                    srvVars
<1>15. CASE ClKilled
  BY <1>1, <1>15 DEF ClKilled, ClExit, srvVars, VerdictInv, Playing, Decided,
           Right, FlowInv
<1>16. CASE ClRecv
  <2> SUFFICES ASSUME signals' = 0 PROVE VerdictInv'
    BY DEF VerdictInv
  <2>1. /\ cl = "recv" /\ cl' = "decide"
        /\ UNCHANGED <<connection, toServer, srv, secret, round, srvQuit, srvRet,
                       request, rounds, clQuit, clRet, signals>>
    BY <1>16 DEF ClRecv, srvVars
  <2>2. ~ srvQuit /\ ~ clQuit /\ (srv \in {"args", "listen", "accept"} => srvRet = "none")
    BY <1>1, <2>1 DEF VerdictInv
  <2>3. CASE connection = "accepted"
    <3>1. toClient # << >>
      BY <1>1, <2>1, <2>3, <1>16 DEF ClRecv, VerdictInv, Decided
    <3>2. PICK r \in Answers : toClient = <<r>> /\ Right(r)
      BY <1>1, <3>1 DEF FlowInv
    <3>3. response' = r /\ toClient' = << >> /\ Head(toClient) = r
      BY <3>1, <3>2, <1>16, OneMessage DEF ClRecv
    <3>4. Right(r)'
      BY <2>1, <3>2, RightStays
    <3>5. Right(response)'
      BY <3>3, <3>4 DEF Right
    <3>6. CASE srv \in {"loop", "read"}
      <4>1. Playing
        BY <1>1, <2>1, <2>3, <3>6 DEF VerdictInv
      <4>2. Playing'
        BY <2>1, <3>1, <3>3, <4>1 DEF Playing
      <4>3. QED
        BY <2>1, <2>2, <2>3, <3>6, <4>2 DEF VerdictInv
    <3>7. CASE srv \notin {"loop", "read"}
      <4>1. Decided
        BY <1>1, <2>1, <2>3, <3>7 DEF VerdictInv
      <4>2. Decided'
        BY <2>1, <3>1, <3>3, <3>5, <4>1 DEF Decided
      <4>3. QED
        BY <1>1, <2>1, <2>2, <2>3, <3>7, <4>2 DEF VerdictInv, FlowInv
    <3>8. QED
      BY <3>6, <3>7
  <2>4. CASE connection # "accepted"
    <3>1. toClient = << >>
      BY <1>1, <2>4 DEF FlowInv
    <3>2. srv = "done"
      BY <3>1, <1>16 DEF ClRecv
    <3>3. QED
      BY <2>1, <2>2, <2>4, <3>2 DEF VerdictInv
  <2>5. QED
    BY <2>3, <2>4
<1>17. CASE ClReset
  BY <1>1, <1>17 DEF ClReset, ClExit, srvVars, VerdictInv, Playing, Decided,
           Right, FlowInv
<1>18. CASE ClDecide
  <2> SUFFICES ASSUME signals' = 0 PROVE VerdictInv'
    BY DEF VerdictInv
  <2>1. /\ cl = "decide" /\ ~ srvQuit /\ ~ clQuit /\ connection # "none"
        /\ srv \in {"args", "listen", "accept"} => srvRet = "none"
        /\ UNCHANGED <<connection, srv, secret, round, srvQuit, srvRet, response,
                       rounds, clQuit, signals>>
    BY <1>1, <1>18 DEF VerdictInv, FlowInv, ClDecide, srvVars
  <2>2. ~ (srv = "accept" /\ connection = "pending")
    BY <1>1, <2>1 DEF VerdictInv
  <2>3. CASE connection = "accepted" /\ srv \in {"loop", "read"}
    <3>1. Playing /\ Verdict(response) = "none"
      BY <1>1, <2>1, <2>3 DEF VerdictInv, Playing
    <3>2. Playing'
      BY <2>1, <3>1, <1>18, ClientDecides DEF Playing
    <3>3. QED
      BY <2>1, <2>2, <2>3, <3>2 DEF VerdictInv
  <2>4. CASE connection = "accepted" /\ srv \notin {"loop", "read"}
    <3>1. Decided /\ Right(response) /\ Verdict(response) = srvRet
      BY <1>1, <2>1, <2>4 DEF VerdictInv, Decided
    <3>2. srvRet \in {"won", "lost"} /\ ~ response.parityError
      BY <3>1 DEF Decided, Right
    <3>3. cl' = "done" /\ clRet' = srvRet /\ request' = request
      BY <2>1, <3>1, <3>2, <1>18 DEF ClDecide, AfterLoop, ClExit
    <3>4. Decided'
      BY <2>1, <3>1, <3>3 DEF Decided
    <3>5. QED
      BY <2>1, <2>2, <2>4, <3>4 DEF VerdictInv
  <2>5. QED
    BY <2>1, <2>2, <2>3, <2>4 DEF VerdictInv
<1>19. CASE ClSignal
  BY <1>1, <1>19 DEF VerdictInv, ClSignal
<1>20. CASE ClInterrupted
  BY <1>1, <1>20 DEF VerdictInv, ClInterrupted
<1>21. CASE UNCHANGED vars
  BY <1>1, <1>21 DEF vars, srvVars, clVars, VerdictInv, Playing, Decided,
           Right, FlowInv
<1>22. QED
  BY <1>2, <1>3, <1>4, <1>5, <1>6, <1>7, <1>8, <1>9, <1>10, <1>11, <1>12,
     <1>13, <1>14, <1>15, <1>16, <1>17, <1>18, <1>19, <1>20, <1>21
     DEF Next, Server, Client, Finished

-----------------------------------------------------------------------------
(* The theorems.                                                           *)

LEMMA TypesAre ==
    ASSUME FlowInv, PhaseTypes, EndTypes, NumberTypes, GameTypes
    PROVE  TypeOK
<1>1. toServer \in Seq(Request) /\ Len(toServer) <= 1
  <2>1. CASE toServer = << >>
    BY <2>1
  <2>2. CASE toServer # << >>
    <3> DEFINE m == [guess |-> request, parity |-> Parity(request)]
    <3>1. toServer = <<m>>
      BY <2>2 DEF FlowInv
    <3>2. m \in Request
      BY ParityType DEF Request, GameTypes
    <3> HIDE DEF m
    <3>3. QED
      BY <3>1, <3>2
  <2>3. QED
    BY <2>1, <2>2
<1>2. toClient \in Seq(Answers) /\ Len(toClient) <= 1
  <2>1. CASE toClient = << >>
    BY <2>1
  <2>2. CASE toClient # << >>
    <3>1. PICK r \in Answers : toClient = <<r>>
      BY <2>2 DEF FlowInv
    <3>2. QED
      BY <3>1
  <2>3. QED
    BY <2>1, <2>2
<1>3. QED
  BY <1>1, <1>2 DEF TypeOK, PhaseTypes, EndTypes, NumberTypes, GameTypes

LEMMA TypesAreNext ==
    FlowInv' /\ PhaseTypes' /\ EndTypes' /\ NumberTypes' /\ GameTypes' => TypeOK'
<1>1. FlowInv /\ PhaseTypes /\ EndTypes /\ NumberTypes /\ GameTypes => TypeOK
  BY TypesAre
<1>2. QED
  BY <1>1, PTL

(* The invariant holds in every state of every game.                       *)
THEOREM GameInvariant == Spec => []GameInv
<1>1. Init => GameInv
  <2> SUFFICES ASSUME Init PROVE GameInv
    OBVIOUS
  <2>1. MaxTries \in Nat \ {0} /\ MaxLate \in Nat /\ MaxSignals \in Nat
        /\ Garbage \subseteq Answers
    BY GameAssumption
  <2>2. FlowInv
    BY DEF Init, FlowInv
  <2>3. PhaseTypes /\ EndTypes /\ GameTypes
    BY <2>1, InitialGuessIsCode
       DEF Init, PhaseTypes, EndTypes, GameTypes, Verdicts
  <2>4. NumberTypes /\ RoundInv
    BY <2>1 DEF Init, NumberTypes, RoundInv
  <2>5. SecretStaysPossible /\ VerdictInv
    BY DEF Init, SecretStaysPossible, VerdictInv
  <2>6. QED
    BY <2>2, <2>3, <2>4, <2>5, TypesAre DEF GameInv
<1>2. GameInv /\ [Next]_vars => GameInv'
  <2> SUFFICES ASSUME GameInv, [Next]_vars PROVE GameInv'
    OBVIOUS
  <2>1. TypeOK'
    BY FlowNext, PhasesNext, EndsNext, NumbersNext, GamesNext, TypesAreNext
  <2>2. QED
    BY <2>1, FlowNext, RoundNext, SecretNext, VerdictNext DEF GameInv
<1>3. QED
  BY <1>1, <1>2, PTL DEF Spec

(* Messages, phases and counters of both programs have their types; in     *)
(* particular neither direction ever holds two messages, and round does    *)
(* not leave the tries.                                                    *)
THEOREM GameTypeCorrect == Spec => []TypeOK
<1>1. GameInv => TypeOK
  BY DEF GameInv
<1>2. QED
  BY <1>1, GameInvariant, PTL

(* Every answer of the server is that of the game: red counts right colors *)
(* in the right place, red and white what guess and secret have in common. *)
THEOREM GameAnswers == Spec => []AnswerIsMastermind
<1>1. GameInv => AnswerIsMastermind
  <2> SUFFICES ASSUME GameInv, toClient # << >>
               PROVE  /\ Head(toClient).red = Cardinality(Reds(request, secret))
                      /\ Head(toClient).red + Head(toClient).white
                           = Cardinality(Pegs(request, secret))
    BY DEF AnswerIsMastermind
  <2>1. PICK r \in Answers : toClient = <<r>> /\ Right(r)
    BY DEF GameInv, FlowInv
  <2>2. Head(toClient) = r
    BY <2>1, OneMessage
  <2>3. request \in Codes /\ secret \in Codes
    BY DEF GameInv, TypeOK
  <2>4. QED
    BY <2>1, <2>2, <2>3, RedsAndWhites DEF Right
<1>2. QED
  BY <1>1, GameInvariant, PTL

(* generatePopulation never throws the secret out, although it compares    *)
(* with guess and secret exchanged.                                        *)
THEOREM GameSecretStays == Spec => []SecretStaysPossible
<1>1. GameInv => SecretStaysPossible
  BY DEF GameInv
<1>2. QED
  BY <1>1, GameInvariant, PTL

(* Without signals both programs end a game with the same verdict after    *)
(* the same number of rounds, and it is the right one.                     *)
THEOREM GameSameVerdict == Spec => []SameVerdict
<1>1. GameInv => SameVerdict
  <2> SUFFICES ASSUME GameInv, signals = 0, srv = "done", cl = "done",
                      connection = "accepted"
               PROVE  /\ clRet = srvRet
                      /\ clRet = IF request = secret THEN "won" ELSE "lost"
                      /\ rounds = round
    BY DEF SameVerdict
  <2>1. Decided
    BY DEF GameInv, VerdictInv
  <2>2. QED
    BY <2>1 DEF Decided
<1>2. QED
  BY <1>1, GameInvariant, PTL

================================================================================
