------------------------------- MODULE AntFolds -------------------------------
(* Induction, and what a fold over a sequence is: the facts the proofs     *)
(* about tables need.  FoldLeft chooses a function by its recursive        *)
(* equation: here is that there is one, and what any such function does    *)
(* along the sequence.                                                     *)
EXTENDS Integers, SequencesExt, FiniteSetTheorems, WellFoundedInduction, TLAPS

(* Induction on the natural numbers, over a set instead of a predicate.    *)
LEMMA SetInduction ==
  ASSUME NEW S, 0 \in S, \A n \in Nat : n \in S => n + 1 \in S
  PROVE  \A n \in Nat : n \in S
  <1> DEFINE T == Nat \ S
             R == OpToRel(<, Nat)
  <1>1. SUFFICES ASSUME T # {} PROVE FALSE
    OBVIOUS
  <1>2. IsWellFoundedOn(R, Nat)
    BY NatLessThanWellFounded, PTL
  <1>3. T \subseteq Nat
    OBVIOUS
  <1> HIDE DEF T, R
  <1>4. PICK x \in T : \A y \in T : <<y, x>> \notin R
    BY <1>1, <1>2, <1>3, WFMin
  <1>5. x \in Nat /\ x \notin S
    BY DEF T
  <1>6. x # 0
    BY <1>5
  <1>7. x - 1 \in Nat /\ x - 1 < x /\ x - 1 + 1 = x
    BY <1>5, <1>6
  <1>8. x - 1 \in T
    BY <1>5, <1>7 DEF T
  <1>9. <<x - 1, x>> \in R
    BY <1>5, <1>7 DEF R, OpToRel
  <1> QED
    BY <1>4, <1>8, <1>9

(* The same up to a bound.                                                 *)
LEMMA BoundedInduction ==
  ASSUME NEW n \in Nat, NEW S, 0 \in S, \A k \in 1 .. n : k - 1 \in S => k \in S
  PROVE  \A k \in 0 .. n : k \in S
  <1> DEFINE U == {k \in Nat : k <= n => k \in S}
  <1>1. 0 \in U
    OBVIOUS
  <1>2. ASSUME NEW k \in Nat, k \in U PROVE k + 1 \in U
    <2>1. CASE k + 1 <= n
      <3>1. k \in S /\ k + 1 \in 1 .. n /\ (k + 1) - 1 = k
        BY <1>2, <2>1
      <3> QED
        BY <3>1
    <2> QED
      BY <2>1
  <1> HIDE DEF U
  <1>3. \A k \in Nat : k \in U
    BY <1>1, <1>2, SetInduction
  <1> QED
    BY <1>3 DEF U

(* A set of the first natural numbers has a largest one.                   *)
LEMMA MaxMember ==
  ASSUME NEW n \in Nat, NEW s \in SUBSET (1 .. n), s # {}
  PROVE  Max(s) \in s /\ \A k \in s : Max(s) >= k
  <1> DEFINE U == {m \in Nat : \A r \in SUBSET (1 .. m) :
                     r # {} => \E x \in r : \A y \in r : x >= y}
  <1>1. 0 \in U
    <2>1. 1 .. 0 = {}
      OBVIOUS
    <2> QED
      BY <2>1
  <1>2. ASSUME NEW m \in Nat, m \in U PROVE m + 1 \in U
    <2> SUFFICES ASSUME NEW r \in SUBSET (1 .. m + 1), r # {}
                 PROVE  \E x \in r : \A y \in r : x >= y
      OBVIOUS
    <2>1. CASE m + 1 \in r
      BY <2>1
    <2>2. CASE m + 1 \notin r
      <3>1. r \in SUBSET (1 .. m)
        BY <2>2
      <3> QED
        BY <1>2, <3>1
    <2> QED
      BY <2>1, <2>2
  <1> HIDE DEF U
  <1>3. n \in U
    BY <1>1, <1>2, SetInduction
  <1> QED
    BY <1>3 DEF U, Max

LEMMA MaxOfInterval ==
  ASSUME NEW k \in Nat, k # 0
  PROVE  Max(1 .. k) = k /\ (1 .. k) \ {Max(1 .. k)} = 1 .. (k - 1)
  <1>1. 1 .. k # {} /\ 1 .. k \in SUBSET (1 .. k) /\ k \in 1 .. k
    OBVIOUS
  <1>2. Max(1 .. k) \in 1 .. k /\ Max(1 .. k) >= k
    BY <1>1, MaxMember
  <1> QED
    BY <1>2

(* And a least one.                                                        *)
LEMMA LeastMember ==
  ASSUME NEW n \in Nat, NEW s \in SUBSET (1 .. n), s # {}
  PROVE  \E x \in s : \A y \in s : x <= y
  <1> DEFINE U == {m \in Nat : \A r \in SUBSET (1 .. m) :
                     r # {} => \E x \in r : \A y \in r : x <= y}
  <1>1. 0 \in U
    <2>1. 1 .. 0 = {}
      OBVIOUS
    <2> QED
      BY <2>1
  <1>2. ASSUME NEW m \in Nat, m \in U PROVE m + 1 \in U
    <2> SUFFICES ASSUME NEW r \in SUBSET (1 .. m + 1), r # {}
                 PROVE  \E x \in r : \A y \in r : x <= y
      OBVIOUS
    <2> DEFINE q == r \ {m + 1}
    <2>1. q \in SUBSET (1 .. m) /\ \A y \in r : y \in q \/ y = m + 1
      OBVIOUS
    <2> HIDE DEF q
    <2>2. CASE q = {}
      <3>1. \A y \in r : y = m + 1
        BY <2>1, <2>2
      <3>2. m + 1 \in r
        BY <3>1
      <3>3. \A y \in r : m + 1 <= y
        BY <3>1
      <3> WITNESS m + 1 \in r
      <3> QED
        BY <3>3
    <2>3. CASE q # {}
      <3>1. PICK x \in q : \A y \in q : x <= y
        BY <1>2, <2>1, <2>3
      <3>2. x \in r /\ x \in 1 .. m
        BY <2>1, <3>1 DEF q
      <3> QED
        BY <2>1, <3>1, <3>2
    <2> QED
      BY <2>2, <2>3
  <1> HIDE DEF U
  <1>3. n \in U
    BY <1>1, <1>2, SetInduction
  <1> QED
    BY <1>3 DEF U

(* A step on the values T for each place of a sequence, and the functions  *)
(* with the equation by which FoldLeft chooses one.                        *)
Steps(n, T) == [1 .. n -> [T -> T]]

FoldFunctions(T, b, n, F) ==
  {g \in [SUBSET (1 .. n) -> T] :
     \A r \in SUBSET (1 .. n) :
       g[r] = IF r = {} THEN b ELSE F[Max(r)][g[r \ {Max(r)}]]}

(* There is one.                                                           *)
LEMMA FoldExists ==
  ASSUME NEW T, NEW b \in T, NEW n \in Nat, NEW F \in Steps(n, T)
  PROVE  \E g : g \in FoldFunctions(T, b, n, F)
  <1> DEFINE Good(m) ==
               {g \in [SUBSET (1 .. n) -> T] :
                  \A r \in SUBSET (1 .. m) :
                    g[r] = IF r = {} THEN b ELSE F[Max(r)][g[r \ {Max(r)}]]}
             U == {m \in Nat : m <= n => Good(m) # {}}
  <1>0. F \in [1 .. n -> [T -> T]]
    BY DEF Steps
  <1> HIDE DEF Good
  <1>1. 0 \in U
    <2> DEFINE g == [r \in SUBSET (1 .. n) |-> b]
    <2>1. g \in [SUBSET (1 .. n) -> T]
      OBVIOUS
    <2>2. g \in Good(0)
      <3>1. 1 .. 0 = {}
        OBVIOUS
      <3>2. \A r \in SUBSET (1 .. 0) : r = {} /\ r \in SUBSET (1 .. n)
        BY <3>1
      <3>3. \A r \in SUBSET (1 .. n) : g[r] = b
        OBVIOUS
      <3> HIDE DEF g
      <3> QED
        BY <2>1, <3>2, <3>3 DEF Good
    <2> HIDE DEF g
    <2> QED
      BY <2>2
  <1>2. ASSUME NEW m \in Nat, m \in U PROVE m + 1 \in U
    <2> SUFFICES ASSUME m + 1 <= n PROVE \E g : g \in Good(m + 1)
      OBVIOUS
    <2>1. PICK h : h \in Good(m)
      BY <1>2
    <2> DEFINE g == [r \in SUBSET (1 .. n) |->
                       IF r = {} THEN b ELSE F[Max(r)][h[r \ {Max(r)}]]]
    <2>2. \A r \in SUBSET (1 .. n) : r # {} =>
            /\ Max(r) \in 1 .. n /\ Max(r) \in r
            /\ \A k \in r : Max(r) >= k
            /\ r \ {Max(r)} \in SUBSET (1 .. n)
      BY MaxMember
    <2>7. h \in [SUBSET (1 .. n) -> T]
      BY <2>1 DEF Good
    <2>3. g \in [SUBSET (1 .. n) -> T]
      BY <1>0, <2>2, <2>7
    <2>4. \A r \in SUBSET (1 .. m) : g[r] = h[r]
      <3>1. \A r \in SUBSET (1 .. m) : r \in SUBSET (1 .. n)
        OBVIOUS
      <3> QED
        BY <2>1, <3>1 DEF Good
    <2>5. ASSUME NEW r \in SUBSET (1 .. m + 1)
          PROVE  g[r] = IF r = {} THEN b ELSE F[Max(r)][g[r \ {Max(r)}]]
      <3>1. r \in SUBSET (1 .. n)
        OBVIOUS
      <3>2. CASE r = {}
        BY <3>1, <3>2
      <3>3. CASE r # {}
        <4>1. r \ {Max(r)} \in SUBSET (1 .. m)
          <5>1. ASSUME NEW k \in r \ {Max(r)} PROVE k \in 1 .. m
            <6>1. k \in 1 .. m + 1 /\ Max(r) \in 1 .. m + 1 /\ Max(r) >= k /\ k # Max(r)
              BY <2>2, <3>1, <3>3, <5>1
            <6> QED
              BY <6>1
          <5> QED
            BY <5>1
        <4>2. g[r \ {Max(r)}] = h[r \ {Max(r)}]
          BY <2>4, <4>1
        <4> QED
          BY <3>1, <3>3, <4>2
      <3> QED
        BY <3>2, <3>3
    <2> HIDE DEF g
    <2>6. g \in Good(m + 1)
      BY <2>3, <2>5 DEF Good
    <2> QED
      BY <2>6
  <1> HIDE DEF U
  <1>3. n \in U
    BY <1>1, <1>2, SetInduction
  <1>4. PICK g : g \in Good(n)
    BY <1>3 DEF U
  <1> QED
    BY <1>4 DEF Good, FoldFunctions

(* What the chosen one is known to do: it takes the step from a value of T. *)
TakesSteps(h, T, b, n, F) ==
  /\ h[{}] = b
  /\ \A r \in SUBSET (1 .. n) :
       r # {} /\ h[r \ {Max(r)}] \in T => h[r] = F[Max(r)][h[r \ {Max(r)}]]

(* The values the fold goes through.                                       *)
Chains(T, b, n, F) ==
  {c \in [0 .. n -> T] : c[0] = b /\ \A k \in 1 .. n : c[k] = F[k][c[k - 1]]}

(* Such a function, taken at the beginnings of the sequence, is a chain.   *)
LEMMA FoldChain ==
  ASSUME NEW T, NEW b \in T, NEW n \in Nat, NEW F \in Steps(n, T), NEW h,
         TakesSteps(h, T, b, n, F)
  PROVE  \E c : c \in Chains(T, b, n, F) /\ c[n] = h[1 .. n]
  <1> DEFINE S == {k \in 0 .. n : h[1 .. k] \in T}
             c == [k \in 0 .. n |-> h[1 .. k]]
  <1>0. F \in [1 .. n -> [T -> T]]
    BY DEF Steps
  <1>1. h[1 .. 0] = b
    <2>1. 1 .. 0 = {}
      OBVIOUS
    <2> QED
      BY <2>1 DEF TakesSteps
  <1>2. ASSUME NEW k \in 1 .. n, h[1 .. (k - 1)] \in T
        PROVE  h[1 .. k] = F[k][h[1 .. (k - 1)]] /\ h[1 .. k] \in T
    <2>1. 1 .. k \in SUBSET (1 .. n) /\ 1 .. k # {}
      OBVIOUS
    <2>2. Max(1 .. k) = k /\ (1 .. k) \ {Max(1 .. k)} = 1 .. (k - 1)
      BY MaxOfInterval
    <2>3. h[1 .. k] = F[k][h[1 .. (k - 1)]]
      BY <1>2, <2>1, <2>2 DEF TakesSteps
    <2>4. F[k] \in [T -> T]
      BY <1>0
    <2>5. F[k][h[1 .. (k - 1)]] \in T
      BY <1>2, <2>4
    <2> QED
      BY <2>3, <2>5
  <1>3. 0 \in S
    BY <1>1
  <1>4. ASSUME NEW k \in 1 .. n, k - 1 \in S PROVE k \in S
    BY <1>2, <1>4
  <1> HIDE DEF S
  <1>5. \A k \in 0 .. n : k \in S
    BY <1>3, <1>4, BoundedInduction
  <1>6. \A k \in 0 .. n : h[1 .. k] \in T
    BY <1>5 DEF S
  <1>7. c \in [0 .. n -> T] /\ c[0] = b /\ c[n] = h[1 .. n]
    BY <1>1, <1>6
  <1>8. \A k \in 1 .. n : c[k] = F[k][c[k - 1]]
    <2> TAKE k \in 1 .. n
    <2>1. k \in 0 .. n /\ k - 1 \in 0 .. n
      OBVIOUS
    <2> QED
      BY <1>2, <1>6, <2>1
  <1> HIDE DEF c
  <1> QED
    BY <1>7, <1>8 DEF Chains
-----------------------------------------------------------------------------
(* Induction on the subsets of a finite set.                               *)
LEMMA SubsetInduction ==
  ASSUME NEW S, IsFiniteSet(S), NEW G,
         \A r \in SUBSET S : (\A q \in SUBSET r : q # r => q \in G) => r \in G
  PROVE  \A r \in SUBSET S : r \in G
  <1> DEFINE T == (SUBSET S) \ G
             R == StrictSubsetOrdering(S)
  <1>1. SUFFICES ASSUME T # {} PROVE FALSE
    OBVIOUS
  <1>2. FiniteSubsetsOf(S) = SUBSET S
    BY FS_FiniteSubsetsOfFinite
  <1>3. IsWellFoundedOn(R, SUBSET S)
    BY <1>2, FS_StrictSubsetOrderingWellFounded
  <1>4. T \subseteq SUBSET S
    OBVIOUS
  <1> HIDE DEF T, R
  <1>5. PICK r \in T : \A q \in T : <<q, r>> \notin R
    BY <1>1, <1>3, <1>4, WFMin
  <1>6. r \in SUBSET S /\ r \notin G
    BY DEF T
  <1>7. ASSUME NEW q \in SUBSET r, q # r PROVE q \in G
    <2>1. q \in SUBSET S /\ <<q, r>> \in R
      BY <1>6, <1>7 DEF R, StrictSubsetOrdering
    <2> QED
      BY <1>5, <2>1 DEF T
  <1> QED
    BY <1>6, <1>7

(* The equation by which MapThenSumSet chooses a function, of a weight for *)
(* each member.                                                            *)
Sums(S, w, g) ==
  g = [s \in SUBSET S |->
         IF s = {} THEN 0
         ELSE LET x == CHOOSE x \in s : TRUE IN w[x] + g[s \ {x}]]

LEMMA SumExists ==
  ASSUME NEW S, IsFiniteSet(S), NEW w \in [S -> Int]
  PROVE  \E g : Sums(S, w, g)
  <1> DEFINE d(r) == CHOOSE x \in r : TRUE
             Good(m) ==
               {g \in [SUBSET S -> Int] :
                  \A r \in SUBSET S : Cardinality(r) <= m =>
                    g[r] = IF r = {} THEN 0 ELSE w[d(r)] + g[r \ {d(r)}]}
             U == {m \in Nat : Good(m) # {}}
  <1>1. \A r \in SUBSET S : /\ Cardinality(r) \in Nat
                            /\ Cardinality(r) = 0 => r = {}
                            /\ Cardinality(r) <= Cardinality(S)
    BY FS_Subset, FS_CardinalityType, FS_EmptySet
  <1>2. \A r \in SUBSET S : r # {} => /\ d(r) \in r /\ d(r) \in S
                                      /\ r \ {d(r)} \in SUBSET S
    OBVIOUS
  <1>3. \A r \in SUBSET S : r # {} => Cardinality(r \ {d(r)}) = Cardinality(r) - 1
    BY <1>2, FS_Subset, FS_RemoveElement
  <1> HIDE DEF d, Good
  <1>4. 0 \in U
    <2> DEFINE g == [r \in SUBSET S |-> 0]
    <2>1. g \in Good(0)
      BY <1>1 DEF Good
    <2> QED
      BY <2>1
  <1>5. ASSUME NEW m \in Nat, m \in U PROVE m + 1 \in U
    <2>1. PICK h : h \in Good(m)
      BY <1>5
    <2>2. h \in [SUBSET S -> Int]
      BY <2>1 DEF Good
    <2> DEFINE g == [r \in SUBSET S |-> IF r = {} THEN 0 ELSE w[d(r)] + h[r \ {d(r)}]]
    <2>3. \A r \in SUBSET S : g[r] = IF r = {} THEN 0 ELSE w[d(r)] + h[r \ {d(r)}]
      OBVIOUS
    <2>4. g \in [SUBSET S -> Int]
      BY <1>2, <2>2
    <2> HIDE DEF g
    <2>5. \A r \in SUBSET S : Cardinality(r) <= m => g[r] = h[r]
      BY <2>1, <2>3 DEF Good
    <2>6. ASSUME NEW r \in SUBSET S, Cardinality(r) <= m + 1
          PROVE  g[r] = IF r = {} THEN 0 ELSE w[d(r)] + g[r \ {d(r)}]
      <3>1. CASE r = {}
        BY <2>3, <3>1
      <3>2. CASE r # {}
        <4>1. Cardinality(r \ {d(r)}) <= m
          BY <1>1, <1>3, <2>6, <3>2
        <4>2. g[r \ {d(r)}] = h[r \ {d(r)}]
          BY <1>2, <2>5, <3>2, <4>1
        <4> QED
          BY <2>3, <3>2, <4>2
      <3> QED
        BY <3>1, <3>2
    <2>7. g \in Good(m + 1)
      BY <2>4, <2>6 DEF Good
    <2> QED
      BY <2>7
  <1> HIDE DEF U
  <1>6. Cardinality(S) \in Nat
    BY FS_CardinalityType
  <1>7. Cardinality(S) \in U
    BY <1>4, <1>5, <1>6, SetInduction
  <1>8. PICK g : g \in Good(Cardinality(S))
    BY <1>7 DEF U
  <1>9. /\ g \in [SUBSET S -> Int]
        /\ \A r \in SUBSET S : g[r] = IF r = {} THEN 0 ELSE w[d(r)] + g[r \ {d(r)}]
    BY <1>1, <1>8 DEF Good
  <1>10. Sums(S, w, g)
    BY <1>9 DEF Sums, d
  <1> QED
    BY <1>10

(* Its values are integers.                                                *)
LEMMA SumIsInt ==
  ASSUME NEW S, IsFiniteSet(S), NEW w \in [S -> Int], NEW g, Sums(S, w, g)
  PROVE  \A r \in SUBSET S : g[r] \in Int
  <1> DEFINE G == {r \in SUBSET S : g[r] \in Int}
             d(r) == CHOOSE x \in r : TRUE
  <1>1. \A r \in SUBSET S : r # {} => /\ d(r) \in r /\ d(r) \in S
                                      /\ r \ {d(r)} \in SUBSET r
                                      /\ r \ {d(r)} # r
    OBVIOUS
  <1>2. \A r \in SUBSET S : g[r] = IF r = {} THEN 0 ELSE w[d(r)] + g[r \ {d(r)}]
    BY DEF Sums
  <1> HIDE DEF d
  <1>3. ASSUME NEW r \in SUBSET S, \A q \in SUBSET r : q # r => q \in G PROVE r \in G
    <2>1. CASE r = {}
      <3>1. g[r] = 0
        BY <1>2, <2>1
      <3> QED
        BY <3>1
    <2>2. CASE r # {}
      <3>1. g[r \ {d(r)}] \in Int /\ w[d(r)] \in Int
        BY <1>1, <1>3, <2>2
      <3> QED
        BY <1>2, <2>2, <3>1
    <2> QED
      BY <2>1, <2>2
  <1> HIDE DEF G
  <1>4. \A r \in SUBSET S : r \in G
    BY <1>3, SubsetInduction
  <1> QED
    BY <1>4 DEF G
=============================================================================
