--------------------------- MODULE InductionLemmas ---------------------------
(* Induction stated with sets: the sets of counterexamples have least      *)
(* elements, so that a property of all naturals, or of all subsets of a    *)
(* finite set, follows from its steps without an operator parameter.       *)
EXTENDS Integers, FiniteSets, Folds, Functions, FiniteSetTheorems, WellFoundedInduction, TLAPS

(* A nonempty set of finite sets has a member with no proper subset in it. *)
LEMMA LeastFiniteSet ==
  ASSUME NEW S, NEW T, \A x \in T : x \in SUBSET S /\ IsFiniteSet(x), T # {}
  PROVE  \E x \in T : \A y \in T : y \subseteq x => y = x
<1>1. T \subseteq FiniteSubsetsOf(S)
  BY DEF FiniteSubsetsOf
<1>2. IsWellFoundedOn(StrictSubsetOrdering(S), FiniteSubsetsOf(S))
  BY FS_StrictSubsetOrderingWellFounded
<1>3. PICK x \in T : \A y \in T : ~ (<<y, x>> \in StrictSubsetOrdering(S))
  BY <1>1, <1>2, WFMin
<1>4. \A y \in T : y \subseteq x => y = x
  BY <1>3 DEF StrictSubsetOrdering
<1> QED BY <1>4

(* A nonempty set of naturals has a least member. *)
LEMMA LeastNatural ==
  ASSUME NEW T \in SUBSET Nat, T # {}
  PROVE  \E x \in T : \A y \in T : x <= y
<1> DEFINE I == {0..n : n \in T}
<1>1. I # {}
  OBVIOUS
<1>2. ASSUME NEW x \in I PROVE x \in SUBSET Nat /\ IsFiniteSet(x)
  <2>1. PICK n \in T : x = 0..n
    OBVIOUS
  <2>2. n \in Int /\ 0..n \subseteq Nat
    OBVIOUS
  <2> QED BY <2>1, <2>2, FS_Interval
<1>3. PICK i \in I : \A y \in I : y \subseteq i => y = i
  <2> HIDE DEF I
  <2> QED BY <1>1, <1>2, LeastFiniteSet
<1>4. PICK m \in T : i = 0..m
  BY <1>3
<1>5. ASSUME NEW y \in T PROVE m <= y
  <2>1. CASE y < m
    <3>1. 0..y \subseteq 0..m /\ 0..y \in I
      BY <2>1
    <3>2. 0..y = 0..m
      BY <1>3, <1>4, <3>1
    <3>3. m \in 0..m /\ m \notin 0..y
      BY <2>1
    <3> QED BY <3>2, <3>3
  <2> QED BY <2>1
<1> QED BY <1>5

(* Induction on the naturals. *)
LEMMA NaturalInduction ==
  ASSUME NEW T, 0 \in T, \A n \in Nat : n \in T => n + 1 \in T
  PROVE  Nat \subseteq T
<1> DEFINE C == Nat \ T
<1> SUFFICES ASSUME C # {} PROVE FALSE
  OBVIOUS
<1>1. PICK m \in C : \A y \in C : m <= y
  <2>1. C \in SUBSET Nat
    OBVIOUS
  <2> HIDE DEF C
  <2> QED BY <2>1, LeastNatural
<1>2. m # 0 /\ m - 1 \in Nat
  OBVIOUS
<1>3. m - 1 \in T
  BY <1>1, <1>2
<1>4. (m - 1) + 1 \in T
  BY <1>2, <1>3
<1> QED BY <1>4

\* The member that CHOOSE takes out of a set, as the folds do.
Pick(R) == CHOOSE x \in R : TRUE

(* Induction on the subsets of a finite set, taking one member out. *)
LEMMA SubsetInduction ==
  ASSUME NEW S, IsFiniteSet(S), NEW T, {} \in T,
         \A R \in SUBSET S : R # {} /\ R \ {Pick(R)} \in T => R \in T
  PROVE  S \in T
<1> DEFINE C == (SUBSET S) \ T
<1> SUFFICES ASSUME S \notin T PROVE FALSE
  OBVIOUS
<1>1. PICK R \in C : \A y \in C : y \subseteq R => y = R
  <2>1. C # {} /\ \A x \in C : x \in SUBSET S /\ IsFiniteSet(x)
    BY FS_Subset
  <2> HIDE DEF C
  <2> QED BY <2>1, LeastFiniteSet
<1>2. R # {} /\ Pick(R) \in R
  BY DEF Pick
<1>3. R \ {Pick(R)} \in T
  BY <1>1, <1>2
<1> QED BY <1>1, <1>2, <1>3
-----------------------------------------------------------------------------
(* Sums.  The folds of the community modules take one member out of the    *)
(* set at each step, always the one CHOOSE yields.                         *)

SumOf(f) == FoldFunction(LAMBDA x, y : x + y, 0, f)

\* it gives the sum of f over every subset of S.
Sums(it, f, S) ==
  /\ it \in [SUBSET S -> Int]
  /\ \A R \in SUBSET S : it[R] = IF R = {} THEN 0 ELSE f[Pick(R)] + it[R \ {Pick(R)}]

LEMMA SumOfNone ==
  ASSUME NEW S, NEW f, NEW it, Sums(it, f, S)
  PROVE  it[{}] = 0
  BY {} \in SUBSET S DEF Sums

(* Such a function exists, by induction on the size of the subsets.        *)
LEMMA SumsExist ==
  ASSUME NEW S, IsFiniteSet(S), NEW f \in [S -> Int]
  PROVE  \E it : Sums(it, f, S)
<1> DEFINE Small(n) == {R \in SUBSET S : Cardinality(R) <= n}
           Step(it, R) == IF R = {} THEN 0 ELSE f[Pick(R)] + it[R \ {Pick(R)}]
           Up(n, it) == it \in [Small(n) -> Int] /\ \A R \in Small(n) : it[R] = Step(it, R)
           T == {n \in Nat : \E it : Up(n, it)}
<1>1. ASSUME NEW R \in SUBSET S
      PROVE  Cardinality(R) \in Nat /\ (Cardinality(R) = 0 <=> R = {})
  BY FS_Subset, FS_CardinalityType, FS_EmptySet
<1>2. ASSUME NEW R \in SUBSET S, R # {}
      PROVE  /\ Pick(R) \in R /\ R \ {Pick(R)} \in SUBSET S
             /\ Cardinality(R \ {Pick(R)}) = Cardinality(R) - 1
  <2>1. IsFiniteSet(R)
    BY FS_Subset
  <2>2. Pick(R) \in R
    BY <1>2 DEF Pick
  <2> QED BY <2>1, <2>2, FS_RemoveElement
<1>3. 0 \in T
  <2> DEFINE it == [R \in Small(0) |-> 0]
  <2>1. ASSUME NEW R \in Small(0) PROVE R = {}
    <3>1. Cardinality(R) \in Nat /\ Cardinality(R) <= 0
      BY <1>1
    <3>2. Cardinality(R) = 0
      BY <3>1
    <3> QED BY <1>1, <3>2
  <2>2. it \in [Small(0) -> Int] /\ \A R \in Small(0) : it[R] = Step(it, R)
    BY <2>1
  <2> HIDE DEF it, Small, Step
  <2> QED BY <2>2
<1>4. ASSUME NEW n \in Nat, n \in T PROVE n + 1 \in T
  <2>1. PICK it : Up(n, it)
    BY <1>4
  <2> DEFINE jt == [R \in Small(n + 1) |-> Step(it, R)]
  <2>2. ASSUME NEW R \in Small(n + 1), R # {}
        PROVE  R \ {Pick(R)} \in Small(n) /\ Pick(R) \in S
    <3>1. Cardinality(R) \in Nat /\ Cardinality(R) <= n + 1 /\ R \in SUBSET S
      BY <1>1
    <3>2. /\ Pick(R) \in R /\ R \ {Pick(R)} \in SUBSET S
          /\ Cardinality(R \ {Pick(R)}) = Cardinality(R) - 1
      BY <1>2, <2>2, <3>1
    <3> QED BY <3>1, <3>2
  <2>3. ASSUME NEW R \in Small(n) PROVE R \in Small(n + 1)
    BY <1>1
  <2> HIDE DEF Small
  <2>4. jt \in [Small(n + 1) -> Int]
    BY <2>1, <2>2
  <2>5. ASSUME NEW R \in Small(n) PROVE jt[R] = it[R]
    BY <2>1, <2>3
  <2>6. ASSUME NEW R \in Small(n + 1) PROVE jt[R] = Step(jt, R)
    <3>1. CASE R = {}
      BY <3>1
    <3>2. CASE R # {}
      <4>1. jt[R \ {Pick(R)}] = it[R \ {Pick(R)}]
        BY <2>2, <2>5, <3>2
      <4> QED BY <4>1
    <3> QED BY <3>1, <3>2
  <2> HIDE DEF jt, Step
  <2> QED BY <2>4, <2>6
<1>5. Nat \subseteq T
  <2> HIDE DEF T
  <2> QED BY <1>3, <1>4, NaturalInduction
<1>6. Cardinality(S) \in Nat /\ Small(Cardinality(S)) = SUBSET S
  BY FS_CardinalityType, FS_Subset
<1>7. PICK it : Up(Cardinality(S), it)
  <2> HIDE DEF Up, Small
  <2> QED BY <1>5, <1>6
<1> HIDE DEF Small
<1>8. Sums(it, f, S)
  BY <1>6, <1>7 DEF Sums
<1> QED BY <1>8

(* The fold computes it. *)
LEMMA SumIsSums ==
  ASSUME NEW S, IsFiniteSet(S), NEW f \in [S -> Int]
  PROVE  \E it : Sums(it, f, S) /\ SumOf(f) = it[S]
<1> DEFINE iter == CHOOSE it : it = [R \in SUBSET S |-> IF R = {} THEN 0 ELSE f[Pick(R)] + it[R \ {Pick(R)}]]
<1>1. PICK it : Sums(it, f, S)
  BY SumsExist
<1>2. it = [R \in SUBSET S |-> IF R = {} THEN 0 ELSE f[Pick(R)] + it[R \ {Pick(R)}]]
  BY <1>1 DEF Sums
<1>3. iter = [R \in SUBSET S |-> IF R = {} THEN 0 ELSE f[Pick(R)] + iter[R \ {Pick(R)}]]
  BY <1>2
<1>4. SumOf(f) = iter[S]
  BY DEF SumOf, FoldFunction, FoldFunctionOnSet, MapThenFoldSet, Pick
<1> HIDE DEF iter
<1> DEFINE T == {R \in SUBSET S : iter[R] = it[R]}
<1>5. {} \in T
  BY <1>2, <1>3
<1>6. ASSUME NEW R \in SUBSET S, R # {}, R \ {Pick(R)} \in T
      PROVE  R \in T
  BY <1>2, <1>3, <1>6
<1>7. S \in T
  <2> HIDE DEF T
  <2> QED BY <1>6, <1>5, SubsetInduction
<1> QED BY <1>1, <1>4, <1>7

(* Sums are integers; they grow with their terms. *)
LEMMA SumType ==
  ASSUME NEW S, IsFiniteSet(S), NEW f \in [S -> Int]
  PROVE  SumOf(f) \in Int
<1>1. PICK it : Sums(it, f, S) /\ SumOf(f) = it[S]
  BY SumIsSums
<1> QED BY <1>1 DEF Sums

LEMMA SumOfZeros ==
  ASSUME NEW S, IsFiniteSet(S), NEW f \in [S -> Int], \A x \in S : f[x] = 0
  PROVE  SumOf(f) = 0
<1>1. PICK it : Sums(it, f, S) /\ SumOf(f) = it[S]
  BY SumIsSums
<1> DEFINE T == {R \in SUBSET S : it[R] = 0}
<1>2. {} \in T
  BY <1>1, SumOfNone
<1>3. ASSUME NEW R \in SUBSET S, R # {}, R \ {Pick(R)} \in T
      PROVE  R \in T
  <2>1. Pick(R) \in S
    BY <1>3 DEF Pick
  <2> QED BY <1>1, <1>3, <2>1 DEF Sums
<1>4. S \in T
  <2> HIDE DEF T
  <2> QED BY <1>3, <1>2, SubsetInduction
<1> QED BY <1>1, <1>4

LEMMA SumAdded ==
  ASSUME NEW S, IsFiniteSet(S), NEW f \in [S -> Int], NEW g \in [S -> Int], NEW w \in S, NEW v \in Int,
         g[w] = f[w] + v, \A x \in S : x # w => g[x] = f[x]
  PROVE  SumOf(g) = SumOf(f) + v
<1>1. PICK it : Sums(it, f, S) /\ SumOf(f) = it[S]
  BY SumIsSums
<1>2. PICK jt : Sums(jt, g, S) /\ SumOf(g) = jt[S]
  BY SumIsSums
<1> DEFINE T == {R \in SUBSET S : jt[R] = it[R] + (IF w \in R THEN v ELSE 0)}
<1>3. {} \in T
  BY <1>1, <1>2, SumOfNone
<1>4. ASSUME NEW R \in SUBSET S, R # {}, R \ {Pick(R)} \in T
      PROVE  R \in T
  <2>1. Pick(R) \in S /\ Pick(R) \in R
    BY <1>4 DEF Pick
  <2>2. g[Pick(R)] = f[Pick(R)] + (IF w = Pick(R) THEN v ELSE 0)
    BY <2>1
  <2>3. /\ jt[R] = g[Pick(R)] + jt[R \ {Pick(R)}]
        /\ it[R] = f[Pick(R)] + it[R \ {Pick(R)}]
        /\ it[R] \in Int /\ it[R \ {Pick(R)}] \in Int /\ f[Pick(R)] \in Int
    BY <1>1, <1>2, <1>4, <2>1 DEF Sums
  <2>4. jt[R \ {Pick(R)}] = it[R \ {Pick(R)}] + (IF w \in R \ {Pick(R)} THEN v ELSE 0)
    BY <1>4
  <2>5. CASE w = Pick(R)
    BY <2>1, <2>2, <2>3, <2>4, <2>5
  <2>6. CASE w # Pick(R)
    BY <2>1, <2>2, <2>3, <2>4, <2>6
  <2> QED BY <2>5, <2>6
<1>5. S \in T
  <2> HIDE DEF T
  <2> QED BY <1>4, <1>3, SubsetInduction
<1> QED BY <1>1, <1>2, <1>5

LEMMA SumIncrement ==
  ASSUME NEW S, IsFiniteSet(S), NEW f \in [S -> Int], NEW w \in S
  PROVE  SumOf([f EXCEPT ![w] = @ + 1]) = SumOf(f) + 1
<1> DEFINE g == [f EXCEPT ![w] = @ + 1]
<1>1. g \in [S -> Int] /\ g[w] = f[w] + 1 /\ 1 \in Int /\ \A x \in S : x # w => g[x] = f[x]
  OBVIOUS
<1> HIDE DEF g
<1>2. SumOf(g) = SumOf(f) + 1
  BY <1>1, SumAdded
<1> QED BY <1>2 DEF g

LEMMA SumMonotone ==
  ASSUME NEW S, IsFiniteSet(S), NEW f \in [S -> Int], NEW g \in [S -> Int],
         \A x \in S : f[x] <= g[x]
  PROVE  SumOf(f) <= SumOf(g)
<1>1. PICK it : Sums(it, f, S) /\ SumOf(f) = it[S]
  BY SumIsSums
<1>2. PICK jt : Sums(jt, g, S) /\ SumOf(g) = jt[S]
  BY SumIsSums
<1> DEFINE T == {R \in SUBSET S : it[R] <= jt[R]}
<1>3. {} \in T
  BY <1>1, <1>2, SumOfNone
<1>4. ASSUME NEW R \in SUBSET S, R # {}, R \ {Pick(R)} \in T
      PROVE  R \in T
  <2>1. Pick(R) \in S
    BY <1>4 DEF Pick
  <2> QED BY <1>1, <1>2, <1>4, <2>1 DEF Sums
<1>5. S \in T
  <2> HIDE DEF T
  <2> QED BY <1>4, <1>3, SubsetInduction
<1> QED BY <1>1, <1>2, <1>5

LEMMA SumOfSums ==
  ASSUME NEW S, IsFiniteSet(S), NEW f \in [S -> Int], NEW g \in [S -> Int]
  PROVE  SumOf([x \in S |-> f[x] + g[x]]) = SumOf(f) + SumOf(g)
<1> DEFINE h == [x \in S |-> f[x] + g[x]]
<1>1. PICK it : Sums(it, f, S) /\ SumOf(f) = it[S]
  BY SumIsSums
<1>2. PICK jt : Sums(jt, g, S) /\ SumOf(g) = jt[S]
  BY SumIsSums
<1>3. PICK kt : Sums(kt, h, S) /\ SumOf(h) = kt[S]
  <2>1. h \in [S -> Int]
    OBVIOUS
  <2> HIDE DEF h
  <2> QED BY <2>1, SumIsSums
<1> DEFINE T == {R \in SUBSET S : kt[R] = it[R] + jt[R]}
<1>4. {} \in T
  BY <1>1, <1>2, <1>3, SumOfNone
<1>5. ASSUME NEW R \in SUBSET S, R # {}, R \ {Pick(R)} \in T
      PROVE  R \in T
  <2>1. Pick(R) \in S
    BY <1>5 DEF Pick
  <2>2. /\ it[R] = f[Pick(R)] + it[R \ {Pick(R)}] /\ f[Pick(R)] \in Int
        /\ jt[R] = g[Pick(R)] + jt[R \ {Pick(R)}] /\ g[Pick(R)] \in Int
        /\ it[R \ {Pick(R)}] \in Int /\ jt[R \ {Pick(R)}] \in Int
    BY <1>1, <1>2, <1>5, <2>1 DEF Sums
  <2>3. kt[R] = (f[Pick(R)] + g[Pick(R)]) + kt[R \ {Pick(R)}]
    BY <1>3, <1>5, <2>1 DEF Sums
  <2> QED BY <1>5, <2>2, <2>3
<1>6. S \in T
  <2> HIDE DEF T
  <2> QED BY <1>5, <1>4, SubsetInduction
<1> QED BY <1>1, <1>2, <1>3, <1>6
-----------------------------------------------------------------------------
(* Folds in general: it gives what is folded over every subset of S, with  *)
(* the member that choose takes out of a set folded last.                  *)

FoldsUp(it, S, P, base, step, choose) ==
  /\ it \in [SUBSET S -> P]
  /\ \A R \in SUBSET S :
       it[R] = IF R = {} THEN base ELSE step[<<it[R \ {choose[R]}], choose[R]>>]

(* Such a function exists, by induction on the size of the subsets.        *)
LEMMA FoldsExist ==
  ASSUME NEW S, IsFiniteSet(S), NEW P, NEW base \in P, NEW step, NEW choose,
         \A R \in SUBSET S : R # {} => choose[R] \in R,
         \A q \in P, s \in S : step[<<q, s>>] \in P
  PROVE  \E it : FoldsUp(it, S, P, base, step, choose)
<1> DEFINE Small(n) == {R \in SUBSET S : Cardinality(R) <= n}
           Step(it, R) == IF R = {} THEN base ELSE step[<<it[R \ {choose[R]}], choose[R]>>]
           Up(n, it) == it \in [Small(n) -> P] /\ \A R \in Small(n) : it[R] = Step(it, R)
           T == {n \in Nat : \E it : Up(n, it)}
<1>1. ASSUME NEW R \in SUBSET S
      PROVE  Cardinality(R) \in Nat /\ (Cardinality(R) = 0 <=> R = {})
  BY FS_Subset, FS_CardinalityType, FS_EmptySet
<1>2. ASSUME NEW R \in SUBSET S, R # {}
      PROVE  /\ choose[R] \in R /\ R \ {choose[R]} \in SUBSET S
             /\ Cardinality(R \ {choose[R]}) = Cardinality(R) - 1
  <2>1. IsFiniteSet(R)
    BY FS_Subset
  <2>2. choose[R] \in R
    BY <1>2
  <2> QED BY <2>1, <2>2, FS_RemoveElement
<1>3. 0 \in T
  <2> DEFINE it == [R \in Small(0) |-> base]
  <2>1. ASSUME NEW R \in Small(0) PROVE R = {}
    <3>1. Cardinality(R) \in Nat /\ Cardinality(R) <= 0
      BY <1>1
    <3>2. Cardinality(R) = 0
      BY <3>1
    <3> QED BY <1>1, <3>2
  <2>2. it \in [Small(0) -> P] /\ \A R \in Small(0) : it[R] = Step(it, R)
    BY <2>1
  <2> HIDE DEF it, Small, Step
  <2> QED BY <2>2
<1>4. ASSUME NEW n \in Nat, n \in T PROVE n + 1 \in T
  <2>1. PICK it : Up(n, it)
    BY <1>4
  <2> DEFINE jt == [R \in Small(n + 1) |-> Step(it, R)]
  <2>2. ASSUME NEW R \in Small(n + 1), R # {}
        PROVE  R \ {choose[R]} \in Small(n) /\ choose[R] \in S
    <3>1. Cardinality(R) \in Nat /\ Cardinality(R) <= n + 1 /\ R \in SUBSET S
      BY <1>1
    <3>2. /\ choose[R] \in R /\ R \ {choose[R]} \in SUBSET S
          /\ Cardinality(R \ {choose[R]}) = Cardinality(R) - 1
      BY <1>2, <2>2, <3>1
    <3> QED BY <3>1, <3>2
  <2>3. ASSUME NEW R \in Small(n) PROVE R \in Small(n + 1)
    BY <1>1
  <2> HIDE DEF Small
  <2>4. jt \in [Small(n + 1) -> P]
    BY <2>1, <2>2
  <2>5. ASSUME NEW R \in Small(n) PROVE jt[R] = it[R]
    BY <2>1, <2>3
  <2>6. ASSUME NEW R \in Small(n + 1) PROVE jt[R] = Step(jt, R)
    <3>1. CASE R = {}
      BY <3>1
    <3>2. CASE R # {}
      <4>1. jt[R \ {choose[R]}] = it[R \ {choose[R]}]
        BY <2>2, <2>5, <3>2
      <4> QED BY <3>2, <4>1
    <3> QED BY <3>1, <3>2
  <2> HIDE DEF jt, Step
  <2> QED BY <2>4, <2>6
<1>5. Nat \subseteq T
  <2> HIDE DEF T
  <2> QED BY <1>3, <1>4, NaturalInduction
<1>6. Cardinality(S) \in Nat /\ Small(Cardinality(S)) = SUBSET S
  BY FS_CardinalityType, FS_Subset
<1>7. PICK it : Up(Cardinality(S), it)
  <2> HIDE DEF Up, Small
  <2> QED BY <1>5, <1>6
<1> HIDE DEF Small
<1>8. FoldsUp(it, S, P, base, step, choose)
  BY <1>6, <1>7 DEF FoldsUp
<1> QED BY <1>8

(* The greatest member, which FoldLeft takes for the last of 1 .. k. *)
Greatest(R) == CHOOSE x \in R : \A y \in R : x >= y

LEMMA GreatestIsOne ==
  ASSUME NEW n \in Nat, NEW R \in SUBSET (1 .. n), R # {}
  PROVE  Greatest(R) \in R /\ \A y \in R : Greatest(R) >= y
<1> DEFINE D == {n - y : y \in R}
<1>1. D \in SUBSET Nat
  OBVIOUS
<1>2. D # {}
  <2>1. PICK y \in R : TRUE
    OBVIOUS
  <2>2. n - y \in D
    BY <2>1
  <2> QED BY <2>2
<1>3. PICK d \in D : \A e \in D : d <= e
  <2> HIDE DEF D
  <2> QED BY <1>1, <1>2, LeastNatural
<1>4. PICK x \in R : d = n - x
  BY <1>3
<1>5. ASSUME NEW y \in R PROVE x >= y
  <2>1. n - x <= n - y
    BY <1>3, <1>4
  <2> QED BY <2>1
<1> QED BY <1>5 DEF Greatest

LEMMA GreatestOfInterval ==
  ASSUME NEW k \in Nat, k # 0
  PROVE  Greatest(1 .. k) = k /\ (1 .. k) \ {k} = 1 .. (k - 1) /\ 1 .. k # {}
<1>1. 1 .. k \in SUBSET (1 .. k) /\ k \in 1 .. k
  OBVIOUS
<1>2. Greatest(1 .. k) \in 1 .. k /\ Greatest(1 .. k) >= k
  BY <1>1, GreatestIsOne
<1> QED BY <1>2
=============================================================================
